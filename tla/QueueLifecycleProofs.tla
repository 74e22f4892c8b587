------------------------ MODULE QueueLifecycleProofs ------------------------
(***************************************************************************)
(* Theorems about QueueLifecycle, for any readers of each kind and any     *)
(* number of segments and items.                                           *)
(***************************************************************************)
EXTENDS QueueLifecycle, TLAPS

(* Where the writer is says what it has mapped, and a reader that has      *)
(* opened the queue has a segment.                                         *)
Open(r) == reader[r] \in {"opened", "running"}

WriterInv ==
    /\ writer \in {"down", "forked"} => mapped = None
    /\ writer \in {"named", "sized", "running"} => mapped = linked /\ mapped \in Segments
    /\ \A r \in Readers : Open(r) => seg[r] \in Segments

(* Once the writer is forked, a bound reader has opened, if any, what the  *)
(* name links to, and the writer will open, or has opened, the same.       *)
LinkedInv ==
    writer # "down" =>
        \A r \in Bound : Open(r) => linked # None /\ seg[r] = linked

(* Without a crash no segment is left behind: the next one is new, its     *)
(* index is 0 until it is constructed, and nobody is ahead of it.          *)
FreshInv ==
    /\ linked <= made /\ mapped <= made
    /\ \A s \in Segments : s > made => idx[s] = 0
    /\ ~crashed =>
         /\ writer \in {"down", "forked"} => linked = None
         /\ writer \in {"named", "sized"} => idx[mapped] = 0
         /\ writer # "down" =>
              \A r \in Bound : reader[r] = "running" => pos[r] <= idx[seg[r]]

IInv == TypeOK /\ WriterInv /\ LinkedInv /\ FreshInv

-----------------------------------------------------------------------------
(* Taking readers down keeps their types, and the others as they are.      *)
LEMMA DownLemma ==
    ASSUME NEW R, TypeOK, Down(R)
    PROVE  /\ reader' \in [Readers -> {"down", "opened", "running", "without"}]
           /\ seg' \in [Readers -> Segments \cup {None}]
           /\ pos' = pos
           /\ \A r \in Readers : reader'[r] # "down" =>
                  r \notin R /\ reader'[r] = reader[r] /\ seg'[r] = seg[r]
BY DEF Down, TypeOK

(* There is no segment and nobody runs at first.                           *)
LEMMA InitIInv == Init => IInv
<1> SUFFICES ASSUME Init PROVE IInv OBVIOUS
<1>1. TypeOK
    <2>1. 0 \in 0..MaxItems /\ 0 \in 0..MaxSegments
        BY LifecycleAssumption DEF LifecycleAssumption
    <2>2. /\ idx \in [Segments -> 0..MaxItems]
          /\ pos \in [Readers -> 0..MaxItems]
        BY <2>1 DEF Init
    <2>3. /\ reader \in [Readers -> {"down", "opened", "running", "without"}]
          /\ seg \in [Readers -> Segments \cup {None}]
        BY DEF Init
    <2> QED BY <2>1, <2>2, <2>3 DEF Init, TypeOK
<1>2. WriterInv BY DEF Init, WriterInv, Open
<1>3. LinkedInv BY DEF Init, LinkedInv
<1>4. FreshInv BY DEF Init, FreshInv, None
<1> QED BY <1>1, <1>2, <1>3, <1>4 DEF IInv

(* The steps of the writer.                                                *)
LEMMA WriterStep ==
    ASSUME IInv, Writer
    PROVE  IInv'
<1> USE LifecycleAssumption DEF LifecycleAssumption, IInv, None, Open
<1>0. TypeOK /\ WriterInv /\ LinkedInv /\ FreshInv /\ Bound \subseteq Readers
    BY DEF Readers
<1>1. CASE WriterFork
    <2>1. Down(Bound) BY <1>1 DEF WriterFork, StoppedWith
    <2>2. \A r \in Bound : reader'[r] = "down"
        BY <1>0, <2>1, DownLemma
    <2>3. TypeOK' BY <1>0, <1>1, <2>1, DownLemma DEF WriterFork, TypeOK
    <2>4. WriterInv' BY <1>0, <1>1, <2>1, DownLemma DEF WriterFork, WriterInv
    <2>5. LinkedInv' BY <2>2 DEF LinkedInv
    <2>6. FreshInv' BY <1>0, <1>1, <2>2 DEF WriterFork, FreshInv
    <2> QED BY <2>3, <2>4, <2>5, <2>6
<1>2. CASE WriterName
    <2>1. TypeOK' BY <1>0, <1>2 DEF WriterName, readerVars, TypeOK, Segments
    <2>2. mapped' = linked' /\ mapped' \in Segments
        BY <1>0, <1>2 DEF WriterName, TypeOK, Segments
    <2>3. WriterInv' BY <1>0, <1>2, <2>2 DEF WriterName, readerVars, WriterInv
    <2>4. LinkedInv' BY <1>0, <1>2 DEF WriterName, readerVars, LinkedInv, TypeOK
    <2>5. FreshInv'
        <3>1. \A s \in Segments : s > made' => idx'[s] = 0
            BY <1>0, <1>2 DEF WriterName, FreshInv, TypeOK, Segments
        <3>0. linked' <= made' /\ mapped' <= made'
            BY <1>0, <1>2 DEF WriterName, FreshInv, TypeOK
        <3>2. ASSUME ~crashed' PROVE linked = None /\ idx'[mapped'] = 0
            <4>1. linked = None BY <1>0, <1>2, <3>2 DEF WriterName, FreshInv
            <4>2. mapped' = made + 1 /\ made + 1 > made
                BY <1>0, <1>2, <4>1 DEF WriterName, TypeOK
            <4> QED BY <1>0, <1>2, <2>2, <4>1, <4>2 DEF WriterName, FreshInv
        <3>3. ASSUME ~crashed' PROVE \A r \in Bound : reader'[r] # "running"
            BY <1>0, <1>2, <3>2, <3>3 DEF WriterName, readerVars, LinkedInv
        <3> QED BY <1>2, <3>0, <3>1, <3>2, <3>3 DEF WriterName, FreshInv
    <2> QED BY <2>1, <2>3, <2>4, <2>5
<1>3. CASE WriterSize
    <2>1. TypeOK' BY <1>0, <1>3 DEF WriterSize, readerVars, TypeOK, WriterInv
    <2>2. WriterInv' BY <1>0, <1>3 DEF WriterSize, readerVars, WriterInv
    <2>3. LinkedInv' BY <1>0, <1>3 DEF WriterSize, readerVars, LinkedInv
    <2>4. FreshInv' BY <1>0, <1>3 DEF WriterSize, readerVars, FreshInv
    <2> QED BY <2>1, <2>2, <2>3, <2>4
<1>4. CASE WriterConstruct
    <2>0. 0 \in 0..MaxItems OBVIOUS
    <2>1. TypeOK'
        <3>1. idx' \in [Segments -> 0..MaxItems]
            BY <1>0, <1>4, <2>0 DEF WriterConstruct, TypeOK
        <3> QED BY <1>0, <1>4, <3>1 DEF WriterConstruct, readerVars, TypeOK
    <2>2. WriterInv' BY <1>0, <1>4 DEF WriterConstruct, readerVars, WriterInv
    <2>3. LinkedInv' BY <1>0, <1>4 DEF WriterConstruct, readerVars, LinkedInv
    <2>4. ASSUME ~crashed PROVE idx' = idx
        BY <1>0, <1>4, <2>4 DEF WriterConstruct, FreshInv, TypeOK
    <2>5. \A s \in Segments : s > made => idx'[s] = 0
        BY <1>0, <1>4 DEF WriterConstruct, FreshInv, TypeOK
    <2>6. FreshInv' BY <1>0, <1>4, <2>4, <2>5 DEF WriterConstruct, readerVars, FreshInv
    <2> QED BY <2>1, <2>2, <2>3, <2>6
<1>5. CASE Push
    <2>1. TypeOK' BY <1>0, <1>5 DEF Push, readerVars, TypeOK, WriterInv
    <2>2. WriterInv' BY <1>0, <1>5 DEF Push, readerVars, WriterInv
    <2>3. LinkedInv' BY <1>0, <1>5 DEF Push, readerVars, LinkedInv
    <2>4. \A s \in Segments : idx[s] <= idx'[s]
        BY <1>0, <1>5 DEF Push, TypeOK
    <2>5. \A s \in Segments : s > made => idx'[s] = 0
        <3>1. \A s \in Segments : s > made => ~(s = mapped)
            BY <1>0, <1>5 DEF FreshInv, TypeOK, Segments
        <3> QED BY <1>0, <1>5, <3>1 DEF Push, TypeOK, FreshInv
    <2>6. FreshInv'
        BY <1>0, <1>5, <2>4, <2>5 DEF Push, readerVars, FreshInv, TypeOK, WriterInv
    <2> QED BY <2>1, <2>2, <2>3, <2>6
<1>6. ASSUME CloseQueue,
             /\ reader' \in [Readers -> {"down", "opened", "running", "without"}]
             /\ seg' \in [Readers -> Segments \cup {None}]
             /\ pos' = pos
             /\ \A r \in Readers : reader'[r] # "down" =>
                    reader'[r] = reader[r] /\ seg'[r] = seg[r]
      PROVE  IInv'
    <2>1. TypeOK' BY <1>0, <1>6 DEF CloseQueue, Unlinked, TypeOK
    <2>2. WriterInv' BY <1>0, <1>6 DEF CloseQueue, WriterInv
    <2>3. LinkedInv' BY <1>6 DEF CloseQueue, LinkedInv
    <2>4. FreshInv' BY <1>0, <1>6 DEF CloseQueue, Unlinked, FreshInv, TypeOK
    <2> QED BY <2>1, <2>2, <2>3, <2>4
<1>7. CASE WriterStop
    <2>1. CloseQueue /\ Down(StoppedWith) BY <1>7 DEF WriterStop
    <2> QED BY <1>0, <1>6, <2>1, DownLemma
<1>8. CASE WriterFails
    <2>1. CloseQueue /\ UNCHANGED <<reader, seg, pos>>
        BY <1>8 DEF WriterFails, readerVars
    <2> QED BY <1>0, <1>6, <2>1 DEF TypeOK
<1>9. CASE WriterCrash
    <2>1. TypeOK' BY <1>0, <1>9 DEF WriterCrash, readerVars, TypeOK
    <2>2. WriterInv' BY <1>0, <1>9 DEF WriterCrash, readerVars, WriterInv
    <2>3. LinkedInv' BY <1>9 DEF WriterCrash, LinkedInv
    <2>4. FreshInv' BY <1>0, <1>9 DEF WriterCrash, FreshInv, TypeOK
    <2> QED BY <2>1, <2>2, <2>3, <2>4
<1> QED BY <1>1, <1>2, <1>3, <1>4, <1>5, <1>7, <1>8, <1>9 DEF Writer

(* The steps of a reader.                                                  *)
LEMMA ReaderStepLemma ==
    ASSUME IInv, NEW q \in Readers, ReaderStep(q)
    PROVE  IInv'
<1> USE LifecycleAssumption DEF LifecycleAssumption, IInv, None, Open
<1>0. TypeOK /\ WriterInv /\ LinkedInv /\ FreshInv /\ Bound \subseteq Readers
    BY DEF Readers
<1>1. CASE ReaderOpen(q)
    <2>0. linked \in Segments BY <1>0, <1>1 DEF ReaderOpen, TypeOK
    <2>1. TypeOK' BY <1>0, <1>1, <2>0 DEF ReaderOpen, writerVars, TypeOK
    <2>2. WriterInv' BY <1>0, <1>1, <2>0 DEF ReaderOpen, writerVars, WriterInv, TypeOK
    <2>3. LinkedInv' BY <1>0, <1>1, <2>0 DEF ReaderOpen, writerVars, LinkedInv, TypeOK, Segments
    <2>4. \A r \in Bound : reader'[r] = "running" =>
              reader[r] = "running" /\ seg'[r] = seg[r] /\ pos'[r] = pos[r]
        BY <1>0, <1>1 DEF ReaderOpen, TypeOK
    <2>5. FreshInv' BY <1>0, <1>1, <2>4 DEF ReaderOpen, writerVars, FreshInv
    <2> QED BY <2>1, <2>2, <2>3, <2>5
<1>5. CASE ReaderStart(q)
    <2>0. seg[q] \in Segments BY <1>0, <1>5 DEF ReaderStart, WriterInv
    <2>1. TypeOK' BY <1>0, <1>5, <2>0 DEF ReaderStart, writerVars, StartPos, TypeOK
    <2>2. WriterInv' BY <1>0, <1>5 DEF ReaderStart, writerVars, WriterInv, TypeOK
    <2>3. LinkedInv' BY <1>0, <1>5 DEF ReaderStart, writerVars, LinkedInv, TypeOK
    <2>4. \A r \in Bound : reader'[r] = "running" =>
              \/ reader[r] = "running" /\ pos'[r] = pos[r]
              \/ pos'[r] = idx[seg[r]]
        BY <1>0, <1>5 DEF ReaderStart, StartPos, TypeOK
    <2>5. \A r \in Bound : idx[seg[r]] <= idx[seg[r]] \/ seg[r] \notin Segments
        BY <1>0 DEF TypeOK
    <2>6. FreshInv'
        BY <1>0, <1>5, <2>4, <2>5 DEF ReaderStart, writerVars, FreshInv, WriterInv, TypeOK
    <2> QED BY <2>1, <2>2, <2>3, <2>6
<1>2. CASE ReaderOpenFails(q)
    <2>1. TypeOK' BY <1>0, <1>2 DEF ReaderOpenFails, writerVars, TypeOK
    <2>2. \A r \in Readers : reader'[r] = reader[r] \/ reader'[r] = "without"
        BY <1>0, <1>2 DEF ReaderOpenFails, TypeOK
    <2>3. WriterInv' BY <1>0, <1>2, <2>2 DEF ReaderOpenFails, writerVars, WriterInv
    <2>4. LinkedInv' BY <1>0, <1>2, <2>2 DEF ReaderOpenFails, writerVars, LinkedInv
    <2>5. FreshInv' BY <1>0, <1>2, <2>2 DEF ReaderOpenFails, writerVars, FreshInv
    <2> QED BY <2>1, <2>3, <2>4, <2>5
<1>3. CASE Consume(q)
    <2>0. seg[q] \in Segments BY <1>0, <1>3 DEF Consume, WriterInv
    <2>1. TypeOK' BY <1>0, <1>3, <2>0 DEF Consume, writerVars, TypeOK
    <2>2. WriterInv' BY <1>0, <1>3 DEF Consume, writerVars, WriterInv
    <2>3. LinkedInv' BY <1>0, <1>3 DEF Consume, writerVars, LinkedInv
    <2>4. \A r \in Bound : pos'[r] = pos[r] \/ (r = q /\ pos'[r] = idx[seg[r]])
        BY <1>0, <1>3 DEF Consume, TypeOK
    <2>5. idx[seg[q]] <= idx[seg[q]] BY <1>0, <2>0 DEF TypeOK
    <2>6. FreshInv' BY <1>0, <1>3, <2>4, <2>5 DEF Consume, writerVars, FreshInv
    <2> QED BY <2>1, <2>2, <2>3, <2>6
<1>4. CASE ReaderStop(q) \/ ReaderDies(q)
    <2>1. Down({q}) /\ UNCHANGED writerVars BY <1>4 DEF ReaderStop, ReaderDies
    <2>2. TypeOK' BY <1>0, <2>1, DownLemma DEF writerVars, TypeOK
    <2>3. WriterInv' BY <1>0, <2>1, DownLemma DEF writerVars, WriterInv
    <2>4. LinkedInv' BY <1>0, <2>1, DownLemma DEF writerVars, LinkedInv
    <2>5. FreshInv' BY <1>0, <2>1, DownLemma DEF writerVars, FreshInv
    <2> QED BY <2>2, <2>3, <2>4, <2>5
<1> QED BY <1>1, <1>2, <1>3, <1>4, <1>5 DEF ReaderStep

(* Every step keeps the invariant.                                         *)
LEMMA NextIInv == IInv /\ [Next]_vars => IInv'
<1> SUFFICES ASSUME IInv, [Next]_vars PROVE IInv' OBVIOUS
<1>1. CASE Writer BY <1>1, WriterStep
<1>2. CASE \E r \in Readers : ReaderStep(r) BY <1>2, ReaderStepLemma
<1>3. CASE UNCHANGED vars
    BY <1>3 DEF vars, writerVars, readerVars, IInv, TypeOK, WriterInv, LinkedInv,
       FreshInv, Open
<1> QED BY <1>1, <1>2, <1>3 DEF Next

(* So it holds always.                                                     *)
LEMMA Invariance == Spec => []IInv
BY InitIInv, NextIInv, PTL DEF Spec

-----------------------------------------------------------------------------
(* The types of the segments, the writer and the readers.                  *)
THEOREM TypeCorrect == Spec => []TypeOK
<1>1. IInv => TypeOK BY DEF IInv
<1> QED BY <1>1, Invariance, PTL

(* No stop, failed start, crash or restart of the writer leaves a bound    *)
(* reader on a segment the running writer does not write to.               *)
THEOREM BoundReadersFollow == Spec => []BoundOnTheSegment
<1>1. IInv => BoundOnTheSegment
    BY DEF IInv, WriterInv, LinkedInv, Open, BoundOnTheSegment, OnTheSegment
<1> QED BY <1>1, Invariance, PTL

(* Without a crash of the writer no bound reader is ahead of its index.    *)
THEOREM NobodyAhead == Spec => []NoReaderAhead
<1>1. IInv => NoReaderAhead
    BY DEF IInv, FreshInv, NoReaderAhead, ReaderNeverAhead
<1> QED BY <1>1, Invariance, PTL
=============================================================================
