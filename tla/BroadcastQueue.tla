--------------------------- MODULE BroadcastQueue ---------------------------
(***************************************************************************)
(* The single-writer broadcast queue that every process of the system      *)
(* meets in (src/common/broadcast_queue.hpp), together with the Python     *)
(* readers of the same memory (src/captive-portal/shm_reader.py).          *)
(*                                                                         *)
(* Items are numbered 0, 1, 2, ... in the order they are pushed; item i    *)
(* lives in slot i % Capacity.  A push is a multi-word store into the slot *)
(* followed by a release store of the index; a read is a multi-word load   *)
(* of the slot that nothing protects.  Stores and loads of a slot are      *)
(* therefore two steps each, and a load that meets a store, or two         *)
(* different items, yields Torn.                                           *)
(*                                                                         *)
(* The release store orders the item before its own index, and nothing     *)
(* orders the NEXT items' stores after it: on the ARM board they may       *)
(* become visible while the index still lags.  StoreWindow is how many     *)
(* items beyond the visible index may have touched memory; 1 is the        *)
(* sequentially consistent machine.                                        *)
(***************************************************************************)
EXTENDS Integers

CONSTANTS
    Capacity,     \* number of slots (4096 telemetry, 256 GPS)
    StoreWindow,  \* items whose stores may run ahead of the visible index
    Trusting,     \* C++ consumers: consume() with no overrun check
    Clamping,     \* Python consumers: consume() that clamps to the last lap
    MaxItems      \* bound on the number of pushes

ASSUME QueueAssumption ==
    /\ Capacity \in Nat \ {0}
    /\ StoreWindow \in 1..Capacity
    /\ MaxItems \in Nat
    /\ Trusting \cap Clamping = {}

Readers == Trusting \cup Clamping

Zeroed == -1   \* a slot no push has reached: the segment is value-initialised
Torn   == -2   \* a mixture: bytes of two items, or of a store under way

Contents == Nat \cup {Zeroed, Torn}

NoDelivery == [pos |-> -1, item |-> Zeroed, lapped |-> FALSE]

VARIABLES
    writeIdx,   \* write_idx_ as the readers see it
    storing,    \* items whose slot store has begun and not ended
    stored,     \* items stored whose index is not visible yet
    slot,       \* buffer_
    phase,      \* where each reader is in its loop
    pos,        \* consumer_pos
    head,       \* idx, the snapshot consume() works up to
    half,       \* what the first half of a read found in the slot
    delivery    \* the last callback: position, item, and whether the slot
                \* had been taken for a later item by then (history only)

writerVars == <<writeIdx, storing, stored, slot>>
readerVars == <<phase, pos, head, half, delivery>>
vars == <<writeIdx, storing, stored, slot, phase, pos, head, half, delivery>>

Slots   == 0..(Capacity - 1)
At(i)   == i % Capacity
Begun(i) == i < writeIdx \/ i \in storing \/ i \in stored

\* The slot of item i has been taken for a later item.
Lapped(i) == Begun(i + Capacity)

(* while (consumer_pos < idx), after two faults: a bound one too large,   *)
(* and one too small.                                                      *)
LoopTestLong(p, h) == IF p <= h THEN "looping" ELSE "idle"
LoopTestShort(p, h) == IF p + 1 < h THEN "looping" ELSE "idle"
LoopTest(p, h) == IF p < h THEN "looping" ELSE "idle"

(* The clamp of shm_reader.py, after a fault: one item too far.  consume()*)
(* in C++ has none.                                                        *)
ClampedPosTooFar(r) ==
    IF r \in Clamping /\ writeIdx - pos[r] > Capacity
    THEN writeIdx - Capacity + 1
    ELSE pos[r]

ClampedPos(r) ==
    IF r \in Clamping /\ writeIdx - pos[r] > Capacity
    THEN writeIdx - Capacity
    ELSE pos[r]

(* Bytes of one item, or of several.                                      *)
WhatIsRead(r) ==
    IF slot[At(pos[r])] = half[r] THEN half[r] ELSE Torn

-----------------------------------------------------------------------------
Init ==
    /\ writeIdx = 0
    /\ storing = {}
    /\ stored = {}
    /\ slot = [s \in Slots |-> Zeroed]
    /\ phase = [r \in Readers |-> "detached"]
    /\ pos = [r \in Readers |-> 0]
    /\ head = [r \in Readers |-> 0]
    /\ half = [r \in Readers |-> Zeroed]
    /\ delivery = [r \in Readers |-> NoDelivery]

(* push(): the plain store, visible from its first word ...               *)
StoreBegin(i) ==
    /\ i < MaxItems
    /\ i \in writeIdx..(writeIdx + StoreWindow - 1)
    /\ ~Begun(i)
    /\ storing' = storing \cup {i}
    /\ slot' = [slot EXCEPT ![At(i)] = Torn]
    /\ UNCHANGED <<writeIdx, stored, readerVars>>

(* ... to its last.                                                        *)
StoreEnd(i) ==
    /\ i \in storing
    /\ storing' = storing \ {i}
    /\ stored' = stored \cup {i}
    /\ slot' = [slot EXCEPT ![At(i)] = i]
    /\ UNCHANGED <<writeIdx, readerVars>>

(* Faults: an index stored with relaxed order, an index stored first.      *)
PublishableRelaxed == writeIdx \in storing \cup stored
PublishableFirst == writeIdx < MaxItems

(* write_idx_.store(idx + 1, release): never visible before its item.     *)
Publishable == writeIdx \in stored

Publish ==
    /\ Publishable
    /\ stored' = stored \ {writeIdx}
    /\ writeIdx' = writeIdx + 1
    /\ UNCHANGED <<storing, slot, readerVars>>

-----------------------------------------------------------------------------
JoinAt(r, p) ==
    /\ phase[r] = "detached"
    /\ phase' = [phase EXCEPT ![r] = "idle"]
    /\ pos' = [pos EXCEPT ![r] = p]
    /\ head' = [head EXCEPT ![r] = p]
    /\ UNCHANGED <<writerVars, half, delivery>>

(* pos = current_pos(): a consumer starts with the next item pushed.      *)
(* Before it, a fault: the consumer starts at position 0.                 *)
AttachAtZero(r) == JoinAt(r, 0)
Attach(r) == JoinAt(r, writeIdx)

(* api_get_gps: a one-shot reader that starts one item back.              *)
AttachOneBack(r) ==
    /\ r \in Clamping
    /\ JoinAt(r, IF writeIdx > 0 THEN writeIdx - 1 ELSE 0)

(* The consumer's process or web-socket thread ends, between two calls or *)
(* in the middle of one; the queue does not notice.                       *)
Detach(r) ==
    /\ phase[r] # "detached"
    /\ phase' = [phase EXCEPT ![r] = "detached"]
    /\ half' = [half EXCEPT ![r] = Zeroed]
    /\ delivery' = [delivery EXCEPT ![r] = NoDelivery]
    /\ UNCHANGED <<writerVars, pos, head>>

(* consume(): take the snapshot, clamp (Python only), enter the loop.     *)
ConsumeBegin(r) ==
    /\ phase[r] = "idle"
    /\ head' = [head EXCEPT ![r] = writeIdx]
    /\ pos' = [pos EXCEPT ![r] = ClampedPos(r)]
    /\ phase' = [phase EXCEPT ![r] = LoopTest(ClampedPos(r), writeIdx)]
    /\ UNCHANGED <<writerVars, half, delivery>>

(* One iteration: the first and the last load from the slot ...           *)
ReadStart(r) ==
    /\ phase[r] = "looping"
    /\ phase' = [phase EXCEPT ![r] = "reading"]
    /\ half' = [half EXCEPT ![r] = slot[At(pos[r])]]
    /\ UNCHANGED <<writerVars, pos, head, delivery>>

(* ... and the callback; the loop ends at the snapshot, not at the        *)
(* writer's present position.                                             *)
ReadFinish(r) ==
    /\ phase[r] = "reading"
    /\ delivery' = [delivery EXCEPT ![r] =
                      [pos |-> pos[r], item |-> WhatIsRead(r),
                       lapped |-> Lapped(pos[r])]]
    /\ pos' = [pos EXCEPT ![r] = pos[r] + 1]
    /\ phase' = [phase EXCEPT ![r] = LoopTest(pos[r] + 1, head[r])]
    /\ half' = [half EXCEPT ![r] = Zeroed]
    /\ UNCHANGED <<writerVars, head>>

-----------------------------------------------------------------------------
Push ==
    \/ \E i \in writeIdx..(writeIdx + StoreWindow - 1) :
          StoreBegin(i) \/ StoreEnd(i)
    \/ Publish

Reader(r) ==
    \/ Attach(r)
    \/ AttachOneBack(r)
    \/ Detach(r)
    \/ ConsumeBegin(r)
    \/ ReadStart(r)
    \/ ReadFinish(r)

Next == Push \/ \E r \in Readers : Reader(r)

Spec == Init /\ [][Next]_vars

(* Every consumer calls consume() again and again, with bounded sleeps    *)
(* between the calls, and its callback returns.  Nothing is assumed of    *)
(* the writer, nor that a consumer lives on.                              *)
Fairness ==
    \A r \in Readers : WF_vars(ConsumeBegin(r) \/ ReadStart(r) \/ ReadFinish(r))

FairSpec == Spec /\ Fairness

-----------------------------------------------------------------------------
Deliveries ==
    [pos : Nat \cup {-1}, item : Contents, lapped : BOOLEAN]

(* The types, and where the indices can be relative to each other: what   *)
(* is under way lies in the window just beyond the visible index, and a   *)
(* consumer inside its loop is between its position and its snapshot.     *)
TypeOK ==
    /\ writeIdx \in Nat
    /\ storing \subseteq writeIdx..(writeIdx + StoreWindow - 1)
    /\ stored \subseteq writeIdx..(writeIdx + StoreWindow - 1)
    /\ storing \cap stored = {}
    /\ slot \in [Slots -> Contents]
    /\ phase \in [Readers -> {"detached", "idle", "looping", "reading"}]
    /\ pos \in [Readers -> Nat]
    /\ head \in [Readers -> Nat]
    /\ half \in [Readers -> Contents]
    /\ delivery \in [Readers -> Deliveries]
    /\ \A r \in Readers :
          /\ head[r] <= writeIdx
          /\ pos[r] <= head[r]
          /\ phase[r] \in {"looping", "reading"} => pos[r] < head[r]

(* A consumer that the writer has not lapped gets exactly the item its    *)
(* position names, whole: not a torn one, not a neighbour, not an old     *)
(* lap.  The slot is read with no lock and no version number, so this     *)
(* rests only on the order of the two stores in push() and on the writer  *)
(* not having come round again by the END of the read.                    *)
DeliveredUnlessLapped ==
    \A r \in Readers :
        ~delivery[r].lapped => delivery[r].item = delivery[r].pos

(* Even when lapped, a consumer is handed a mixture or a LATER item: the  *)
(* zeroes of a fresh segment and the items of an earlier lap never reach  *)
(* a callback, because the index is published after the item.             *)
NeverStale ==
    \A r \in Readers :
        LET d == delivery[r] IN
            d # NoDelivery => d.item = Torn \/ d.item >= d.pos

(* A consumer passes a position without a callback only when the item of  *)
(* that position is already gone: the clamp of shm_reader.py never throws *)
(* away an item still in the buffer, and the C++ consume() never skips.   *)
SkipsOnlyOverwritten ==
    [][\A r \in Readers :
          (phase[r] # "detached" /\ phase'[r] # "detached") =>
             \A p \in pos[r]..(pos'[r] - 1) :
                 Lapped(p) \/ (delivery'[r].pos = p /\ phase[r] = "reading")]_vars

(* What is pushed is noticed: a consumer that stays attached gets past    *)
(* every published item, the newest one included.                         *)
EveryItemIsPassed ==
    \A r \in Readers : \A n \in 0..(MaxItems - 1) :
        (phase[r] # "detached" /\ n < writeIdx)
            ~> (phase[r] = "detached" \/ pos[r] > n)

-----------------------------------------------------------------------------
LostItems == {i \in 0..(writeIdx + StoreWindow - Capacity - 1) : Lapped(i)}

Log == INSTANCE BroadcastLog WITH
          published <- writeIdx,
          lost      <- LostItems,
          joined    <- {r \in Readers : phase[r] # "detached"},
          cursor    <- pos,
          got       <- [r \in Readers |->
                          IF delivery[r] = NoDelivery THEN <<>>
                          ELSE <<delivery[r].pos, delivery[r].item>>],
          Nothing   <- <<>>,
          Mixture   <- Torn

(* The queue is a log that forgets: it keeps every promise BroadcastLog   *)
(* makes, in particular that the newest Capacity - StoreWindow published  *)
(* items are intact whatever the interleaving of push() and consume().    *)
ImplementsLog == Log!LogSpec
=============================================================================
