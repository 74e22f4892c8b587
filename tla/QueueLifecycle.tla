--------------------------- MODULE QueueLifecycle ---------------------------
(***************************************************************************)
(* One shared-memory queue over the lives of its writer and its readers    *)
(* (src/common/shared_memory.hpp, the opening code of each process, and    *)
(* the units in src/systemd).                                              *)
(*                                                                         *)
(* The name of the queue links to a segment.  A clean exit of the writer   *)
(* unlinks it; a crash leaves it, and the next writer finds it, old index  *)
(* and all, and constructs a new queue in place.  A process that has a     *)
(* segment mapped keeps it, linked or not.                                 *)
(*                                                                         *)
(* Readers differ in what ties them to the writer:                         *)
(*   Bound  their unit has Requires= and After= on the writer's: systemd   *)
(*          stops them before it stops or restarts the writer, and starts  *)
(*          them once the writer is forked; without a queue they exit and  *)
(*          are restarted (logger, bridge on telemetry) or try again       *)
(*          (graphics);                                                    *)
(*   Lazy   opened by the first request that finds the queue, and kept for *)
(*          the life of the process (the portal);                          *)
(*   Once   opened at start or never (the bridge on the GPS queue).        *)
(***************************************************************************)
EXTENDS Integers

CONSTANTS
    Bound, Lazy, Once,
    MaxSegments,  \* bound on the segments created
    MaxItems      \* bound on the pushes into one segment

ASSUME LifecycleAssumption ==
    MaxSegments \in Nat /\ MaxItems \in Nat

Readers  == Bound \cup Lazy \cup Once
Segments == 1..MaxSegments
None     == 0

VARIABLES
    writer,   \* "down", "forked", "named" (shm_open), "sized" (ftruncate),
              \* "running" (queue constructed)
    linked,   \* the segment the name links to
    mapped,   \* the writer's segment
    made,     \* segments created so far
    sized,    \* segments whose ftruncate is done
    idx,      \* write_idx_ of each segment
    reader,   \* "down", "opened" (mmap), "running" with the queue, "without" one
    seg,      \* the segment a reader has mapped
    pos,      \* its consumer_pos
    crashed   \* a writer has died without closing the queue (history)

writerVars == <<writer, linked, mapped, made, sized, idx, crashed>>
readerVars == <<reader, seg, pos>>
vars == <<writerVars, readerVars>>

Init ==
    /\ writer = "down"
    /\ linked = None
    /\ mapped = None
    /\ made = 0
    /\ sized = {}
    /\ idx = [s \in Segments |-> 0]
    /\ reader = [r \in Readers |-> "down"]
    /\ seg = [r \in Readers |-> None]
    /\ pos = [r \in Readers |-> 0]
    /\ crashed = FALSE

Down(R) ==
    /\ reader' = [r \in Readers |-> IF r \in R THEN "down" ELSE reader[r]]
    /\ seg' = [r \in Readers |-> IF r \in R THEN None ELSE seg[r]]
    /\ UNCHANGED pos

-----------------------------------------------------------------------------
(* The writer.                                                             *)

(* The units stopped with the writer's: Requires=.  Before it, the fault  *)
(* of Wants=.                                                              *)
StoppedWithNobody == {}
StoppedWith == Bound

(* systemd starts the unit; a restart takes the bound units down first.   *)
WriterFork ==
    /\ writer = "down"
    /\ writer' = "forked"
    /\ Down(StoppedWith)
    /\ UNCHANGED <<linked, mapped, made, sized, idx, crashed>>

(* shm_open(O_CREAT): the segment that is there, or a new, empty one.     *)
WriterName ==
    /\ writer = "forked"
    /\ writer' = "named"
    /\ \/ /\ linked # None
          /\ mapped' = linked
          /\ UNCHANGED <<linked, made>>
       \/ /\ linked = None
          /\ made < MaxSegments
          /\ made' = made + 1
          /\ linked' = made + 1
          /\ mapped' = made + 1
    /\ UNCHANGED <<sized, idx, crashed, readerVars>>

WriterSize ==
    /\ writer = "named"
    /\ writer' = "sized"
    /\ sized' = sized \cup {mapped}
    /\ UNCHANGED <<linked, mapped, made, idx, crashed, readerVars>>

(* new (ptr) QueueType().                                                  *)
WriterConstruct ==
    /\ writer = "sized"
    /\ writer' = "running"
    /\ idx' = [idx EXCEPT ![mapped] = 0]
    /\ UNCHANGED <<linked, mapped, made, sized, crashed, readerVars>>

Push ==
    /\ writer = "running"
    /\ idx[mapped] < MaxItems
    /\ idx' = [idx EXCEPT ![mapped] = @ + 1]
    /\ UNCHANGED <<writer, linked, mapped, made, sized, crashed, readerVars>>

\* What the name links to after close_shared_queue, after the fault of
\* passing is_writer = false there.
StillLinked == linked
Unlinked == None

CloseQueue ==
    /\ writer = "running"
    /\ writer' = "down"
    /\ linked' = Unlinked
    /\ mapped' = None
    /\ UNCHANGED <<made, sized, idx, crashed>>

(* close_shared_queue on a stop: the bound units have been stopped.       *)
WriterStop == CloseQueue /\ Down(StoppedWith)

(* ... and when the CAN socket or serial port cannot be opened: the       *)
(* process fails by itself and nobody is stopped yet.                     *)
WriterFails == CloseQueue /\ UNCHANGED readerVars

WriterCrash ==
    /\ writer # "down"
    /\ writer' = "down"
    /\ mapped' = None
    /\ crashed' = TRUE
    /\ UNCHANGED <<linked, made, sized, idx, readerVars>>

-----------------------------------------------------------------------------
(* The readers.                                                            *)

\* After= orders a bound unit behind the writer's fork and no further.
MayStart(r) == r \in Bound => writer # "down"

(* open_shared_queue(), which does not look at the size of the segment;    *)
(* mmap in Python does, and its ValueError ends the request.               *)
ReaderOpen(r) ==
    /\ reader[r] = "down"
    /\ MayStart(r)
    /\ linked # None
    /\ r \in Lazy => linked \in sized
    /\ reader' = [reader EXCEPT ![r] = "opened"]
    /\ seg' = [seg EXCEPT ![r] = linked]
    /\ UNCHANGED <<writerVars, pos>>

\* current_pos(), after the fault of starting behind the next item.
NextPos(r) == idx[seg[r]] + 1
StartPos(r) == idx[seg[r]]

(* The first look at the queue.                                            *)
ReaderStart(r) ==
    /\ reader[r] = "opened"
    /\ seg[r] \in sized
    /\ reader' = [reader EXCEPT ![r] = "running"]
    /\ pos' = [pos EXCEPT ![r] = StartPos(r)]
    /\ UNCHANGED <<writerVars, seg>>

(* In a segment that is still empty it is a SIGBUS, which ends the process.*)
ReaderDies(r) ==
    /\ reader[r] = "opened"
    /\ seg[r] \notin sized
    /\ Down({r})
    /\ UNCHANGED writerVars

(* "GPS queue is optional": the bridge goes on without it.                *)
ReaderOpenFails(r) ==
    /\ r \in Once
    /\ reader[r] = "down"
    /\ linked = None
    /\ reader' = [reader EXCEPT ![r] = "without"]
    /\ UNCHANGED <<writerVars, seg, pos>>

\* The loop test of consume(), after the fault of a bound one too small.
BehindByTwo(r) == pos[r] + 1 < idx[seg[r]]
Behind(r) == pos[r] < idx[seg[r]]

(* consume(), C++ or Python: everything from the position to the index;   *)
(* nothing, and the position stays, when the index is behind.             *)
Consume(r) ==
    /\ reader[r] = "running"
    /\ Behind(r)
    /\ pos' = [pos EXCEPT ![r] = idx[seg[r]]]
    /\ UNCHANGED <<writerVars, reader, seg>>

(* A reader's own process ends, for reasons of its own.                    *)
ReaderStop(r) ==
    /\ reader[r] # "down"
    /\ Down({r})
    /\ UNCHANGED writerVars

-----------------------------------------------------------------------------
Writer ==
    \/ WriterFork
    \/ WriterName
    \/ WriterSize
    \/ WriterConstruct
    \/ Push
    \/ WriterStop
    \/ WriterFails
    \/ WriterCrash

ReaderStep(r) ==
    \/ ReaderOpen(r)
    \/ ReaderStart(r)
    \/ ReaderDies(r)
    \/ ReaderOpenFails(r)
    \/ Consume(r)
    \/ ReaderStop(r)

Next == Writer \/ \E r \in Readers : ReaderStep(r)

Spec == Init /\ [][Next]_vars

(* A bound or lazy reader that is down, of a SIGBUS or otherwise, tries    *)
(* again (Restart=on-failure; the next request), one that has opened the   *)
(* queue looks at it, unless it is stopped in between again and again, and *)
(* a running one calls consume() again.                                    *)
Fairness ==
    \A r \in Readers :
        /\ WF_vars(ReaderOpen(r)) /\ SF_vars(ReaderStart(r))
        /\ WF_vars(ReaderDies(r)) /\ WF_vars(Consume(r))

FairSpec == Spec /\ Fairness

-----------------------------------------------------------------------------
TypeOK ==
    /\ writer \in {"down", "forked", "named", "sized", "running"}
    /\ linked \in Segments \cup {None}
    /\ mapped \in Segments \cup {None}
    /\ made \in 0..MaxSegments
    /\ sized \subseteq Segments
    /\ idx \in [Segments -> 0..MaxItems]
    /\ reader \in [Readers -> {"down", "opened", "running", "without"}]
    /\ seg \in [Readers -> Segments \cup {None}]
    /\ pos \in [Readers -> 0..MaxItems]
    /\ crashed \in BOOLEAN

OnTheSegment(r) ==
    (reader[r] = "running" /\ writer = "running") => seg[r] = mapped

(* A bound reader always has the segment the running writer writes to:    *)
(* no stop, failed start, crash or restart leaves it on a dead one.        *)
BoundOnTheSegment == \A r \in Bound : OnTheSegment(r)

(* "consumer_pos is updated to the current write position after           *)
(* consuming" (broadcast_queue.hpp): a bound reader on the writer's       *)
(* segment is never ahead of the index, where consume() would leave it,   *)
(* deaf, until the writer has pushed its way past.                        *)
ReaderNeverAhead ==
    \A r \in Bound :
        (reader[r] = "running" /\ writer = "running" /\ seg[r] = mapped)
            => pos[r] <= idx[mapped]

(* That is so for as long as every writer has closed its queue: stops,    *)
(* failed starts and restarts in any order do it no harm.                  *)
NoReaderAhead == ~crashed => ReaderNeverAhead

(* A writer that keeps running finds every bound reader on its segment    *)
(* and at its index, again and again, whatever stops, failed starts and   *)
(* readers dead of an empty segment came before, as long as no writer     *)
(* crashed.                                                                *)
BoundCatchUp ==
    <>[](writer = "running" /\ ~crashed) =>
        \A r \in Bound :
            []<>(reader[r] = "running" /\ seg[r] = mapped
                    /\ pos[r] = idx[mapped])
=============================================================================
