-------------------------- MODULE RecordingArchive --------------------------
(***************************************************************************)
(* What the data logger and the uploader together promise a driver who     *)
(* presses the record button, with no files, names, markers, processes or  *)
(* chunks.  Recordings are made one at a time.  One that is finished holds *)
(* every entry written to it and is not touched again until it is saved    *)
(* and deleted; one whose logger died, or could not finish it, keeps what  *)
(* it holds and stays.  A recording is saved whole, and only when it is    *)
(* finished, and it is deleted unsaved only if the link broke meanwhile.   *)
(***************************************************************************)
EXTENDS Integers

CONSTANT Recordings

VARIABLES
    stage,    \* "unused", "open", "finished", "left" or "deleted"
    written,  \* entries written to each recording
    kept,     \* those of them that are on the disk
    saved,    \* those that are in the cloud
    steady    \* the link has lived since the upload under way began

archiveVars == <<stage, written, kept, saved, steady>>

Init ==
    /\ stage = [r \in Recordings |-> "unused"]
    /\ written = [r \in Recordings |-> 0]
    /\ kept = [r \in Recordings |-> 0]
    /\ saved = [r \in Recordings |-> 0]
    /\ steady = FALSE

Begin(r) ==
    /\ stage[r] = "unused"
    /\ \A q \in Recordings : stage[q] # "open"
    /\ stage' = [stage EXCEPT ![r] = "open"]
    /\ UNCHANGED <<written, kept, saved, steady>>

Write(r) ==
    /\ stage[r] = "open"
    /\ written' = [written EXCEPT ![r] = @ + 1]
    /\ UNCHANGED <<stage, kept, saved, steady>>

Keep(r) ==
    /\ stage[r] = "open"
    /\ kept' = [kept EXCEPT ![r] = written[r]]
    /\ UNCHANGED <<stage, written, saved, steady>>

Finish(r) ==
    /\ stage[r] = "open"
    /\ kept[r] = written[r]
    /\ stage' = [stage EXCEPT ![r] = "finished"]
    /\ UNCHANGED <<written, kept, saved, steady>>

\* What was written and is not on the disk is lost.
Leave(r) ==
    /\ stage[r] = "open"
    /\ stage' = [stage EXCEPT ![r] = "left"]
    /\ UNCHANGED <<written, kept, saved, steady>>

Save(r) ==
    /\ stage[r] = "finished"
    /\ saved' = [saved EXCEPT ![r] = written[r]]
    /\ UNCHANGED <<stage, written, kept, steady>>

Delete(r) ==
    /\ stage[r] = "finished"
    /\ steady => saved[r] = written[r]
    /\ stage' = [stage EXCEPT ![r] = "deleted"]
    /\ UNCHANGED <<written, kept, saved, steady>>

Link ==
    /\ steady' = ~steady
    /\ UNCHANGED <<stage, written, kept, saved>>

Next ==
    \/ \E r \in Recordings : \/ Begin(r) \/ Write(r) \/ Keep(r) \/ Finish(r)
                             \/ Leave(r) \/ Save(r) \/ Delete(r)
    \/ Link

ArchiveSpec == Init /\ [][Next]_archiveVars
=============================================================================
