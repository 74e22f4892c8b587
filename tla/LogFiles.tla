------------------------------ MODULE LogFiles ------------------------------
(***************************************************************************)
(* The log directory (/tmp/track-logs) as its two users see it: the data   *)
(* logger, which writes <name>.bin and then <name>.done, and the uploader  *)
(* thread of the cloud bridge, which reads and unlinks both.  A name is a  *)
(* second of the wall clock, and is the number here of the first recording *)
(* that was opened in it.  It is linked to an inode, so that an unlinked   *)
(* file stays with the process that has it open, and fopen(.., "wb") on a  *)
(* name that is taken truncates the inode that is there.                   *)
(***************************************************************************)
EXTENDS Integers, FiniteSets

CONSTANTS
    MaxSessions,  \* bound on the number of recordings opened
    MaxEntries    \* bound on the entries of one recording

ASSUME LogFilesAssumption ==
    MaxSessions \in Nat /\ MaxEntries \in Nat

Sessions == 1..MaxSessions
Names    == Sessions
NoFile   == 0
NoName   == 0

VARIABLES
    bin,   \* the inode linked as <name>.bin, NoFile if there is none
    done,  \* the names that have a .done marker
    disk   \* what each inode holds: the recording it belongs to (its last
           \* opener) and how many of that recording's entries

fileVars == <<bin, done, disk>>

FilesInit ==
    /\ bin = [n \in Names |-> NoFile]
    /\ done = {}
    /\ disk = [i \in Sessions |-> [owner |-> i, count |-> 0]]

FilesTypeOK ==
    /\ bin \in [Names -> Sessions \cup {NoFile}]
    /\ done \subseteq Names
    /\ disk \in [Sessions -> [owner : Sessions, count : 0..MaxEntries]]

\* The inode fopen(<name>.bin, "wb") leaves in the hands of recording s.
InodeFor(n, s) == IF bin[n] = NoFile THEN s ELSE bin[n]

\* Fault to set against OpenForWriting: the marker made on opening.
OpenAndMark(n, s) ==
    /\ bin' = [bin EXCEPT ![n] = InodeFor(n, s)]
    /\ disk' = [disk EXCEPT ![InodeFor(n, s)] = [owner |-> s, count |-> 0]]
    /\ done' = done \cup {n}

OpenForWriting(n, s) ==
    /\ bin' = [bin EXCEPT ![n] = InodeFor(n, s)]
    /\ disk' = [disk EXCEPT ![InodeFor(n, s)] = [owner |-> s, count |-> 0]]
    /\ UNCHANGED done

Unlink(n) ==
    /\ bin' = [bin EXCEPT ![n] = NoFile]
    /\ UNCHANGED <<done, disk>>

\* Fault to set against RemoveMarker: the marker stays.
KeepMarker(n) == UNCHANGED fileVars

RemoveMarker(n) ==
    /\ done' = done \ {n}
    /\ UNCHANGED <<bin, disk>>
=============================================================================
