----------------------------- MODULE DataLogger -----------------------------
(***************************************************************************)
(* The data logger process (src/data-logger): the record button, the       *)
(* LogWriter that writes one file per recording, and the status flag the   *)
(* green LED follows.  Entries are written to a stdio buffer and flushed   *)
(* once per round of the main loop, so a crash between the two loses them. *)
(***************************************************************************)
EXTENDS LogFiles

VARIABLES
    logger,   \* "down", "loop", or finalizing: the file is closed and its
              \* marker pending, in the loop ("marking") or on exit ("exiting")
    toggle,   \* toggle_flag, set by SIGUSR1; it goes with its process
    handle,   \* inode behind file_, NoFile when file_ is null; the local
              \* variable `recording` is file_ # nullptr outside a toggle
    path,     \* path_ while its file is open or its marker pending
    session,  \* number of recordings opened so far, the current one's number
    buffered, \* entries in the stdio buffer
    shown,    \* status->logger_recording, in shared memory
    \* history, for the properties alone:
    written,  \* entries ever written by each recording
    named,    \* the names given to recordings so far
    reused    \* a name was given a second time

historyVars == <<written, named, reused>>
loggerVars == <<logger, toggle, handle, path, session, buffered, shown,
                historyVars>>

LoggerInit ==
    /\ logger = "down"
    /\ toggle = FALSE
    /\ handle = NoFile
    /\ path = NoName
    /\ session = 0
    /\ buffered = 0
    /\ shown = FALSE
    /\ written = [s \in Sessions |-> 0]
    /\ named = {}
    /\ reused = FALSE

LoggerTypeOK ==
    /\ logger \in {"down", "loop", "marking", "exiting"}
    /\ toggle \in BOOLEAN
    /\ handle \in Sessions \cup {NoFile}
    /\ path \in Names \cup {NoName}
    /\ session \in 0..MaxSessions
    /\ buffered \in 0..MaxEntries
    /\ shown \in BOOLEAN
    /\ written \in [Sessions -> 0..MaxEntries]
    /\ named \subseteq Names
    /\ reused \in BOOLEAN

-----------------------------------------------------------------------------
(* status->logger_recording.store(0) at start; before it, the fault of    *)
(* leaving there what the previous process left.                          *)
ShownKept == shown
ShownAtStart == FALSE

(* systemd starts the process, the first time or after a crash.           *)
LoggerStart ==
    /\ logger = "down"
    /\ logger' = "loop"
    /\ shown' = ShownAtStart
    /\ UNCHANGED <<fileVars, toggle, handle, path, session, buffered,
                   historyVars>>

(* SIGUSR1 from the gpio reader; two of them before the loop comes round  *)
(* are one.                                                                *)
PressButton ==
    /\ logger # "down"
    /\ toggle' = TRUE
    /\ UNCHANGED <<fileVars, logger, handle, path, session, buffered, shown,
                   historyVars>>

(* The names recording s may get: the second the wall clock shows, a new  *)
(* one or, when the clock was set or has not moved on, that of an earlier *)
(* recording.                                                              *)
make_log_path(s) == named \cup {s}

(* recording = !recording, to TRUE: writer.open(), which may fail, and    *)
(* the flag reflects whether it did.                                       *)
StartRecording ==
    /\ logger = "loop"
    /\ toggle
    /\ handle = NoFile
    /\ toggle' = FALSE
    /\ \/ /\ session < MaxSessions
          /\ session' = session + 1
          /\ \E n \in make_log_path(session') :
             /\ path' = n
             /\ handle' = InodeFor(n, session')
             /\ OpenForWriting(n, session')
             /\ named' = named \cup {n}
             /\ reused' = (reused \/ n \in named)
          /\ shown' = TRUE
       \/ /\ shown' = FALSE
          /\ UNCHANGED <<fileVars, path, session, handle, named, reused>>
    /\ UNCHANGED <<logger, buffered, written>>

(* Fault to set against FlushBuffer: a buffer written out twice.          *)
FlushBufferTwice ==
    /\ disk' = [disk EXCEPT ![handle].count = @ + buffered]
    /\ UNCHANGED <<bin, done, buffered>>

(* fflush().                                                               *)
FlushBuffer ==
    /\ disk' = [disk EXCEPT ![handle].count = @ + buffered]
    /\ buffered' = 0
    /\ UNCHANGED <<bin, done>>

(* recording = !recording, to FALSE, and SIGTERM while recording: the     *)
(* first half of writer.close(), fflush and fclose.                       *)
CloseFile ==
    /\ logger = "loop"
    /\ handle # NoFile
    /\ \/ /\ toggle
          /\ toggle' = FALSE
          /\ logger' = "marking"
       \/ /\ logger' = "exiting"
          /\ UNCHANGED toggle
    /\ FlushBuffer
    /\ handle' = NoFile
    /\ UNCHANGED <<path, session, shown, historyVars>>

(* The second half of writer.close(): the marker, which may fail to be    *)
(* created, and the flag the LED follows.                                 *)
MarkDone ==
    /\ logger \in {"marking", "exiting"}
    /\ \E ok \in BOOLEAN : done' = IF ok THEN done \cup {path} ELSE done
    /\ logger' = IF logger = "marking" THEN "loop" ELSE "down"
    /\ toggle' = (toggle /\ logger = "marking")
    /\ shown' = FALSE
    /\ path' = NoName
    /\ UNCHANGED <<bin, disk, handle, session, buffered, historyVars>>

(* SIGTERM while nothing is recorded.                                      *)
StopIdle ==
    /\ logger = "loop"
    /\ handle = NoFile
    /\ logger' = "down"
    /\ toggle' = FALSE
    /\ shown' = FALSE
    /\ UNCHANGED <<fileVars, handle, path, session, buffered,
                   historyVars>>

(* consume() with a recording open: the callback writes an entry ...      *)
WriteEntry ==
    /\ logger = "loop"
    /\ handle # NoFile
    /\ written[session] < MaxEntries
    /\ buffered' = buffered + 1
    /\ written' = [written EXCEPT ![session] = @ + 1]
    /\ UNCHANGED <<fileVars, logger, toggle, handle, path, session, shown,
                   named, reused>>

(* ... and the round ends with a flush.                                    *)
Flush ==
    /\ logger = "loop"
    /\ handle # NoFile
    /\ buffered > 0
    /\ FlushBuffer
    /\ UNCHANGED <<logger, toggle, handle, path, session, shown,
                   historyVars>>

(* The process dies: its buffer is gone, a pending marker is never made,  *)
(* and the flag in shared memory keeps its value.                          *)
LoggerCrash ==
    /\ logger # "down"
    /\ logger' = "down"
    /\ toggle' = FALSE
    /\ handle' = NoFile
    /\ buffered' = 0
    /\ path' = NoName
    /\ UNCHANGED <<fileVars, session, shown, historyVars>>

LoggerNext ==
    \/ LoggerStart
    \/ PressButton
    \/ StartRecording
    \/ CloseFile
    \/ MarkDone
    \/ StopIdle
    \/ WriteEntry
    \/ Flush
    \/ LoggerCrash
=============================================================================
