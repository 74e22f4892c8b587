------------------------------ MODULE CanReader ------------------------------
(***************************************************************************)
(* The main loop of can-reader (can-reader/src/main.cpp) with what it      *)
(* shares with others: the DBC file, which the portal replaces and then    *)
(* announces with SIGHUP, and can_healthy in the status segment, which     *)
(* gpio-reader copies to the red light.  systemd restarts the process.     *)
(*                                                                         *)
(* Time is counted in ticks of which the 100 ms read timeout is a small    *)
(* number.  Starting, and the loop between two reads, take no time.        *)
(***************************************************************************)
EXTENDS Integers

CONSTANTS
  Ids,            \* CAN identifiers on the bus
  None,           \* no frame
  HealthTimeout,  \* HEALTH_TIMEOUT, in ticks
  ReadTimeout,    \* the timeout of a read of the socket, in ticks
  PollInterval,   \* POLL_INTERVAL_NS of gpio-reader, in ticks
  RestartSec,     \* RestartSec of the unit, in ticks
  MaxSaves        \* bound: saves of the DBC file

ASSUME CanReaderAssumption ==
  /\ {HealthTimeout, ReadTimeout, PollInterval} \subseteq Nat \ {0}
  /\ {RestartSec, MaxSaves} \subseteq Nat
  /\ None \notin Ids

(* The longest the red light may lag behind the last frame: the frame ages *)
(* out, a read that had just begun times out, the light is refreshed.      *)
Lag == HealthTimeout + ReadTimeout + PollInterval

VARIABLES
  disk,         \* the identifiers the DBC file defines signals for
  saves,        \* saves done
  unsent,       \* saves whose SIGHUP has not been sent yet
  phase,        \* where the process is
  running,      \* the flag SIGINT and SIGTERM clear
  reload_flag,  \* the flag SIGHUP sets
  frame_map,    \* the identifiers of the loaded configuration
  last,         \* what the last read returned, None if no frame
  reported,     \* healthy_reported
  can_healthy,  \* the byte in the status segment
  age,          \* ticks since last_frame, at most Lag
  waited,       \* ticks in this read, or since the process failed
  red,          \* the red light
  polled,       \* ticks since gpio-reader refreshed it
  crashed       \* the process has died without its exit code (history)

portal == <<disk, saves, unsent>>
health == <<reported, can_healthy>>
clock  == <<age, waited>>
light  == <<red, polled>>
vars   == <<portal, phase, running, reload_flag, frame_map, last, health, clock,
            light, crashed>>

Phases == {"stopped", "failed", "exec", "init", "opening", "loop",
           "reading", "dispatch", "check", "load", "loaded"}

Up       == phase \in {"loop", "reading", "dispatch", "check", "load", "loaded"}
Process  == phase \notin {"stopped", "failed"}
Handlers == Process /\ phase # "exec"

Init ==
  /\ disk \in SUBSET Ids /\ saves = 0 /\ unsent = 0
  /\ phase = "stopped" /\ running = TRUE /\ reload_flag = FALSE
  /\ frame_map = {} /\ last = None
  /\ reported = -1 /\ can_healthy = 0
  /\ age = 0 /\ waited = 0
  /\ red = FALSE /\ polled = 0
  /\ crashed = FALSE

-----------------------------------------------------------------------------
(* The portal: the file is replaced by a rename, then the signal is sent.  *)

Save ==
  /\ saves < MaxSaves
  /\ \E d \in SUBSET Ids \ {disk} : disk' = d
  /\ saves' = saves + 1 /\ unsent' = unsent + 1
  /\ UNCHANGED <<phase, running, reload_flag, frame_map, last, health, clock, light>>

(* A signal that finds the process in its read ends the read: no frame.    *)
Interrupted(p) == IF p = "reading" THEN "check" ELSE p

(* The health of a frame that is so old, stored when it changed.           *)
HealthyAtTheLimit(a) == IF a <= HealthTimeout THEN 1 ELSE 0  \* a fault
Healthy(a) == IF a < HealthTimeout THEN 1 ELSE 0

Report(healthy) ==
  IF healthy # reported
  THEN can_healthy' = healthy /\ reported' = healthy
  ELSE UNCHANGED health

EndRead(frame) ==
  /\ last' = frame
  /\ age' = IF frame = None THEN age ELSE 0
  /\ Report(Healthy(age'))
  /\ waited' = 0

(* A signal handled: its flag is set, and a read it finds is ended.        *)
Handled ==
  /\ phase' = Interrupted(phase)
  /\ IF phase = "reading" THEN EndRead(None) ELSE UNCHANGED <<last, health, clock>>

SendHup ==
  /\ unsent > 0 /\ unsent' = unsent - 1
  /\ \/ /\ Handlers
        /\ reload_flag' = TRUE
        /\ Handled
     \/ /\ phase = "exec"            \* SIGHUP is a clean exit for systemd
        /\ phase' = "stopped"
        /\ UNCHANGED <<reload_flag, last, health, clock>>
     \/ /\ ~Process
        /\ UNCHANGED <<phase, reload_flag, last, health, clock>>
  /\ UNCHANGED <<disk, saves, running, frame_map, light>>

Portal == Save \/ SendHup

-----------------------------------------------------------------------------
(* systemd, and the ends of the process.                                   *)

Exec ==
  /\ phase = "stopped" \/ (phase = "failed" /\ waited = RestartSec)
  /\ phase' = "exec" /\ running' = TRUE /\ reload_flag' = FALSE /\ frame_map' = {}
  /\ reported' = -1 /\ waited' = 0 /\ last' = None
  /\ UNCHANGED <<portal, can_healthy, age, light>>

Terminate ==
  /\ Handlers /\ running
  /\ running' = FALSE
  /\ Handled
  /\ UNCHANGED <<portal, reload_flag, frame_map, light>>

Crash ==
  /\ Process
  /\ phase' = "failed" /\ waited' = 0
  /\ crashed' = TRUE
  /\ UNCHANGED <<portal, running, reload_flag, frame_map, last, health, age, light>>

Service == Exec \/ Terminate

-----------------------------------------------------------------------------
(* can-reader.                                                             *)

Install ==
  /\ phase = "exec" /\ phase' = "init"
  /\ UNCHANGED <<portal, running, reload_flag, frame_map, last, health, clock, light>>

Fails == phase' = "failed" /\ waited' = 0

FirstLoad ==
  /\ phase = "init"
  /\ frame_map' = disk
  /\ \/ disk = {} /\ Fails
     \/ disk # {} /\ phase' = "opening" /\ UNCHANGED waited
  /\ UNCHANGED <<portal, running, reload_flag, last, health, age, light>>

(* The interface may not be there.                                         *)
OpenSocket ==
  /\ phase = "opening"
  /\ \/ Fails /\ UNCHANGED <<health, age>>
     \/ /\ phase' = "loop"
        /\ can_healthy' = 0
        /\ age' = 0
        /\ UNCHANGED <<reported, waited>>
  /\ UNCHANGED <<portal, running, reload_flag, frame_map, last, light>>

(* Fault to set against LoopTest: can_healthy is left as it is on exit.    *)
LoopTestExitsHealthy ==
  /\ phase = "loop" /\ waited' = 0
  /\ phase' = IF running THEN "reading" ELSE "stopped"
  /\ UNCHANGED <<portal, running, reload_flag, frame_map, last, health, age, light>>

(* while (running), and the clean exit, which clears can_healthy.          *)
LoopTest ==
  /\ phase = "loop"
  /\ \/ running /\ phase' = "reading" /\ waited' = 0 /\ UNCHANGED can_healthy
     \/ ~running /\ phase' = "stopped" /\ can_healthy' = 0 /\ UNCHANGED waited
  /\ UNCHANGED <<portal, running, reload_flag, frame_map, last, reported, age, light>>

ReadFrame ==
  /\ phase = "reading" /\ phase' = "dispatch"
  /\ \E frame \in Ids : EndRead(frame)
  /\ UNCHANGED <<portal, running, reload_flag, frame_map, light>>

(* The timeout, which MayWait holds it to, or an error, which returns at   *)
(* once when the interface is down: the code does not tell them apart.     *)
ReadFails ==
  /\ phase = "reading" /\ phase' = "check"
  /\ EndRead(None)
  /\ UNCHANGED <<portal, running, reload_flag, frame_map, light>>

(* The signals of a known frame are pushed; an unknown one goes back to    *)
(* the top of the loop, past the reload.                                   *)
Dispatch ==
  /\ phase = "dispatch"
  /\ phase' = IF last \in frame_map THEN "check" ELSE "loop"
  /\ UNCHANGED <<portal, running, reload_flag, frame_map, last, health, clock, light>>

(* The flag is cleared first, then the file is read.                       *)
Check(seen) ==
  /\ phase = "check"
  /\ phase' = IF seen THEN "load" ELSE "loop"
  /\ reload_flag' = (reload_flag /\ ~seen)
  /\ UNCHANGED <<portal, running, frame_map, last, health, clock, light>>
TestFlagWithFrame == Check(reload_flag /\ last # None)  \* a fault
TestFlag == Check(reload_flag)

Load ==
  /\ phase = "load" /\ phase' = "loaded"
  /\ frame_map' = disk
  /\ UNCHANGED <<portal, running, reload_flag, last, health, clock, light>>

(* Fault to set against Loaded: the flag cleared after the load.           *)
LoadedThenCleared ==
  /\ phase = "loaded" /\ phase' = "loop"
  /\ reload_flag' = FALSE
  /\ UNCHANGED <<portal, running, frame_map, last, health, clock, light>>

Loaded ==
  /\ phase = "loaded" /\ phase' = "loop"
  /\ UNCHANGED <<portal, running, reload_flag, frame_map, last, health, clock, light>>

Reader == \/ Install \/ FirstLoad \/ OpenSocket \/ LoopTest \/ ReadFrame
          \/ ReadFails \/ Dispatch \/ TestFlag \/ Load \/ Loaded

-----------------------------------------------------------------------------
(* gpio-reader refreshes the light, at the latest every PollInterval.      *)

Refresh ==
  /\ polled > 0 /\ polled' = 0
  /\ red' = (can_healthy = 0)
  /\ UNCHANGED <<portal, phase, running, reload_flag, frame_map, last, health, clock>>

(* Fault to set against MayWait: a read without a timeout.                 *)
MayWaitForever ==
  \/ phase \in {"stopped", "reading"}
  \/ phase = "failed" /\ waited < RestartSec

(* Time passes while nobody who may run is due.                            *)
MayWait ==
  \/ phase = "stopped"
  \/ phase = "reading" /\ waited < ReadTimeout
  \/ phase = "failed" /\ waited < RestartSec

Tick ==
  /\ MayWait /\ polled < PollInterval
  /\ polled' = polled + 1
  /\ age' = IF age < Lag THEN age + 1 ELSE age
  /\ waited' = IF phase \in {"reading", "failed"} THEN waited + 1 ELSE waited
  /\ UNCHANGED <<portal, phase, running, reload_flag, frame_map, last, health, red>>

Next ==
  \/ (Portal \/ Service \/ Reader \/ Refresh \/ Tick) /\ UNCHANGED crashed
  \/ Crash

Spec == Init /\ [][Next]_vars

(* The portal sends what it saved, the scheduler runs the processes and    *)
(* time passes.                                                            *)
Fairness ==
  /\ WF_vars(SendHup /\ UNCHANGED crashed) /\ WF_vars(Reader /\ UNCHANGED crashed)
  /\ WF_vars(Refresh /\ UNCHANGED crashed) /\ WF_vars(Tick /\ UNCHANGED crashed)
FairSpec == Spec /\ Fairness

-----------------------------------------------------------------------------
TypeOK ==
  /\ disk \subseteq Ids /\ saves \in 0..MaxSaves /\ unsent \in 0..saves
  /\ phase \in Phases /\ running \in BOOLEAN /\ reload_flag \in BOOLEAN
  /\ frame_map \subseteq Ids /\ last \in Ids \cup {None}
  /\ reported \in -1..1 /\ can_healthy \in 0..1
  /\ age \in 0..Lag
  /\ waited \in 0..(IF phase = "failed" THEN RestartSec ELSE ReadTimeout)
  /\ red \in BOOLEAN /\ polled \in 0..PollInterval
  /\ crashed \in BOOLEAN

(* A saved DBC file is never forgotten: while the loaded configuration     *)
(* differs from the file, a signal is still to come, or the flag is set,   *)
(* or the load is about to happen.  The loop clears the flag before it     *)
(* loads, so a save between the two is loaded again.                       *)
NoSaveForgotten ==
  Up /\ frame_map # disk => unsent > 0 \/ reload_flag \/ phase = "load"

(* "can bus healthy -- red on fault": when no frame was read for Lag       *)
(* ticks, whatever became of the process, the red light is on.             *)
RedOnFault == age = Lag => red

(* That is so for as long as no process died without its exit code: a      *)
(* clean exit and a failed start leave the light to tell the truth.        *)
RedUnlessCrashed == ~crashed => RedOnFault

(* As long as the process runs, the light follows the bus, whatever a      *)
(* crash left in the status segment before it started.                     *)
RedWhileUp == Up /\ age = Lag => red

(* A save is loaded unless, from some point on, every read returns a frame *)
(* the loaded configuration does not know, or the process ends.            *)
SavedIsLoaded ==
  []<>(last = None \/ last \in frame_map)
    => (Up /\ frame_map # disk ~> frame_map = disk \/ ~Up)
=============================================================================
