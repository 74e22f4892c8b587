-------------------------- MODULE CanReaderProofs --------------------------
(***************************************************************************)
(* For every value of the constants: no saved DBC file is forgotten, and   *)
(* while can-reader runs the red light lags behind the bus by at most Lag. *)
(***************************************************************************)
EXTENDS CanReader, TLAPS

(* The health last stored is the one in the segment, except before the     *)
(* first one of this process, when the start has stored 0.                 *)
ReportedInv ==
  /\ phase \in {"exec", "init", "opening"} => reported = -1
  /\ Up => reported = can_healthy \/ (reported = -1 /\ can_healthy = 0)

(* A health of 1 is as old as the read in progress, or was just stored.    *)
StoredInv ==
  Up /\ can_healthy = 1 =>
    age < HealthTimeout + (IF phase = "reading" THEN waited ELSE 0)

(* The light is as old as the last refresh.                                *)
LightInv == Up /\ ~red => age < HealthTimeout + ReadTimeout + polled

(* The file differs from the loaded configuration only until the signal.   *)
SaveInv ==
  Up \/ phase = "opening" =>
    frame_map = disk \/ unsent > 0 \/ reload_flag \/ phase = "load"

(* As long as no process died without its exit code, one that does not run *)
(* has left a health of 0, and the light is as old as the last refresh.    *)
FaultInv ==
  ~crashed =>
    /\ ~Up => can_healthy = 0
    /\ ~red => age < HealthTimeout + ReadTimeout + polled

IInv == TypeOK /\ ReportedInv /\ StoredInv /\ LightInv /\ SaveInv

(* The timeouts are positive numbers, the bounds numbers.                  *)
LEMMA Ticks ==
  /\ HealthTimeout \in Nat \ {0} /\ ReadTimeout \in Nat \ {0} /\ PollInterval \in Nat \ {0}
  /\ RestartSec \in Nat /\ MaxSaves \in Nat
  /\ None \notin Ids
  BY CanReaderAssumption DEF CanReaderAssumption

USE Ticks DEF Phases, Up, Process, Handlers, Lag

-----------------------------------------------------------------------------
(* can-reader is not running, and the light is red, at first.              *)
LEMMA InitIInv == Init => IInv
<1> SUFFICES ASSUME Init PROVE IInv
  OBVIOUS
<1>1. TypeOK
  <2>1. running \in BOOLEAN /\ reload_flag \in BOOLEAN /\ red \in BOOLEAN /\ crashed \in BOOLEAN
    BY Zenon DEF Init
  <2> QED BY <2>1 DEF Init, TypeOK
<1>2. ReportedInv /\ StoredInv /\ LightInv /\ SaveInv
  BY DEF Init, ReportedInv, StoredInv, LightInv, SaveInv
<1> QED BY <1>1, <1>2 DEF IInv

(* What the end of a read does to what the read left.                      *)
LEMMA EndReadIInv ==
  ASSUME TypeOK, ReportedInv, StoredInv, phase = "reading",
         NEW frame \in Ids \cup {None}, EndRead(frame)
  PROVE  /\ last' \in Ids \cup {None} /\ reported' \in -1..1 /\ can_healthy' \in 0..1
         /\ age' \in 0..Lag /\ age' <= age /\ waited' = 0
         /\ reported' = can_healthy'
         /\ can_healthy' = 1 => age' < HealthTimeout
  BY DEF EndRead, Report, Healthy, health, TypeOK, ReportedInv, StoredInv

(* What handling a signal does: nothing, or the end of a read.             *)
LEMMA HandledIInv ==
  ASSUME TypeOK, ReportedInv, StoredInv, Handlers, Handled
  PROVE  \/ phase # "reading" /\ phase' = phase /\ UNCHANGED <<last, health, clock>>
         \/ phase = "reading" /\ phase' = "check" /\ EndRead(None)
  BY DEF Handled, Interrupted

-----------------------------------------------------------------------------
(* A save of the DBC file leaves its signal to come.                       *)
LEMMA PortalIInv == IInv /\ Portal /\ UNCHANGED crashed => IInv'
<1> SUFFICES ASSUME IInv, Portal, UNCHANGED crashed PROVE IInv'
  OBVIOUS
<1> USE DEF IInv
<1>1. CASE Save
  BY <1>1 DEF Save, TypeOK, ReportedInv, StoredInv, LightInv, SaveInv, health, clock, light
<1>2. CASE SendHup
  <2>1. CASE Handlers /\ reload_flag' = TRUE /\ Handled
    <3>1. CASE phase # "reading" /\ phase' = phase /\ UNCHANGED <<last, health, clock>>
      BY <1>2, <2>1, <3>1
      DEF SendHup, TypeOK, ReportedInv, StoredInv, LightInv, SaveInv, health, clock, light
    <3>2. CASE phase = "reading" /\ phase' = "check" /\ EndRead(None)
      BY <1>2, <2>1, <3>2, EndReadIInv
      DEF SendHup, TypeOK, ReportedInv, StoredInv, LightInv, SaveInv, light
    <3> QED BY <2>1, <3>1, <3>2, HandledIInv
  <2>2. CASE phase = "exec" /\ phase' = "stopped" /\ UNCHANGED <<reload_flag, last, health, clock>>
    BY <1>2, <2>2
    DEF SendHup, TypeOK, ReportedInv, StoredInv, LightInv, SaveInv, health, clock, light
  <2>3. CASE ~Process /\ UNCHANGED <<phase, reload_flag, last, health, clock>>
    BY <1>2, <2>3
    DEF SendHup, TypeOK, ReportedInv, StoredInv, LightInv, SaveInv, health, clock, light
  <2> QED BY <1>2, <2>1, <2>2, <2>3 DEF SendHup
<1> QED BY <1>1, <1>2 DEF Portal

(* systemd starts, stops and restarts the process.                         *)
LEMMA ServiceIInv == IInv /\ Service /\ UNCHANGED crashed => IInv'
<1> SUFFICES ASSUME IInv, Service, UNCHANGED crashed PROVE IInv'
  OBVIOUS
<1> USE DEF IInv
<1>1. CASE Exec
  <2>1. TypeOK'
    <3>1. running' \in BOOLEAN /\ reload_flag' \in BOOLEAN /\ red' \in BOOLEAN
      BY <1>1, Zenon DEF Exec, TypeOK, light
    <3> QED BY <1>1, <3>1 DEF Exec, TypeOK, portal, light
  <2>2. ReportedInv' /\ StoredInv' /\ LightInv' /\ SaveInv'
    BY <1>1 DEF Exec, ReportedInv, StoredInv, LightInv, SaveInv
  <2> QED BY <2>1, <2>2
<1>2. CASE Terminate
  <2>1. CASE phase # "reading" /\ phase' = phase /\ UNCHANGED <<last, health, clock>>
    <3>1. TypeOK'
      <4>1. running' \in BOOLEAN /\ reload_flag' \in BOOLEAN /\ red' \in BOOLEAN
        BY <1>2, Zenon DEF Terminate, TypeOK, light
      <4> QED BY <1>2, <2>1, <4>1 DEF Terminate, TypeOK, portal, health, clock, light
    <3>2. ReportedInv' /\ StoredInv' /\ LightInv' /\ SaveInv'
      BY <1>2, <2>1
      DEF Terminate, ReportedInv, StoredInv, LightInv, SaveInv, portal, health, clock, light
    <3> QED BY <3>1, <3>2
  <2>2. CASE phase = "reading" /\ phase' = "check" /\ EndRead(None)
    <3>1. TypeOK'
      <4>1. running' \in BOOLEAN /\ reload_flag' \in BOOLEAN /\ red' \in BOOLEAN
        BY <1>2, Zenon DEF Terminate, TypeOK, light
      <4> QED BY <1>2, <2>2, <4>1, EndReadIInv DEF Terminate, TypeOK, portal, light
    <3>2. ReportedInv' /\ StoredInv' /\ LightInv' /\ SaveInv'
      BY <1>2, <2>2, EndReadIInv
      DEF Terminate, TypeOK, ReportedInv, StoredInv, LightInv, SaveInv, portal, light
    <3> QED BY <3>1, <3>2
  <2> QED BY <1>2, <2>1, <2>2, HandledIInv DEF Terminate
<1> QED BY <1>1, <1>2 DEF Service

(* A crash leaves what was stored, as old as it is.                        *)
LEMMA CrashIInv == IInv /\ Crash => IInv'
<1> SUFFICES ASSUME IInv, Crash PROVE IInv'
  OBVIOUS
<1> USE DEF IInv
<1>1. running' \in BOOLEAN /\ reload_flag' \in BOOLEAN /\ red' \in BOOLEAN /\ crashed' \in BOOLEAN
  BY Zenon DEF Crash, TypeOK, light
<1>2. TypeOK'
  BY <1>1 DEF Crash, TypeOK, portal, health, light
<1>3. ReportedInv' /\ StoredInv' /\ LightInv' /\ SaveInv'
  BY DEF Crash, ReportedInv, StoredInv, LightInv, SaveInv
<1> QED BY <1>2, <1>3

(* The loop: a reload reads the file after it has cleared the flag, and a  *)
(* health of 1 is stored only on a frame that is recent.                   *)
LEMMA ReaderIInv == IInv /\ Reader /\ UNCHANGED crashed => IInv'
<1> SUFFICES ASSUME IInv, Reader, UNCHANGED crashed PROVE IInv'
  OBVIOUS
<1> USE DEF IInv
<1>1. CASE Install
  BY <1>1 DEF Install, TypeOK, ReportedInv, StoredInv, LightInv,
     SaveInv, portal, health, clock, light
<1>2. CASE FirstLoad
  BY <1>2 DEF FirstLoad, Fails, TypeOK, ReportedInv, StoredInv, LightInv,
     SaveInv, portal, health, light
<1>3. CASE OpenSocket
  BY <1>3 DEF OpenSocket, Fails, TypeOK, ReportedInv, StoredInv, LightInv,
     SaveInv, portal, health, light
<1>4. CASE LoopTest
  BY <1>4 DEF LoopTest, TypeOK, ReportedInv, StoredInv, LightInv, SaveInv, portal, light
<1>5. CASE ReadFrame
  <2>1. PICK frame \in Ids : EndRead(frame)
    BY <1>5 DEF ReadFrame
  <2> QED
    BY <1>5, <2>1, EndReadIInv
    DEF ReadFrame, TypeOK, ReportedInv, StoredInv, LightInv, SaveInv, portal, light
<1>6. CASE ReadFails
  BY <1>6, EndReadIInv
  DEF ReadFails, TypeOK, ReportedInv, StoredInv, LightInv, SaveInv, portal, light
<1>7. CASE Dispatch
  BY <1>7 DEF Dispatch, TypeOK, ReportedInv, StoredInv, LightInv,
     SaveInv, portal, health, clock, light
<1>8. CASE TestFlag
  BY <1>8
  DEF TestFlag, Check, TypeOK, ReportedInv, StoredInv, LightInv,
     SaveInv, portal, health, clock, light
<1>9. CASE Load
  <2>1. TypeOK'
    BY <1>9 DEF Load, TypeOK, portal, health, clock, light
  <2>2. ReportedInv' /\ StoredInv' /\ LightInv' /\ SaveInv'
    BY <1>9 DEF Load, ReportedInv, StoredInv, LightInv, SaveInv, portal, health, clock, light
  <2> QED BY <2>1, <2>2
<1>10. CASE Loaded
  BY <1>10 DEF Loaded, TypeOK, ReportedInv, StoredInv, LightInv,
     SaveInv, portal, health, clock, light
<1> QED
  BY <1>1, <1>2, <1>3, <1>4, <1>5, <1>6, <1>7, <1>8, <1>9, <1>10 DEF Reader

(* Time passes where a process may wait, and the light is refreshed in time. *)
LEMMA TimeIInv == IInv /\ (Refresh \/ Tick) /\ UNCHANGED crashed => IInv'
<1> SUFFICES ASSUME IInv, Refresh \/ Tick, UNCHANGED crashed PROVE IInv'
  OBVIOUS
<1> USE DEF IInv
<1>1. CASE Refresh
  <2>1. running' \in BOOLEAN /\ reload_flag' \in BOOLEAN /\ red' \in BOOLEAN
    BY <1>1, Zenon DEF Refresh, TypeOK
  <2>2. TypeOK'
    BY <1>1, <2>1 DEF Refresh, TypeOK, portal, health, clock
  <2>3. ReportedInv' /\ StoredInv' /\ SaveInv'
    BY <1>1 DEF Refresh, ReportedInv, StoredInv, SaveInv, portal, health, clock
  <2>4. (~red' => can_healthy # 0) /\ polled' = 0 /\ phase' = phase /\ UNCHANGED clock
    BY <1>1, Zenon DEF Refresh
  <2>5. LightInv'
    BY <2>4 DEF TypeOK, StoredInv, LightInv, clock
  <2> QED BY <2>2, <2>3, <2>5
<1>2. CASE Tick
  BY <1>2 DEF Tick, MayWait, TypeOK, ReportedInv, StoredInv, LightInv, SaveInv, portal, health
<1> QED BY <1>1, <1>2

(* Every step keeps the invariant.                                         *)
LEMMA NextIInv == IInv /\ [Next]_vars => IInv'
<1>1. ASSUME IInv, UNCHANGED vars PROVE IInv'
  BY <1>1 DEF vars, portal, health, clock, light,
              IInv, TypeOK, ReportedInv, StoredInv, LightInv, SaveInv
<1> QED BY <1>1, PortalIInv, ServiceIInv, ReaderIInv, TimeIInv, CrashIInv DEF Next

(* So it holds always.                                                     *)
LEMMA Invariance == Spec => []IInv
  BY InitIInv, NextIInv, PTL DEF Spec

-----------------------------------------------------------------------------
(* Every variable keeps its type, and no wait outlasts its timeout: a read *)
(* ends after ReadTimeout, the light is refreshed after PollInterval.      *)
THEOREM TypeCorrect == Spec => []TypeOK
  BY Invariance, PTL DEF IInv

(* The reload flag is cleared before the file is read, so a DBC file saved *)
(* at any moment of the loop is loaded or still announced.                 *)
THEOREM SavesAreKept == Spec => []NoSaveForgotten
<1>1. IInv => NoSaveForgotten
  BY DEF IInv, SaveInv, NoSaveForgotten
<1> QED BY <1>1, Invariance, PTL

(* The age-out, the read timeout and the refresh add up to Lag, also after *)
(* a crash left a health of 1 behind.                                      *)
THEOREM LightFollowsTheBus == Spec => []RedWhileUp
<1>1. IInv => RedWhileUp
  BY DEF IInv, TypeOK, LightInv, RedWhileUp
<1> QED BY <1>1, Invariance, PTL

-----------------------------------------------------------------------------
(* Whatever ends the process but a crash leaves a health of 0: the exit of *)
(* the loop stores it, and a start that fails has not stored another.      *)
LEMMA EndsUnhealthy ==
  ASSUME IInv, ~Up => can_healthy = 0, Portal \/ Service \/ Reader \/ Refresh \/ Tick
  PROVE  ~Up' => can_healthy' = 0
<1>1. CASE Save \/ Refresh \/ Tick
  BY <1>1 DEF Save, Refresh, Tick, health
<1>2. CASE SendHup \/ Terminate
  <2>1. CASE Up
    BY <1>2, <2>1 DEF SendHup, Terminate, Handled, Interrupted
  <2>2. CASE ~Up
    BY <1>2, <2>2 DEF SendHup, Terminate, Handled, health
  <2> QED BY <2>1, <2>2
<1>3. CASE Exec \/ Install \/ FirstLoad \/ OpenSocket \/ LoopTest
  BY <1>3 DEF Exec, Install, FirstLoad, OpenSocket, LoopTest, health
<1>4. CASE ReadFrame \/ ReadFails \/ Dispatch \/ TestFlag \/ Load \/ Loaded
  BY <1>4 DEF ReadFrame, ReadFails, Dispatch, TestFlag, Check, Load, Loaded
<1> QED BY <1>1, <1>2, <1>3, <1>4 DEF Portal, Service, Reader

(* Only time makes the last frame and the light older.                     *)
LEMMA AgeFrame ==
  ASSUME IInv, Portal \/ Service \/ Reader
  PROVE  UNCHANGED light /\ age' \in {0, age}
<1>1. CASE Portal \/ Service
  BY <1>1 DEF Portal, Service, Save, SendHup, Exec, Terminate, Handled, EndRead, clock
<1>2. CASE Reader
  BY <1>2 DEF Reader, Install, FirstLoad, OpenSocket, LoopTest, ReadFrame, ReadFails,
     EndRead, Dispatch, TestFlag, Check, Load, Loaded, clock
<1> QED BY <1>1, <1>2

(* Without a crash a fault of the bus is reported before the process ends, *)
(* and the light follows it.                                               *)
LEMMA FaultStep ==
  ASSUME IInv, FaultInv, [Next]_vars
  PROVE  FaultInv'
<1>1. CASE UNCHANGED vars
  BY <1>1 DEF vars, health, clock, light, FaultInv
<1>2. CASE Crash
  <2>1. crashed'
    BY <1>2, Zenon DEF Crash
  <2> QED BY <2>1 DEF FaultInv
<1>3. CASE (Portal \/ Service \/ Reader \/ Refresh \/ Tick) /\ UNCHANGED crashed
  <2> SUFFICES ASSUME ~crashed
               PROVE  /\ ~Up' => can_healthy' = 0
                      /\ ~red' => age' < HealthTimeout + ReadTimeout + polled'
    BY <1>3 DEF FaultInv
  <2>1. /\ ~Up => can_healthy = 0
        /\ ~red => age < HealthTimeout + ReadTimeout + polled
    BY DEF FaultInv
  <2>2. ~Up' => can_healthy' = 0
    BY <1>3, <2>1, EndsUnhealthy
  <2>3. age \in Nat /\ polled \in Nat
    BY DEF IInv, TypeOK
  <2>4. CASE Portal \/ Service \/ Reader
    BY <2>1, <2>2, <2>3, <2>4, AgeFrame DEF light
  <2>5. CASE Refresh
    <3>1. (~red' => can_healthy # 0) /\ polled' = 0 /\ age' = age
      BY <2>5, Zenon DEF Refresh, clock
    <3>2. ~red' => Up /\ can_healthy = 1
      BY <2>1, <3>1 DEF IInv, TypeOK
    <3> QED BY <2>2, <2>3, <3>1, <3>2 DEF IInv, TypeOK, StoredInv
  <2>6. CASE Tick
    BY <2>1, <2>2, <2>3, <2>6 DEF Tick
  <2> QED BY <1>3, <2>4, <2>5, <2>6
<1> QED BY <1>1, <1>2, <1>3 DEF Next

(* The light is red on a fault of the bus for as long as no process died   *)
(* without its exit code: a clean exit and a failed start included.        *)
THEOREM RedWithoutCrash == Spec => []RedUnlessCrashed
<1>1. Init => FaultInv
  BY DEF Init, FaultInv
<1>2. IInv /\ FaultInv /\ [Next]_vars => FaultInv'
  BY FaultStep
<1>3. IInv /\ FaultInv => RedUnlessCrashed
  BY DEF IInv, TypeOK, FaultInv, RedUnlessCrashed, RedOnFault
<1> QED BY <1>1, <1>2, <1>3, Invariance, PTL DEF Spec
=============================================================================
