------------------------------- MODULE Cockpit -------------------------------
(***************************************************************************)
(* The graphics engine behind the buttons (graphics-engine/src/main.cpp):  *)
(* frame after frame it reloads the screens when it was told to, moves to  *)
(* the next one when the button was pressed, takes the messages of the     *)
(* telemetry queue to the widgets of all screens, and draws one screen.    *)
(*                                                                         *)
(* The queue is what the engine has not consumed of it.  How graphics.json *)
(* is written and read is in GraphicsSync: here it is replaced and read in *)
(* one step.                                                               *)
(***************************************************************************)
EXTENDS Buttons, Widgets

CONSTANTS
  Displays,  \* what graphics.json may hold: sequences of sequences of widgets
  Messages   \* what may be pushed: records of a signal and its value

ASSUME CockpitAssumption ==
  /\ Displays \subseteq Seq(Seq(WidgetConfigs))
  /\ Messages \subseteq [signal : Signals, value : Int]

VARIABLES
  file,         \* graphics.json
  reload_flag,
  phase,        \* the next step of the frame
  screens,      \* with the values of the widgets
  active_screen,
  attached,     \* the queue is open
  queue,        \* messages not yet consumed
  batch,        \* how many of them this frame takes
  now,          \* GetTime()
  heard         \* history: the messages consumed since the screens were built

engineVars == <<reload_flag, phase, screens, active_screen, attached, queue, batch,
                heard>>
vars == <<buttonVars, engineVars, file, now>>

Up == proc["graphics"] = "running"

Idle ==
  /\ phase' = "off" /\ screens' = <<>> /\ active_screen' = 0
  /\ attached' = FALSE /\ queue' = <<>> /\ batch' = 0 /\ heard' = <<>>

Init ==
  /\ ButtonsInit
  /\ file \in Displays /\ now = 0
  /\ reload_flag = FALSE /\ phase = "off" /\ screens = <<>> /\ active_screen = 0
  /\ attached = FALSE /\ queue = <<>> /\ batch = 0 /\ heard = <<>>

-----------------------------------------------------------------------------
(* Around the engine.                                                      *)

(* The screens are built anew, with no values.  The queue may not be there. *)
Begin ==
  /\ phase' = "reload"
  /\ screens' = build_screens(file) /\ active_screen' = 0 /\ heard' = <<>>
  /\ attached' \in BOOLEAN /\ queue' = <<>> /\ batch' = 0
  /\ UNCHANGED reload_flag

(* Loading is one step; it may have been told to do it again by then.      *)
Buttons ==
  /\ ButtonsNext
  /\ CASE ~Up /\ Up' -> Begin
       [] proc'["graphics"] = "off" -> Idle /\ reload_flag' = FALSE
       [] OTHER -> UNCHANGED engineVars
  /\ UNCHANGED <<file, now>>

(* A save and its SIGHUP.                                                  *)
Save ==
  /\ proc["graphics"] # "exec"
  /\ file' \in Displays \ {file}
  /\ reload_flag' = (proc["graphics"] # "off")
  /\ Event
  /\ UNCHANGED <<programs, strangers, gpioVars, reused, phase, screens, active_screen,
                 attached, queue, batch, now, heard>>

Push ==
  /\ attached
  /\ \E m \in Messages : queue' = Append(queue, m)
  /\ Event
  /\ UNCHANGED <<programs, strangers, gpioVars, reused, reload_flag, phase, screens,
                 active_screen, attached, batch, file, now, heard>>

-----------------------------------------------------------------------------
(* A frame.                                                                *)

(* Fault to set against Clamped: the screens may be fewer now.             *)
Unclamped(active, n) == active

Clamped(active, n) == IF n = 0 THEN 0 ELSE IF active >= n THEN n - 1 ELSE active

Reload ==
  /\ Up /\ phase = "reload" /\ phase' = "navigate"
  /\ reload_flag' = FALSE
  /\ IF reload_flag
     THEN /\ screens' = build_screens(file) /\ heard' = <<>>
          /\ active_screen' = Clamped(active_screen, Len(screens'))
     ELSE UNCHANGED <<screens, heard, active_screen>>
  /\ UNCHANGED <<buttonVars, attached, queue, batch, file, now>>

(* Fault to set against Taken: the flag is cleared before the screens are  *)
(* looked at.                                                              *)
TakenAnyway == flag["graphics"]
Taken == flag["graphics"] /\ screens # <<>>

(* Without screens nothing is done.  A key may be pressed at the same time. *)
handle_screen_navigation ==
  /\ Up /\ phase = "navigate" /\ phase' = "consume"
  /\ flag' = [flag EXCEPT !["graphics"] = @ /\ ~Taken]
  /\ \E key \in BOOLEAN :
       /\ active_screen' = IF screens # <<>> /\ (key \/ flag["graphics"])
                           THEN (active_screen + 1) % Len(screens) ELSE active_screen
       /\ IF key THEN Event ELSE UNCHANGED events
  /\ UNCHANGED <<proc, pid, pidfile, strangers, gpioVars, reused, reload_flag, screens,
                 attached, queue, batch, file, now, heard>>

(* A queue that was missing is tried again, every 60 frames.  Of the queue *)
(* the frame takes what is there now.                                      *)
Consume ==
  /\ Up /\ phase = "consume"
  /\ IF attached
     THEN phase' = "update" /\ batch' = Len(queue) /\ UNCHANGED attached
     ELSE phase' = "draw" /\ attached' \in BOOLEAN /\ UNCHANGED batch
  /\ UNCHANGED <<buttonVars, reload_flag, screens, active_screen, queue, file, now, heard>>

(* One message after the other; meanwhile others may be pushed.            *)
Update ==
  /\ Up /\ phase = "update"
  /\ IF batch = 0
     THEN phase' = "draw" /\ UNCHANGED <<screens, queue, batch, heard>>
     ELSE /\ screens' = update_all_screens(screens, Head(queue), now)
          /\ heard' = Append(heard, [signal |-> Head(queue).signal,
                                     value |-> Head(queue).value, t |-> now])
          /\ queue' = Tail(queue) /\ batch' = batch - 1
          /\ UNCHANGED phase
  /\ UNCHANGED <<buttonVars, reload_flag, active_screen, attached, file, now>>

(* What is drawn is screens[active_screen].  Time passes or not.           *)
Draw ==
  /\ Up /\ phase = "draw" /\ phase' = "reload"
  /\ \/ now' = now + 1 /\ Event
     \/ UNCHANGED <<now, events>>
  /\ UNCHANGED <<programs, strangers, gpioVars, reused, reload_flag, screens, active_screen,
                 attached, queue, batch, file, heard>>

Next ==
  \/ Buttons \/ Save \/ Push
  \/ Reload \/ handle_screen_navigation \/ Consume \/ Update \/ Draw

Spec == Init /\ [][Next]_vars

-----------------------------------------------------------------------------
TypeOK ==
  /\ ButtonsTypeOK
  /\ file \in Displays /\ reload_flag \in BOOLEAN /\ attached \in BOOLEAN
  /\ phase \in {"off", "reload", "navigate", "consume", "update", "draw"}
  /\ Up <=> phase # "off"
  /\ screens \in Seq(Seq(WidgetStates)) /\ active_screen \in 0..Len(screens)
  /\ queue \in Seq(Messages) /\ batch \in 0..Len(queue)
  /\ now \in 0..MaxEvents
  /\ heard \in Seq([signal : Signals, value : Int, t : 0..now])

(* The screen that is drawn exists, whatever reload and button did before  *)
(* in the frame, and every widget, on this screen or another, shows what   *)
(* the last message of its signals says, all points of its window up to    *)
(* its limit, and on a gauge or a bar the alarm exactly while the value    *)
(* calls for it.                                                           *)
DrawnIsLastHeard ==
  phase = "draw" =>
    /\ screens # <<>> => active_screen < Len(screens)
    /\ \A i \in DOMAIN screens : \A j \in DOMAIN screens[i] : Shows(heard, screens[i][j])

(* "When true, widget flashes a red border once value >=                   *)
(* critical_threshold (gauge/bar only)" (config-reference.md): the others  *)
(* do not flash.                                                           *)
AlarmIsGaugeOrBar ==
  \A i \in DOMAIN screens : \A j \in DOMAIN screens[i] :
    alarm_active(screens[i][j]) => screens[i][j].type \in {"gauge", "bar"}

(* A press that has reached the engine is not forgotten: it stays until    *)
(* there are screens and it moves on to the next one, or the engine ends.  *)
PressIsKept ==
  [][flag["graphics"] /\ ~flag'["graphics"] =>
       \/ proc'["graphics"] = "off"
       \/ screens # <<>> /\ active_screen' = (active_screen + 1) % Len(screens)]_vars
=============================================================================
