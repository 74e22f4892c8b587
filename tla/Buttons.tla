------------------------------- MODULE Buttons -------------------------------
(***************************************************************************)
(* The buttons: gpio-reader, the pid files of the two programs it signals, *)
(* and what becomes of a SIGUSR1 while these start, end and crash and pids *)
(* are used again.                                                         *)
(***************************************************************************)
EXTENDS Integers, Sequences

CONSTANTS
  Pids,      \* process identifiers
  NoPid,     \* none: no pid file, or an empty one
  MaxEvents  \* bound: what happens from outside

ASSUME ButtonsAssumption == NoPid \notin Pids /\ MaxEvents \in Nat

Programs == {"graphics", "logger"}

VARIABLES
  proc,       \* "off", "exec", "armed": with handlers, "opened": with an
              \* empty pid file, "loading", "running"
  pid,        \* of each program, NoPid when it is off
  pidfile,    \* what each pid file holds
  flag,       \* screen_move_flag and toggle_flag
  strangers,  \* pids of other processes
  gpio,       \* "down", "wait", or "kill": between reading and signalling
  presses,    \* edge events that wait to be read
  target,     \* the pid that was read
  events,     \* what came from outside, of MaxEvents
  reused      \* history: a process was given a pid that a pid file or
              \* gpio-reader still held

buttonVars == <<proc, pid, pidfile, flag, strangers, gpio, presses, target, events, reused>>
gpioVars   == <<gpio, presses, target>>
programs   == <<proc, pid, pidfile, flag>>

ButtonsInit ==
  /\ proc = [q \in Programs |-> "off"] /\ pid = [q \in Programs |-> NoPid]
  /\ pidfile = [q \in Programs |-> NoPid] /\ flag = [q \in Programs |-> FALSE]
  /\ strangers = {}
  /\ gpio = "down" /\ presses = <<>> /\ target = NoPid
  /\ events = 0 /\ reused = FALSE

Event == events < MaxEvents /\ events' = events + 1

Free == Pids \ (strangers \cup {pid[q] : q \in Programs})

\* The pids somebody goes by.
Held == {pidfile[q] : q \in Programs} \cup {target}
Given(p) == reused' = (reused \/ p \in Held)

-----------------------------------------------------------------------------
(* The two programs.                                                       *)

Exec(q) ==
  /\ proc[q] = "off" /\ proc' = [proc EXCEPT ![q] = "exec"]
  /\ \E p \in Free : pid' = [pid EXCEPT ![q] = p] /\ Given(p)
  /\ UNCHANGED <<pidfile, flag, strangers, gpioVars, events>>

(* Fault to set against Handles: the handlers after all else.              *)
HandlesLate(q) == proc[q] = "running"
Handles(q) == proc[q] # "exec"

Arm(q) ==
  /\ proc[q] = "exec" /\ proc' = [proc EXCEPT ![q] = "armed"]
  /\ UNCHANGED <<pid, pidfile, flag, strangers, gpioVars, events, reused>>

(* write_pidfile(): fopen() empties the file, or fails.                    *)
OpenPidfile(q) ==
  /\ proc[q] = "armed"
  /\ \/ /\ proc' = [proc EXCEPT ![q] = "opened"]
        /\ pidfile' = [pidfile EXCEPT ![q] = NoPid]
        /\ UNCHANGED events
     \/ /\ proc' = [proc EXCEPT ![q] = "loading"]
        /\ Event
        /\ UNCHANGED pidfile
  /\ UNCHANGED <<pid, flag, strangers, gpioVars, reused>>

WritePidfile(q) ==
  /\ proc[q] = "opened" /\ proc' = [proc EXCEPT ![q] = "loading"]
  /\ pidfile' = [pidfile EXCEPT ![q] = pid[q]]
  /\ UNCHANGED <<pid, flag, strangers, gpioVars, events, reused>>

Run(q) ==
  /\ proc[q] = "loading" /\ proc' = [proc EXCEPT ![q] = "running"]
  /\ UNCHANGED <<pid, pidfile, flag, strangers, gpioVars, events, reused>>

Gone(q) ==
  /\ proc' = [proc EXCEPT ![q] = "off"] /\ pid' = [pid EXCEPT ![q] = NoPid]
  /\ flag' = [flag EXCEPT ![q] = FALSE]

(* The logger on SIGTERM or without a queue, the engine when its window is *)
(* closed: remove_pidfile().                                               *)
Exit(q) ==
  /\ proc[q] = "running" \/ (q = "logger" /\ proc[q] = "loading")
  /\ Gone(q) /\ pidfile' = [pidfile EXCEPT ![q] = NoPid]
  /\ Event
  /\ UNCHANGED <<strangers, gpioVars, reused>>

(* A crash; for the engine, which has no handler, a SIGTERM too.           *)
Crash(q) ==
  /\ proc[q] # "off"
  /\ Gone(q)
  /\ Event
  /\ UNCHANGED <<pidfile, strangers, gpioVars, reused>>

(* The logger's loop takes the press.                                      *)
Toggle ==
  /\ proc["logger"] = "running" /\ flag["logger"]
  /\ flag' = [flag EXCEPT !["logger"] = FALSE]
  /\ UNCHANGED <<proc, pid, pidfile, strangers, gpioVars, events, reused>>

Stranger ==
  /\ \/ (\E p \in Free : strangers' = strangers \cup {p} /\ Given(p)) /\ Event
     \/ (\E p \in strangers : strangers' = strangers \ {p}) /\ UNCHANGED <<events, reused>>
  /\ UNCHANGED <<programs, gpioVars>>

-----------------------------------------------------------------------------
(* gpio-reader.                                                            *)

GpioStart ==
  /\ gpio = "down" /\ gpio' = "wait"
  /\ UNCHANGED <<programs, strangers, presses, target, events, reused>>

(* SIGTERM, an error of the lines, a crash: what waits is not read.        *)
GpioEnds ==
  /\ gpio # "down" /\ gpio' = "down" /\ presses' = <<>> /\ target' = NoPid
  /\ Event
  /\ UNCHANGED <<programs, strangers, reused>>

Press(q) ==
  /\ presses' = IF gpio = "down" THEN presses ELSE Append(presses, q)
  /\ Event
  /\ UNCHANGED <<programs, strangers, gpio, target, reused>>

(* signal_process(): the pid file is read; without a pid nothing is done.  *)
ReadPidfile ==
  /\ gpio = "wait" /\ presses # <<>>
  /\ target' = pidfile[Head(presses)]
  /\ IF target' = NoPid
     THEN presses' = Tail(presses) /\ UNCHANGED gpio
     ELSE gpio' = "kill" /\ UNCHANGED presses
  /\ UNCHANGED <<programs, strangers, events, reused>>

(* SIGUSR1 ends a process without a handler.                               *)
Kill ==
  /\ gpio = "kill" /\ gpio' = "wait"
  /\ presses' = Tail(presses) /\ target' = NoPid
  /\ IF \E q \in Programs : pid[q] = target
     THEN \E q \in Programs :
            /\ pid[q] = target
            /\ IF Handles(q)
               THEN flag' = [flag EXCEPT ![q] = TRUE] /\ UNCHANGED <<proc, pid>>
               ELSE Gone(q)
     ELSE UNCHANGED <<proc, pid, flag>>
  /\ strangers' \in {strangers, strangers \ {target}}
  /\ UNCHANGED <<pidfile, events, reused>>

ButtonsNext ==
  \/ \E q \in Programs :
       \/ Exec(q) \/ Arm(q) \/ OpenPidfile(q) \/ WritePidfile(q) \/ Run(q)
       \/ Exit(q) \/ Crash(q) \/ Press(q)
  \/ Toggle \/ Stranger
  \/ GpioStart \/ GpioEnds \/ ReadPidfile \/ Kill

-----------------------------------------------------------------------------
ButtonsTypeOK ==
  /\ proc \in [Programs -> {"off", "exec", "armed", "opened", "loading", "running"}]
  /\ pid \in [Programs -> Pids \cup {NoPid}]
  /\ pidfile \in [Programs -> Pids \cup {NoPid}] /\ flag \in [Programs -> BOOLEAN]
  /\ strangers \subseteq Pids
  /\ gpio \in {"down", "wait", "kill"} /\ presses \in Seq(Programs)
  /\ target \in Pids \cup {NoPid}
  /\ (gpio = "kill") <=> (target # NoPid)
  /\ events \in 0..MaxEvents /\ reused \in BOOLEAN

(* What gpio-reader signals is the program whose button was pressed, with  *)
(* its handlers in place, or nobody: as long as no process was given a pid *)
(* that a pid file or gpio-reader still held, a press sets the flag of     *)
(* that program if it has the pid that was read, ends no process and       *)
(* reaches no other, whatever started, ended or crashed in between.        *)
PressArrives ==
  [][Kill /\ ~reused =>
       LET q == Head(presses)
       IN  /\ UNCHANGED <<proc, pid, strangers>>
           /\ flag' = [flag EXCEPT ![q] = @ \/ pid[q] = target]]_buttonVars
=============================================================================
