----------------------------- MODULE CloudBridge -----------------------------
(***************************************************************************)
(* The main loop of the cloud bridge (cloud-bridge/src/main.cpp) between   *)
(* the queues and the web socket: the last value of every signal, sent     *)
(* every send_interval_ms and forgotten when a send was accepted, and the  *)
(* last GPS message, sent at most every gps_send_interval_ms.              *)
(*                                                                         *)
(* A value of a signal is its number.  Time is counted in ticks.  A round  *)
(* takes any number of them up to MaxRound: it may wait for a registration *)
(* over HTTP, for an upload, or for a send.                                *)
(***************************************************************************)
EXTENDS GpsReader

CONSTANTS
  Keys,          \* the signals: identifier and name
  SendInterval,  \* send_interval_ms, in ticks
  GpsInterval,   \* gps_send_interval_ms, in ticks
  MaxRound       \* the longest that a round takes, in ticks

ASSUME CloudBridgeAssumption ==
  {SendInterval, GpsInterval} \subseteq Nat /\ MaxRound \in Nat \ {0}

Values == 0..MaxEvents  \* 0: no value

VARIABLES
  value,        \* the newest value of each signal in the telemetry queue
  link,         \* the web socket: "down", "up", or "dead": lost unnoticed
  bridge,       \* where the loop is
  consumed,     \* the newest value of each signal the loop has consumed
  signals,      \* the values to send
  since_send,   \* now - last_send_time, capped
  has_new_gps,  \* there is a GPS message to send
  since_gps,    \* now - last_gps_send_time, capped
  \* history, for the properties alone:
  sent,         \* the newest value of each signal that a send accepted
  age,          \* ticks since the oldest value in signals was consumed
  refused,      \* a send of these values was refused
  told          \* the last GPS message: "no": not accepted by a send yet,
                \* "yes": accepted, "swallowed": accepted by a dead connection

gpsSide == <<has_new_gps, since_gps, told>>
batch   == <<consumed, signals, since_send, sent, age, refused>>
vars    == <<gpsVars, value, link, bridge, batch, gpsSide>>

Up == bridge # "down"
Cap == SendInterval + MaxRound

Nothing == [k \in Keys |-> 0]

Init ==
  /\ GpsInit
  /\ value = Nothing /\ link = "down" /\ bridge = "down"
  /\ consumed = Nothing /\ signals = Nothing /\ since_send = Cap
  /\ has_new_gps = FALSE /\ since_gps = GpsInterval
  /\ sent = Nothing /\ age = 0 /\ refused = FALSE /\ told = "yes"

-----------------------------------------------------------------------------
(* Outside the loop.                                                       *)

PushSignal(k) ==
  /\ value' = [value EXCEPT ![k] = @ + 1]
  /\ Event
  /\ UNCHANGED <<receiver, readerVars, queueVars, link, bridge, batch, gpsSide>>

(* The web socket connects, loses the peer, and notices.                   *)
Link ==
  /\ Up
  /\ \/ link = "down" /\ link' = "up"  /\ UNCHANGED events
     \/ link = "up" /\ link' = "dead" /\ Event
     \/ link = "dead" /\ link' = "down" /\ UNCHANGED events
  /\ UNCHANGED <<receiver, readerVars, queueVars, value, bridge, batch, gpsSide>>

(* WsClient::send(): refused without connected_.  A connection that has    *)
(* lost its peer unnoticed takes what it is given, or is found closed.     *)
Answers ==
  {accepted \in BOOLEAN : (link = "up" => accepted) /\ (link = "down" => ~accepted)}

(* The GPS queue is opened once.  Both positions start at the index.       *)
Start ==
  /\ bridge = "down" /\ bridge' = "top"
  /\ ear' = IF linked THEN "here" ELSE "none"
  /\ gps_pos' = IF linked THEN idx ELSE 0
  /\ unread' = FALSE
  /\ consumed' = value /\ sent' = value
  /\ UNCHANGED <<receiver, readerVars, linked, idx, events, value, link, signals,
                 since_send, age, refused, gpsSide>>

(* A stop, which lets the round end, or a crash: the values are gone.      *)
Stop ==
  /\ Up /\ bridge' = "down" /\ link' = "down"
  /\ Event
  /\ ear' = "none" /\ gps_pos' = 0 /\ unread' = FALSE
  /\ consumed' = Nothing /\ signals' = Nothing /\ sent' = Nothing
  /\ since_send' = Cap /\ age' = 0 /\ refused' = FALSE
  /\ has_new_gps' = FALSE /\ since_gps' = GpsInterval /\ told' = "yes"
  /\ UNCHANGED <<receiver, readerVars, linked, idx, value>>

-----------------------------------------------------------------------------
(* One round of the loop.                                                  *)

Later(t, d, limit) == IF t + d < limit THEN t + d ELSE limit

(* Some ticks have passed since the last round took the time, or none.     *)
Tick ==
  \E d \in 0..MaxRound :
    /\ since_send' = Later(since_send, d, Cap)
    /\ since_gps' = Later(since_gps, d, GpsInterval)
    /\ age' = IF signals = Nothing THEN 0 ELSE Later(age, d, Cap)

(* Faults to set against Collect: the first value stays (emplace); values  *)
(* are added up (+=).                                                      *)
CollectFirst(k) ==
  IF signals[k] = 0 /\ value[k] > consumed[k] THEN value[k] ELSE signals[k]
CollectSum(k) ==
  IF value[k] > consumed[k] THEN signals[k] + value[k] ELSE signals[k]

(* consume(): the last value of each signal stays in the map.              *)
Collect(k) == IF value[k] > consumed[k] THEN value[k] ELSE signals[k]

Consume ==
  /\ bridge = "top" /\ bridge' = "send"
  /\ Tick
  /\ signals' = [k \in Keys |-> Collect(k)] /\ consumed' = value
  /\ has_new_gps' = (has_new_gps \/ unread) /\ told' = (IF unread THEN "no" ELSE told)
  /\ gps_pos' = (IF unread /\ ear = "here" THEN idx ELSE gps_pos) /\ unread' = FALSE
  /\ UNCHANGED <<receiver, readerVars, linked, idx, ear, events, value, link,
                 sent, refused>>

(* Faults to set against Due and Cleared: the interval has to be exceeded; *)
(* the map is cleared whether the send was accepted or not.                *)
DueLater == since_send > SendInterval
Due == since_send >= SendInterval
ClearedAnyway(accepted) == TRUE
Cleared(accepted) == accepted

(* last_send_time moves with every attempt, and without anything to send.  *)
SendSignals ==
  /\ bridge = "send" /\ bridge' = "position"
  /\ since_send' = IF Due THEN 0 ELSE since_send
  /\ IF Due /\ signals # Nothing
     THEN \E accepted \in Answers :
            /\ sent' = [k \in Keys |->
                          IF accepted /\ signals[k] # 0 THEN signals[k] ELSE sent[k]]
            /\ signals' = IF Cleared(accepted) THEN Nothing ELSE signals
            /\ age' = (IF Cleared(accepted) THEN 0 ELSE age)
            /\ refused' = ~Cleared(accepted)
     ELSE UNCHANGED <<sent, signals, age, refused>>
  /\ UNCHANGED <<gpsVars, value, link, consumed, gpsSide>>

GpsDue == has_new_gps /\ since_gps >= GpsInterval

(* The last GPS message was given to the connection there is.              *)
Given == IF link = "up" THEN "yes" ELSE "swallowed"

(* Fault to set against SendGps: the result of the send is not looked at.  *)
SendGpsUnchecked ==
  /\ bridge = "position" /\ bridge' = "top"
  /\ IF GpsDue
     THEN \E accepted \in Answers :
            /\ has_new_gps' = FALSE /\ since_gps' = 0
            /\ told' = IF accepted THEN Given ELSE told
     ELSE UNCHANGED gpsSide
  /\ UNCHANGED <<gpsVars, value, link, batch>>

SendGps ==
  /\ bridge = "position" /\ bridge' = "top"
  /\ IF GpsDue /\ TRUE \in Answers
     THEN \/ has_new_gps' = FALSE /\ since_gps' = 0 /\ told' = Given
          \/ FALSE \in Answers /\ UNCHANGED gpsSide
     ELSE UNCHANGED gpsSide
  /\ UNCHANGED <<gpsVars, value, link, batch>>

Round == Consume \/ SendSignals \/ SendGps

Next ==
  \/ GpsNext /\ UNCHANGED <<value, link, bridge, batch, gpsSide>>
  \/ \E k \in Keys : PushSignal(k)
  \/ Link \/ Start \/ Stop \/ Round

Spec == Init /\ [][Next]_vars

(* The loop goes round and time passes in it.                              *)
Fairness ==
  /\ WF_vars(Round)
  /\ SF_vars(Consume /\ since_gps' # since_gps)
FairSpec == Spec /\ Fairness

-----------------------------------------------------------------------------
TypeOK ==
  /\ GpsTypeOK
  /\ value \in [Keys -> Values] /\ consumed \in [Keys -> Values]
  /\ signals \in [Keys -> Values] /\ sent \in [Keys -> Values]
  /\ link \in {"down", "up", "dead"}
  /\ bridge \in {"down", "top", "send", "position"}
  /\ since_send \in 0..Cap /\ since_gps \in 0..GpsInterval
  /\ has_new_gps \in BOOLEAN /\ told \in {"no", "yes", "swallowed"}
  /\ age \in 0..Cap /\ refused \in BOOLEAN

(* No value is forgotten between the queue and the connection: of every    *)
(* signal the newest value consumed was accepted by a send, or is waiting  *)
(* for one, however often the connection comes and goes.                   *)
NoValueForgotten ==
  Up => \A k \in Keys : \/ signals[k] = consumed[k]
                        \/ signals[k] = 0 /\ sent[k] = consumed[k]

(* A message carries the time it is sent at.  Its values are no older than *)
(* the send interval and the one round that was under way when it ended,   *)
(* however long the rounds before took, unless they had to wait for the    *)
(* connection.                                                             *)
FreshUnlessRefused == Up /\ ~refused => age <= SendInterval - 1 + MaxRound

(* The last GPS message the loop has consumed was accepted by a send.      *)
Told == ~unread /\ ~has_new_gps /\ told # "no"

(* A position that was pushed while the connection was away, or too soon   *)
(* after the one before it, is sent once the connection stays.  One that a *)
(* dead connection had accepted is not sent again.                         *)
PositionIsSent == <>[](Up /\ link = "up") => []<>Told
=============================================================================
