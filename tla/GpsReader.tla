------------------------------ MODULE GpsReader ------------------------------
(***************************************************************************)
(* gps-reader: the receiver's sentences, the line that is read from the    *)
(* serial port, the message they are merged into, and the GPS queue it is  *)
(* pushed to, with the cloud bridge as the queue's reader.                 *)
(*                                                                         *)
(* A position and a time are the number of the measurement they come from. *)
(* The queue is what its one reader here can see of it; its slots are in   *)
(* BroadcastQueue, its segments in QueueLifecycle.                         *)
(***************************************************************************)
EXTENDS Integers

CONSTANT MaxEvents  \* bound: measurements, values, failures, stops, losses

ASSUME MaxEventsAssumption == MaxEvents \in Nat

Epochs == 0..MaxEvents  \* 0: not known
GpsMessages == [lat_lon : Epochs, timestamp_ms : Epochs, has_fix : BOOLEAN]
NoGps == [lat_lon |-> 0, timestamp_ms |-> 0, has_fix |-> FALSE]

VARIABLES
  epoch,    \* measurements made
  sky,      \* what the receiver knew at the last one
  due,      \* the sentences about it that are still to be sent
  reader,   \* where gps-reader is
  current,  \* the message being merged
  linked,   \* the name of the queue links to a segment
  idx,      \* index of gps-reader's segment
  ear,      \* the segment the bridge has: "none", "here" or "gone"
  gps_pos,  \* the bridge's position
  unread,   \* there is an item behind the position
  events    \* what came from outside, of MaxEvents

receiver   == <<epoch, sky, due>>
readerVars == <<reader, current>>
queueVars  == <<linked, idx, ear, gps_pos, unread>>
gpsVars    == <<receiver, readerVars, queueVars, events>>

GpsInit ==
  /\ epoch = 0 /\ due = {} /\ sky = [fix |-> FALSE, clock |-> FALSE]
  /\ reader = "stopped" /\ current = NoGps
  /\ linked = FALSE /\ idx = 0
  /\ ear = "none" /\ gps_pos = 0 /\ unread = FALSE
  /\ events = 0

Event == events < MaxEvents /\ events' = events + 1

-----------------------------------------------------------------------------
(* The receiver.  A position is known only when the time is.               *)

Skies == {s \in [fix : BOOLEAN, clock : BOOLEAN] : s.fix => s.clock}

Measure ==
  /\ due = {} /\ due' = {"RMC", "GGA"}
  /\ Event
  /\ epoch' = epoch + 1
  /\ sky' \in Skies
  /\ UNCHANGED <<readerVars, queueVars>>

-----------------------------------------------------------------------------
(* parse_nmea(), for a sentence with a good checksum.                      *)

Put(new, old) == IF new THEN epoch ELSE old

(* RMC: position, speed and course if the status is active, the time always. *)
MergeRMC(msg) ==
  [has_fix      |-> sky.fix,
   lat_lon      |-> Put(sky.fix, msg.lat_lon),
   timestamp_ms |-> Put(sky.clock, 0)]

(* Fault to set against MergeGGA: quality 0 is taken for a fix.            *)
MergeGGAUnfixed(msg) ==
  [msg EXCEPT !.has_fix = TRUE, !.lat_lon = Put(sky.fix, @)]

(* GGA: the position; the time stays that of the last RMC.                 *)
MergeGGA(msg) ==
  [msg EXCEPT !.has_fix = sky.fix, !.lat_lon = Put(sky.fix, @)]

parse_nmea(type, msg) == IF type = "RMC" THEN MergeRMC(msg) ELSE MergeGGA(msg)

(* What the bridge sees of a push: nothing in another segment, nor while   *)
(* its position is ahead of an index that was reset.                       *)
Push ==
  /\ idx' = idx + 1
  /\ unread' = (unread \/ (ear = "here" /\ gps_pos <= idx))
  /\ UNCHANGED <<linked, ear, gps_pos>>

(* read_line() ends with a line.  One that was damaged, or cut by a read   *)
(* that failed, is rejected; one that is sent while nobody reads is lost.  *)
ReadLine(type) ==
  /\ type \in due /\ due' = due \ {type}
  /\ \/ reader = "reading" /\ current' = parse_nmea(type, current) /\ Push
     \/ UNCHANGED <<current, queueVars>>
  /\ UNCHANGED <<epoch, sky, reader, events>>

-----------------------------------------------------------------------------
(* The process.                                                            *)

(* open_shared_queue(): the segment a crash left is reset, where the bridge *)
(* may have it; otherwise the segment is a new one.                        *)
Exec ==
  /\ reader \in {"stopped", "failed"} /\ reader' = "opening"
  /\ current' = NoGps
  /\ linked' = TRUE /\ idx' = 0
  /\ IF linked
     THEN unread' = (unread /\ ear = "gone") /\ UNCHANGED ear
     ELSE ear' = (IF ear = "here" THEN "gone" ELSE ear) /\ UNCHANGED unread
  /\ UNCHANGED <<receiver, gps_pos, events>>

(* close_shared_queue(): the name is removed.                              *)
Close == linked' = FALSE /\ UNCHANGED <<idx, ear, gps_pos, unread>>

OpenPort ==
  /\ reader = "opening"
  /\ \/ reader' = "reading" /\ UNCHANGED <<queueVars, events>>
     \/ reader' = "failed" /\ Close /\ Event
  /\ UNCHANGED <<receiver, current>>

(* SIGINT and SIGTERM clear running; a read that is interrupted is taken up *)
(* again, so that the loop ends with a line or a read that failed.         *)
Quit ==
  /\ reader = "reading" /\ reader' = "stopped"
  /\ Close
  /\ Event
  /\ UNCHANGED <<receiver, current>>

Crash ==
  /\ reader \in {"opening", "reading"} /\ reader' = "failed"
  /\ Event
  /\ UNCHANGED <<receiver, current, queueVars>>

GpsNext ==
  \/ Measure
  \/ \E type \in {"RMC", "GGA"} : ReadLine(type)
  \/ Exec \/ OpenPort \/ Quit \/ Crash

-----------------------------------------------------------------------------
GpsTypeOK ==
  /\ epoch \in Epochs /\ sky \in Skies /\ due \subseteq {"RMC", "GGA"}
  /\ reader \in {"stopped", "failed", "opening", "reading"}
  /\ current \in GpsMessages
  /\ linked \in BOOLEAN /\ idx \in Nat
  /\ ear \in {"none", "here", "gone"} /\ gps_pos \in Nat /\ unread \in BOOLEAN
  /\ events \in 0..MaxEvents

(* A message that says it has a fix never puts a later time on an earlier  *)
(* position, whatever sentences were lost or damaged before it: GGA keeps  *)
(* the time of the last RMC, RMC without a fix keeps the position.         *)
FixIsNotBackdated ==
  current.has_fix => current.lat_lon >= current.timestamp_ms
=============================================================================
