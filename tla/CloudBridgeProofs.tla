-------------------------- MODULE CloudBridgeProofs --------------------------
(***************************************************************************)
(* Theorems about CloudBridge, for any signals, intervals and bound.       *)
(*                                                                         *)
(* The invariant has a part about gps-reader and one about the loop, which *)
(* share the count of events alone.                                        *)
(***************************************************************************)
EXTENDS CloudBridge, TLAPS

(* No measurement is made, and no time read, that was not counted.         *)
GpsInv ==
  /\ GpsTypeOK
  /\ epoch <= events
  /\ current.timestamp_ms <= epoch
  /\ FixIsNotBackdated

LoopTypeOK ==
  /\ value \in [Keys -> Values] /\ consumed \in [Keys -> Values]
  /\ signals \in [Keys -> Values] /\ sent \in [Keys -> Values]
  /\ link \in {"down", "up", "dead"}
  /\ bridge \in {"down", "top", "send", "position"}
  /\ since_send \in 0..Cap /\ since_gps \in 0..GpsInterval
  /\ has_new_gps \in BOOLEAN /\ told \in {"no", "yes", "swallowed"}
  /\ age \in 0..Cap /\ refused \in BOOLEAN

(* Values are counted; what was sent was consumed, what was consumed is in *)
(* the queue.                                                              *)
ValueInv ==
  \A k \in Keys : value[k] <= events /\ consumed[k] <= value[k] /\ sent[k] <= consumed[k]

(* The loop begins with nothing to send.                                   *)
DownInv == ~Up => signals = Nothing /\ age = 0

(* Values age with the interval, and only a send that is refused separates *)
(* the two: what waits otherwise waits for the interval to end.            *)
AgeInv ==
  /\ signals = Nothing => age = 0
  /\ Up /\ ~refused => age <= since_send
  /\ bridge \in {"top", "position"} /\ ~refused /\ signals # Nothing
       => since_send < SendInterval

LoopInv ==
  LoopTypeOK /\ ValueInv /\ DownInv /\ AgeInv /\ NoValueForgotten /\ FreshUnlessRefused

IInv == GpsInv /\ LoopInv

(* The constants the proofs count with.                                    *)
LEMMA Intervals ==
  /\ MaxEvents \in Nat /\ SendInterval \in Nat /\ GpsInterval \in Nat /\ Cap \in Nat
  /\ MaxRound \in Nat \ {0} /\ Cap = SendInterval + MaxRound
  BY MaxEventsAssumption, CloudBridgeAssumption
     DEF MaxEventsAssumption, CloudBridgeAssumption, Cap

(* The flags have their type, in one place for all steps.                  *)
GpsFlags  == linked \in BOOLEAN /\ unread \in BOOLEAN
LoopFlags ==
  /\ has_new_gps \in BOOLEAN /\ refused \in BOOLEAN
  /\ told \in {"no", "yes", "swallowed"}

(* They have it at first.                                                  *)
LEMMA FlagsInit == Init => GpsFlags /\ LoopFlags
  BY Zenon DEF Init, GpsInit, GpsFlags, LoopFlags

(* A step leaves those of the GPS reader and its queue Boolean.            *)
LEMMA GpsFlagsStep ==
  ASSUME GpsFlags, [Next]_vars
  PROVE  GpsFlags'
  <1> USE DEF GpsFlags
  <1>1. CASE \E type \in {"RMC", "GGA"} : ReadLine(type)
    BY <1>1, Zenon DEF ReadLine, Push, queueVars
  <1>2. CASE Exec
    BY <1>2, Zenon DEF Exec
  <1>3. CASE OpenPort
    BY <1>3, Zenon DEF OpenPort, Close, queueVars
  <1>4. CASE Measure \/ Quit \/ Crash
    BY <1>4, Zenon DEF Measure, Quit, Crash, Close, queueVars
  <1>5. CASE (\E k \in Keys : PushSignal(k)) \/ Link
    BY <1>5, Zenon DEF PushSignal, Link, queueVars
  <1>6. CASE Start \/ Stop
    BY <1>6, Zenon DEF Start, Stop
  <1>7. CASE Consume
    BY <1>7, Zenon DEF Consume
  <1>8. CASE SendSignals \/ SendGps \/ UNCHANGED vars
    BY <1>8, Zenon DEF SendSignals, SendGps, vars, gpsVars, queueVars
  <1> QED
    BY <1>1, <1>2, <1>3, <1>4, <1>5, <1>6, <1>7, <1>8 DEF Next, GpsNext, Round

(* A step leaves those of the loop their type.                             *)
LEMMA LoopFlagsStep ==
  ASSUME LoopFlags, Next
  PROVE  LoopFlags'
  <1> USE DEF LoopFlags, batch, gpsSide
  <1>1. CASE UNCHANGED <<batch, gpsSide>>
    BY <1>1, Zenon
  <1>2. CASE Start \/ Stop
    BY <1>2, Zenon DEF Start, Stop
  <1>3. CASE Consume
    BY <1>3, Zenon DEF Consume
  <1>4. CASE SendSignals
    BY <1>4, Zenon DEF SendSignals, Cleared, Answers
  <1>5. CASE SendGps
    BY <1>5, Zenon DEF SendGps, Given
  <1> QED
    BY <1>1, <1>2, <1>3, <1>4, <1>5, Zenon DEF Next, Round, PushSignal, Link

(* The initial state satisfies the invariant.                              *)
LEMMA InitInv == Init => IInv
  <1> SUFFICES ASSUME Init PROVE IInv
    OBVIOUS
  <1> USE Intervals DEF Init, GpsInit
  <1>1. GpsInv
    <2>1. sky \in Skies
      BY DEF Skies
    <2>2. current \in GpsMessages /\ current.timestamp_ms = 0 /\ ~current.has_fix
      BY DEF GpsMessages, NoGps, Epochs
    <2> QED  BY <2>1, <2>2, FlagsInit DEF GpsInv, GpsTypeOK, GpsFlags, FixIsNotBackdated, Epochs
  <1>2. LoopTypeOK
    BY FlagsInit DEF LoopTypeOK, LoopFlags, Nothing, Values
  <1>3. ValueInv /\ DownInv /\ AgeInv /\ NoValueForgotten /\ FreshUnlessRefused
    BY DEF ValueInv, DownInv, AgeInv, NoValueForgotten, FreshUnlessRefused, Up, Nothing
  <1> QED  BY <1>1, <1>2, <1>3 DEF IInv, LoopInv

(* A merge keeps what GpsInv says of the message.                          *)
LEMMA Merged ==
  ASSUME GpsInv, NEW type
  PROVE  LET msg == parse_nmea(type, current)
         IN  /\ msg \in GpsMessages
             /\ msg.timestamp_ms <= epoch
             /\ msg.has_fix => msg.lat_lon >= msg.timestamp_ms
  <1> USE Intervals DEF GpsInv, GpsTypeOK, FixIsNotBackdated, GpsMessages, Epochs, Skies, Put
  <1>1. CASE type = "RMC"
    BY <1>1 DEF parse_nmea, MergeRMC
  <1>2. CASE type # "RMC"
    BY <1>2 DEF parse_nmea, MergeGGA
  <1> QED  BY <1>1, <1>2

(* Every step keeps what is said of gps-reader.                            *)
LEMMA GpsStep ==
  ASSUME GpsInv, [Next]_vars
  PROVE  GpsInv'
  <1> USE Intervals DEF GpsInv, GpsTypeOK, FixIsNotBackdated, Epochs
  <1>0. GpsFlags'
    BY GpsFlagsStep DEF GpsFlags
  <1> USE <1>0 DEF GpsFlags
  <1>1. CASE Measure
    <2>1. /\ epoch' = epoch + 1 /\ events' = events + 1 /\ events < MaxEvents
          /\ sky' \in Skies /\ due' = {"RMC", "GGA"}
          /\ UNCHANGED <<reader, current, linked, idx, ear, gps_pos, unread>>
      BY <1>1 DEF Measure, Event, readerVars, queueVars
    <2>2. epoch' \in Epochs /\ events' \in 0..MaxEvents /\ epoch' <= events'
      BY <2>1
    <2>3. current' \in GpsMessages /\ current'.timestamp_ms <= epoch' /\ FixIsNotBackdated'
      BY <2>1 DEF GpsMessages
    <2> QED  BY <2>1, <2>2, <2>3
  <1>2. ASSUME NEW type \in {"RMC", "GGA"}, ReadLine(type)
        PROVE  GpsInv'
    <2>1. /\ epoch' = epoch /\ sky' = sky /\ reader' = reader /\ events' = events
          /\ due' = due \ {type}
      BY <1>2 DEF ReadLine
    <2>2. CASE current' = parse_nmea(type, current) /\ Push
      BY <2>1, <2>2, Merged DEF Push
    <2>3. CASE UNCHANGED <<current, queueVars>>
      BY <2>1, <2>3 DEF queueVars
    <2> QED  BY <1>2, <2>2, <2>3 DEF ReadLine
  <1>3. CASE Exec
    BY <1>3 DEF Exec, receiver, NoGps, GpsMessages
  <1>4. CASE OpenPort
    BY <1>4 DEF OpenPort, Close, Event, receiver, queueVars
  <1>5. CASE Quit \/ Crash
    <2>1. /\ events' = events + 1 /\ events < MaxEvents
          /\ reader' \in {"stopped", "failed"}
          /\ UNCHANGED <<epoch, sky, due, current, idx, ear, gps_pos>>
      BY <1>5 DEF Quit, Crash, Close, Event, receiver, queueVars
    <2> QED  BY <2>1
  <1>6. CASE \E k \in Keys : PushSignal(k)
    BY <1>6 DEF PushSignal, Event, receiver, readerVars, queueVars
  <1>7. CASE Link
    BY <1>7 DEF Link, Event, receiver, readerVars, queueVars
  <1>8. CASE Start \/ Stop
    <2>1. CASE Start
      BY <2>1 DEF Start, receiver, readerVars
    <2>2. CASE Stop
      BY <2>2 DEF Stop, Event, receiver, readerVars
    <2> QED  BY <1>8, <2>1, <2>2
  <1>9. CASE Consume
    BY <1>9 DEF Consume, receiver, readerVars
  <1>10. CASE SendSignals \/ SendGps \/ UNCHANGED vars
    BY <1>10 DEF SendSignals, SendGps, vars, gpsVars, receiver, readerVars, queueVars
  <1> QED
    BY <1>1, <1>2, <1>3, <1>4, <1>5, <1>6, <1>7, <1>8, <1>9, <1>10 DEF Next, GpsNext, Round

(* Steps that leave the loop alone, or only count or connect.              *)
LEMMA Aside ==
  ASSUME GpsInv, LoopInv, GpsInv',
         UNCHANGED <<value, bridge, batch, gpsSide>>,
         link' \in {"down", "up", "dead"}, events' >= events
  PROVE  LoopInv'
  <1> USE DEF batch, gpsSide
  <1>1. LoopTypeOK'
    BY DEF LoopInv, LoopTypeOK
  <1>2. ValueInv'
    BY Intervals DEF LoopInv, LoopTypeOK, ValueInv, Values, GpsInv, GpsTypeOK
  <1>3. (DownInv /\ AgeInv /\ NoValueForgotten /\ FreshUnlessRefused)'
    BY DEF LoopInv, DownInv, AgeInv, NoValueForgotten, FreshUnlessRefused, Up
  <1> QED  BY <1>1, <1>2, <1>3 DEF LoopInv

(* A consume only adds values, and dates the first one with the interval.  *)
LEMMA ConsumeStep ==
  ASSUME GpsInv, LoopInv, Consume
  PROVE  LoopInv'
  <1> USE Intervals
  <1>1. /\ bridge = "top" /\ bridge' = "send" /\ refused' = refused
        /\ events' = events /\ value' = value /\ consumed' = value /\ sent' = sent
        /\ signals' = [k \in Keys |-> Collect(k)] /\ link' = link /\ Up
    BY DEF Consume, Up
  <1>2. LoopTypeOK
    BY DEF LoopInv
  <1>3. PICK d \in 0..MaxRound :
          /\ since_send' = Later(since_send, d, Cap)
          /\ since_gps' = Later(since_gps, d, GpsInterval)
          /\ age' = IF signals = Nothing THEN 0 ELSE Later(age, d, Cap)
    BY DEF Consume, Tick
  <1>11. since_send' \in 0..Cap /\ since_gps' \in 0..GpsInterval /\ age' \in 0..Cap
    BY <1>2, <1>3 DEF Later, LoopTypeOK
  <1>4. LoopTypeOK'
    BY <1>1, <1>2, <1>11 DEF LoopTypeOK, Collect, Consume, GpsInv, GpsTypeOK
  <1>5. ValueInv'
    BY <1>1, <1>2 DEF LoopInv, LoopTypeOK, ValueInv, Values
  <1>6. NoValueForgotten'
    <2> SUFFICES ASSUME NEW k \in Keys
                 PROVE  signals'[k] = consumed'[k] \/ (signals'[k] = 0 /\ sent'[k] = consumed'[k])
      BY DEF NoValueForgotten
    <2>1. signals[k] = consumed[k] \/ (signals[k] = 0 /\ sent[k] = consumed[k])
      BY <1>1, Zenon DEF LoopInv, NoValueForgotten
    <2>2. CASE value[k] > consumed[k]
      <3>1. signals'[k] = value[k]
        BY <1>1, <2>2 DEF Collect
      <3>2. consumed' = value
        BY <1>1
      <3> QED  BY <3>1, <3>2, Zenon
    <2>3. CASE ~(value[k] > consumed[k])
      <3>1. value[k] = consumed[k]
        BY <1>2, <2>3 DEF LoopInv, LoopTypeOK, ValueInv, Values
      <3> QED  BY <1>1, <2>1, <2>3, <3>1 DEF Collect
    <2> QED  BY <2>2, <2>3
  <1>7. signals' = Nothing => signals = Nothing
    <2> SUFFICES ASSUME signals' = Nothing
                 PROVE  \A k \in Keys : signals[k] = 0
      BY <1>2 DEF LoopTypeOK, Nothing
    <2> TAKE k \in Keys
    <2>1. Collect(k) = 0
      BY <1>1 DEF Nothing
    <2> QED  BY <1>2, <2>1 DEF Collect, LoopTypeOK, Values
  <1>8. ~refused => age' <= SendInterval - 1 + MaxRound /\ age' <= since_send'
    <2>1. ~refused /\ signals # Nothing => age <= since_send /\ since_send < SendInterval
      BY <1>1 DEF LoopInv, AgeInv, Up
    <2>2. ~refused /\ signals = Nothing => age = 0
      BY DEF LoopInv, AgeInv
    <2> QED  BY <1>2, <1>3, <2>1, <2>2 DEF Later, LoopTypeOK
  <1>9. signals' = Nothing => age' = 0
    BY <1>3, <1>7 DEF LoopInv, AgeInv
  <1>10. DownInv' /\ AgeInv' /\ FreshUnlessRefused'
    BY <1>1, <1>8, <1>9 DEF DownInv, AgeInv, FreshUnlessRefused, Up
  <1> QED  BY <1>4, <1>5, <1>6, <1>10 DEF LoopInv

(* A send that is accepted clears what waits; a refused one is recorded.   *)
LEMMA SendStep ==
  ASSUME GpsInv, LoopInv, SendSignals
  PROVE  LoopInv'
  <1> USE Intervals
  <1>1. /\ bridge = "send" /\ bridge' = "position" /\ link' = link
        /\ value' = value /\ consumed' = consumed /\ events' = events
        /\ since_send' = IF Due THEN 0 ELSE since_send
        /\ UNCHANGED gpsSide /\ Up
    BY DEF SendSignals, gpsVars, Up
  <1>2. LoopTypeOK
    BY DEF LoopInv
  <1>6. ASSUME Due, signals # Nothing
        PROVE  \E accepted \in BOOLEAN :
                 /\ sent' = [k \in Keys |->
                               IF accepted /\ signals[k] # 0 THEN signals[k] ELSE sent[k]]
                 /\ signals' = IF accepted THEN Nothing ELSE signals
                 /\ age' = (IF accepted THEN 0 ELSE age)
                 /\ refused' = ~accepted
    BY <1>6, Zenon DEF SendSignals, Answers, Cleared
  <1>3. CASE Due /\ signals # Nothing /\ ~refused'
    <2>1. /\ signals' = Nothing /\ age' = 0 /\ refused' = FALSE
          /\ sent' = [k \in Keys |-> IF signals[k] # 0 THEN signals[k] ELSE sent[k]]
      BY <1>3, <1>6
    <2>2. LoopTypeOK'
      <3>1. sent' \in [Keys -> Values] /\ signals' \in [Keys -> Values]
        BY <1>2, <2>1 DEF LoopTypeOK, Nothing, Values
      <3>2. since_send' \in 0..Cap
        BY <1>1, <1>3
      <3>3. LoopFlags'
        BY <1>2, LoopFlagsStep DEF Next, Round, LoopTypeOK, LoopFlags
      <3>4. /\ value' \in [Keys -> Values] /\ consumed' \in [Keys -> Values]
            /\ link' \in {"down", "up", "dead"} /\ bridge' = "position"
            /\ since_gps' \in 0..GpsInterval /\ age' \in 0..Cap
        BY <1>1, <1>2, <2>1 DEF LoopTypeOK, gpsSide
      <3> QED  BY <3>1, <3>2, <3>3, <3>4 DEF LoopTypeOK, LoopFlags
    <2>3. \A k \in Keys : sent'[k] = consumed[k]
      <3> TAKE k \in Keys
      <3>1. signals[k] = consumed[k] \/ (signals[k] = 0 /\ sent[k] = consumed[k])
        BY <1>1, Zenon DEF LoopInv, NoValueForgotten
      <3>2. sent[k] <= consumed[k] /\ sent[k] \in Nat /\ consumed[k] \in Nat
        BY <1>2 DEF LoopInv, ValueInv, LoopTypeOK, Values
      <3> QED  BY <2>1, <3>1, <3>2
    <2>4. ValueInv' /\ NoValueForgotten'
      BY <1>1, <1>2, <2>1, <2>3
         DEF LoopInv, LoopTypeOK, ValueInv, Values, NoValueForgotten, Nothing
    <2>5. DownInv' /\ AgeInv' /\ FreshUnlessRefused'
      BY <1>1, <1>3, <2>1 DEF DownInv, AgeInv, FreshUnlessRefused, Up, Due
    <2> QED  BY <2>2, <2>4, <2>5 DEF LoopInv
  <1>4. CASE Due /\ signals # Nothing /\ refused'
    <2>1. /\ sent' = [k \in Keys |-> sent[k]] /\ signals' = signals
          /\ age' = age /\ refused' = TRUE
      BY <1>4, <1>6
    <2>2. sent' = sent
      BY <1>2, <2>1 DEF LoopTypeOK
    <2>3. LoopTypeOK'
      BY <1>1, <1>2, <2>1, <2>2 DEF LoopTypeOK, Cap, gpsSide
    <2>4. ValueInv' /\ NoValueForgotten'
      BY <1>1, <2>1, <2>2 DEF LoopInv, ValueInv, NoValueForgotten, Up
    <2>5. DownInv' /\ AgeInv' /\ FreshUnlessRefused'
      BY <1>1, <1>4, <2>1 DEF DownInv, AgeInv, FreshUnlessRefused, Up
    <2> QED  BY <2>3, <2>4, <2>5 DEF LoopInv
  <1>5. CASE ~(Due /\ signals # Nothing)
    <2>1. UNCHANGED <<sent, signals, age, refused>>
      BY <1>5 DEF SendSignals
    <2>2. LoopTypeOK'
      BY <1>1, <1>2, <2>1 DEF LoopTypeOK, Cap, gpsSide
    <2>3. ValueInv' /\ NoValueForgotten' /\ FreshUnlessRefused'
      BY <1>1, <2>1 DEF LoopInv, ValueInv, NoValueForgotten, FreshUnlessRefused, Up
    <2>4. DownInv' /\ AgeInv'
      BY <1>1, <1>2, <1>5, <2>1 DEF LoopInv, LoopTypeOK, DownInv, AgeInv, Up, Due, Cap
    <2> QED  BY <2>2, <2>3, <2>4 DEF LoopInv
  <1> QED  BY <1>3, <1>4, <1>5

(* Every step keeps what is said of the loop.                              *)
LEMMA LoopStep ==
  ASSUME IInv, [Next]_vars
  PROVE  LoopInv'
  <1> USE Intervals DEF IInv
  <1>0. GpsInv'
    BY GpsStep
  <1>1. CASE GpsNext /\ UNCHANGED <<value, link, bridge, batch, gpsSide>>
    <2>1. events' >= events
      BY <1>1 DEF GpsNext, Measure, ReadLine, Exec, OpenPort, Quit, Crash, Event, GpsInv,
                  GpsTypeOK
    <2>2. link' \in {"down", "up", "dead"}
      BY <1>1 DEF LoopInv, LoopTypeOK
    <2> QED  BY <1>0, <1>1, <2>1, <2>2, Aside
  <1>2. ASSUME NEW k \in Keys, PushSignal(k)
        PROVE  LoopInv'
    <2>1. /\ value' = [value EXCEPT ![k] = @ + 1]
          /\ events' = events + 1 /\ events < MaxEvents
          /\ UNCHANGED <<link, bridge, batch, gpsSide>>
      BY <1>2 DEF PushSignal, Event
    <2>2. LoopTypeOK /\ ValueInv /\ events \in 0..MaxEvents
      BY DEF LoopInv, GpsInv, GpsTypeOK
    <2>3. LoopTypeOK'
      BY <2>1, <2>2 DEF LoopTypeOK, ValueInv, Values, batch, gpsSide
    <2>4. ValueInv'
      BY <2>1, <2>2 DEF LoopTypeOK, ValueInv, Values, batch
    <2>5. (DownInv /\ AgeInv /\ NoValueForgotten /\ FreshUnlessRefused)'
      BY <2>1 DEF LoopInv, DownInv, AgeInv, NoValueForgotten, FreshUnlessRefused, Up, batch
    <2> QED  BY <2>3, <2>4, <2>5 DEF LoopInv
  <1>3. CASE Link
    <2>1. events' >= events /\ link' \in {"down", "up", "dead"}
      BY <1>3 DEF Link, Event, GpsInv, GpsTypeOK
    <2> QED  BY <1>0, <1>3, <2>1, Aside DEF Link
  <1>4. CASE Start
    <2>1. LoopTypeOK /\ ValueInv /\ signals = Nothing /\ age = 0
      BY <1>4 DEF LoopInv, DownInv, Start, Up
    <2>2. LoopTypeOK' /\ ValueInv'
      BY <1>4, <2>1 DEF Start, LoopTypeOK, ValueInv, Values, gpsSide
    <2>3. (DownInv /\ AgeInv /\ NoValueForgotten /\ FreshUnlessRefused)'
      BY <1>4, <2>1 DEF Start, DownInv, AgeInv, NoValueForgotten, FreshUnlessRefused, Up,
                        LoopTypeOK, Nothing
    <2> QED  BY <2>2, <2>3 DEF LoopInv
  <1>5. CASE Stop
    <2>1. LoopTypeOK'
      <3>1. LoopFlags'
        BY <1>5, LoopFlagsStep DEF Next, LoopInv, LoopTypeOK, LoopFlags
      <3>2. Nothing \in [Keys -> Values]
        BY DEF Nothing, Values
      <3> QED  BY <1>5, <3>1, <3>2 DEF Stop, LoopInv, LoopTypeOK, LoopFlags
    <2>3. ValueInv'
      BY <1>5 DEF Stop, Event, LoopInv, LoopTypeOK, ValueInv, Values, Nothing, GpsInv, GpsTypeOK
    <2>2. (DownInv /\ AgeInv /\ NoValueForgotten /\ FreshUnlessRefused)'
      BY <1>5 DEF Stop, DownInv, AgeInv, NoValueForgotten, FreshUnlessRefused, Up
    <2> QED  BY <2>1, <2>2, <2>3 DEF LoopInv
  <1>6. CASE Consume
    BY <1>6, ConsumeStep
  <1>7. CASE SendSignals
    BY <1>7, SendStep
  <1>8. CASE SendGps
    <2>1. LoopTypeOK'
      <3>1. LoopFlags'
        BY <1>8, LoopFlagsStep DEF Next, Round, LoopInv, LoopTypeOK, LoopFlags
      <3>2. since_gps' \in 0..GpsInterval
        <4>1. since_gps' = 0 \/ since_gps' = since_gps
          BY <1>8, Zenon DEF SendGps, gpsSide
        <4> QED  BY <4>1 DEF LoopInv, LoopTypeOK
      <3>3. /\ UNCHANGED <<value, consumed, signals, sent, link, since_send, age>>
            /\ bridge' = "top"
        BY <1>8, Zenon DEF SendGps, batch
      <3> QED  BY <3>1, <3>2, <3>3 DEF LoopInv, LoopTypeOK, LoopFlags
    <2>2. (ValueInv /\ DownInv /\ AgeInv /\ NoValueForgotten /\ FreshUnlessRefused)'
      BY <1>8 DEF SendGps, LoopInv, ValueInv, DownInv, AgeInv, NoValueForgotten,
                  FreshUnlessRefused, Up, batch, gpsVars
    <2> QED  BY <2>1, <2>2 DEF LoopInv
  <1>9. CASE UNCHANGED vars
    <2>1. events' = events
      BY <1>9 DEF vars, gpsVars
    <2>2. UNCHANGED <<value, link, bridge, batch, gpsSide>>
      BY <1>9 DEF vars
    <2>3. link' \in {"down", "up", "dead"} /\ events \in Nat
      BY <2>2 DEF LoopInv, LoopTypeOK, GpsInv, GpsTypeOK
    <2> QED  BY <1>0, <2>1, <2>2, <2>3, Aside
  <1> QED
    BY <1>1, <1>2, <1>3, <1>4, <1>5, <1>6, <1>7, <1>8, <1>9 DEF Next, Round

(* The invariant is inductive.                                             *)
THEOREM Invariance == Spec => []IInv
  <1>1. IInv /\ [Next]_vars => IInv'
    BY GpsStep, LoopStep DEF IInv
  <1> QED  BY InitInv, <1>1, PTL DEF Spec

(* The types of the feed's state: every count stays within its bound, and  *)
(* every timer within its interval.                                        *)
THEOREM TypeCorrect == Spec => []TypeOK
  <1>1. IInv => TypeOK
    BY DEF IInv, GpsInv, LoopInv, LoopTypeOK, TypeOK
  <1> QED  BY Invariance, <1>1, PTL

(* A message that says it has a fix has no later time than position.       *)
THEOREM FixCorrect == Spec => []FixIsNotBackdated
  <1>1. IInv => FixIsNotBackdated
    BY DEF IInv, GpsInv
  <1> QED  BY Invariance, <1>1, PTL

(* Every value consumed last was accepted by a send or waits for one.      *)
THEOREM NothingForgotten == Spec => []NoValueForgotten
  <1>1. IInv => NoValueForgotten
    BY DEF IInv, LoopInv
  <1> QED  BY Invariance, <1>1, PTL

(* Only values whose send was refused get older than the send interval and *)
(* one round of the loop.                                                  *)
THEOREM FreshCorrect == Spec => []FreshUnlessRefused
  <1>1. IInv => FreshUnlessRefused
    BY DEF IInv, LoopInv
  <1> QED  BY Invariance, <1>1, PTL
=============================================================================
