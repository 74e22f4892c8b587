------------------------ MODULE DeviceIdentityProofs ------------------------
(***************************************************************************)
(* Theorems about DeviceIdentity, for any request threads, identities and  *)
(* lists: a device keeps its first identity, and the bridge's copies agree *)
(* with the file.                                                          *)
(***************************************************************************)
EXTENDS DeviceIdentity, TLAPS

-----------------------------------------------------------------------------
(* The invariants.                                                         *)

\* Where a thread is in atomic_write().
Writing == {"open", "write", "rename", "unlink"}

(* Who writes has something to write, and what the portal saved last is    *)
(* in the file until an update truncates it.                               *)
WriterInv ==
  /\ \A t \in Threads : place[t] \in Writing => config[t] \in Configs
  /\ receiver # "idle" => merged \in Configs
  /\ saved # NoList => Parses(device) /\ device.members = saved

(* While the portal starts one thread alone is at work, for nobody's list, *)
(* and if it writes it writes what it has generated.                       *)
PortalInv ==
  /\ portal = "down" => \A t \in Threads : place[t] = "idle"
  /\ portal = "starting" => \A t, u \in Threads :
       place[t] # "idle" /\ place[u] # "idle" => t = u
  /\ portal # "up" => \A t \in Threads :
       /\ want[t] = NoList /\ place[t] # "hup"
       /\ place[t] \in Writing => creating[t]

(* Without a connection there is no web-socket thread.                     *)
LinkInv == bridge \in {"down", "exec"} => receiver = "idle" /\ ws_id = NotStarted

BaseInv == TypeOK /\ WriterInv /\ PortalInv /\ LinkInv

(* A thread that writes what it generated is that of main(): there has     *)
(* been no file, and the temporary file is its own.                        *)
Alone(t) ==
  /\ portal = "starting" /\ first = NoId
  /\ place[t] = "write" => fd[t] = "tmp" /\ tmp = Empty
  /\ place[t] = "rename" => tmp = config[t]

(* Every text on its way into the file, of whichever thread, carries the   *)
(* first identity; what a portal left in the temporary file may not, but   *)
(* it is truncated before it is renamed.                                   *)
Founded ==
  /\ first = NoId => device = NoFile /\ portal # "up" /\ receiver = "idle"
  /\ first # NoId => device # NoFile
  /\ Parses(device) => device.id = first
  /\ receiver # "idle" => merged.id = first
  /\ \A t \in Threads : place[t] \in Writing =>
       IF creating[t] THEN Alone(t)
       ELSE /\ portal = "up" /\ config[t].id = first
            /\ place[t] \in {"write", "rename"} /\ Parses(tmp) => tmp.id = first

FirstInv == ~torn /\ ~failed => Founded

(* What the bridge takes from the file.                                    *)
Said == IF Parses(device) THEN device ELSE NoFile

(* A change of the file the bridge will still hear of.                     *)
Due == reload_flag \/ \E t \in Threads : place[t] = "hup"

Agree == device_id = Said.id /\ team_members_ = Said.members

(* The copies agree, or a reload is due.                                   *)
Copied ==
  /\ receiver # "idle" => bridge = "loop"
  /\ bridge = "assign" => Due \/ loaded = Said
  /\ bridge = "register" => Due \/ Agree
  /\ bridge = "loop" =>
       \/ Due
       \/ /\ receiver \in {"idle", "open"} => Agree
          /\ receiver # "idle" => merged.id = device_id
          /\ receiver = "write" => linked /\ device = Empty
          /\ receiver = "assign" => device = merged
          /\ saved \notin {0, NoList} => offered = saved

CopyInv == ~apart => Copied

IInv == BaseInv /\ FirstInv /\ CopyInv

-----------------------------------------------------------------------------
(* What the proofs need of the constants.                                  *)
LEMMA Numbers ==
  /\ MaxIds \in Nat /\ MaxLists \in Nat
  /\ 0 \in Ids /\ 0 \in Lists
  /\ NoList \notin Lists /\ NotStarted \notin Ids /\ NoId \notin Ids
  BY DeviceIdentityAssumption
     DEF DeviceIdentityAssumption, Ids, Lists, NoList, NotStarted, NoId

\* What may be under a name.
Kinds == Configs \cup {NoFile, Empty, Mixed}

(* Configurations, and files that are none.                                *)
LEMMA Files ==
  /\ \A c \in Configs : /\ Parses(c) /\ c.id \in Ids /\ c.members \in Lists
                        /\ c \notin {NoFile, Empty, Mixed}
                        /\ \A l \in Lists : /\ [c EXCEPT !.members = l] \in Configs
                                            /\ [c EXCEPT !.members = l].id = c.id
  /\ ~Parses(NoFile) /\ ~Parses(Empty) /\ ~Parses(Mixed)
  /\ NoFile # Empty /\ NoFile # Mixed /\ Empty # Mixed
  /\ NoFile.id = 0 /\ NoFile.members = 0
  /\ \A i \in Ids, l \in Lists : /\ Config(i, l) \in Configs
                                 /\ Config(i, l).id = i /\ Config(i, l).members = l
  <1>1. /\ \A i, l : /\ Config(i, l).state = "json" /\ Config(i, l).id = i
                     /\ Config(i, l).members = l
        /\ NoFile.state = "absent" /\ Empty.state = "empty" /\ Mixed.state = "mixed"
        /\ NoFile.id = 0 /\ NoFile.members = 0
    BY DEF Config, NoFile, Empty, Mixed
  <1>2. \A i \in Ids, l \in Lists : Config(i, l) \in Configs
    BY DEF Configs
  <1>3. ASSUME NEW c \in Configs
        PROVE  /\ c.state = "json" /\ c.id \in Ids /\ c.members \in Lists
               /\ \A l \in Lists : [c EXCEPT !.members = l] = Config(c.id, l)
    <2> PICK i \in Ids, m \in Lists : c = Config(i, m)
      BY DEF Configs
    <2> QED  BY <1>1 DEF Config
  <1> QED  BY <1>1, <1>2, <1>3 DEF Parses

(* A text written into a file is there, or half of it is.                  *)
LEMMA WrittenFiles ==
  ASSUME NEW c, NEW text \in Configs, NEW d \in Written(c, text)
  PROVE  /\ d \in Kinds /\ d \in {text, Mixed} /\ d # NoFile
         /\ Parses(d) => d = text
         /\ c = Empty => d = text
  BY Files DEF Written, Kinds

(* The list held is that of a file that parses.                            *)
LEMMA HeldLists ==
  ASSUME NEW c \in Kinds
  PROVE  /\ Held(c) \in Lists \cup {NoList}
         /\ Held(c) # NoList => Parses(c) /\ c.members = Held(c)
  BY Files, Numbers DEF Held, Kinds

(* The types but for the Boolean ones.                                     *)
FileOf ==
  /\ device \in Kinds /\ tmp \in Kinds
  /\ ids \in Ids /\ lists \in Lists

PortalOf ==
  /\ portal \in {"down", "starting", "up"}
  /\ place \in [Threads -> {"idle", "read", "open", "write", "rename", "unlink", "hup"}]
  /\ want \in [Threads -> Lists \cup {NoList}]
  /\ config \in [Threads -> Configs \cup {NoFile}]
  /\ creating \in [Threads -> BOOLEAN]
  /\ fd \in [Threads -> {"none", "tmp", "file", "gone"}]

ReceiverOf ==
  /\ receiver \in {"idle", "open", "write", "assign"}
  /\ merged \in Configs \cup {NoFile}

BridgeOf ==
  /\ bridge \in {"down", "exec", "load", "assign", "register", "loop"}
  /\ loaded \in Configs \cup {NoFile}
  /\ device_id \in Ids
  /\ team_members_ \in Lists \cup {Garbled}
  /\ ws_id \in Ids \cup {NotStarted}

HistoryOf ==
  /\ saved \in Lists \cup {NoList}
  /\ offered \in Lists \cup {Garbled, NoList}
  /\ first \in Ids \cup {NoId}

Flags ==
  /\ linked \in BOOLEAN /\ reload_flag \in BOOLEAN
  /\ {apart, torn, failed} \subseteq BOOLEAN

(* The types in parts, the Boolean ones apart.                             *)
LEMMA Types ==
  TypeOK <=> FileOf /\ PortalOf /\ ReceiverOf /\ BridgeOf /\ HistoryOf /\ Flags
  BY Zenon DEF TypeOK, FileOf, PortalOf, ReceiverOf, BridgeOf, HistoryOf, Flags, Kinds

(* The Boolean variables stay so.                                          *)
LEMMA FlagsStep ==
  ASSUME Flags, [Next]_vars
  PROVE  Flags'
  <1> USE DEF Flags, fileVars, portalVars, receiverVars, bridgeVars, history
  <1>1. CASE \E t \in Threads : PortalStart(t) \/ BeginRequest(t) \/ ReadConfig(t)
    BY <1>1, Zenon DEF PortalStart, BeginRequest, ReadConfig
  <1>2. CASE \E t \in Threads : Generate(t) \/ OpenTmp(t) \/ SendHup(t)
    BY <1>2, Zenon DEF Generate, OpenTmp, SendHup
  <1>3. CASE \E t \in Threads : WriteFails(t) \/ RenameFails(t)
    BY <1>3, Zenon DEF WriteFails, RenameFails
  <1>4. CASE \E t \in Threads : WriteTmp(t)
    BY <1>4, Zenon DEF WriteTmp
  <1>5. CASE \E t \in Threads : Rename(t) \/ UnlinkTmp(t)
    BY <1>5, Zenon DEF Rename, UnlinkTmp
  <1>6. CASE PortalEnds \/ BridgeEnds \/ BridgeExec
    BY <1>6, Zenon DEF PortalEnds, BridgeEnds, BridgeExec
  <1>7. CASE Receiver
    BY <1>7, Zenon DEF Receiver, ReceiveMembers, Truncate, WriteUpdate, AssignUpdate
  <1>8. CASE MainThread
    <2>1. CASE BridgeInstall \/ TestFlag
      BY <2>1, Zenon DEF BridgeInstall, TestFlag
    <2>2. CASE Load \/ Assign \/ Register
      BY <2>2, Zenon DEF Load, Assign, Register
    <2> QED  BY <1>8, <2>1, <2>2 DEF MainThread
  <1>9. CASE UNCHANGED vars
    BY <1>9, Zenon DEF vars
  <1> QED
    BY <1>1, <1>2, <1>3, <1>4, <1>5, <1>6, <1>7, <1>8, <1>9, Zenon DEF Next, Request

-----------------------------------------------------------------------------
(* There is no file, and nobody runs, at first.                            *)
LEMMA InitIInv == Init => IInv
  <1> SUFFICES ASSUME Init PROVE IInv
    OBVIOUS
  <1>1. Flags
    BY Zenon DEF Init, Flags
  <1>2. FileOf /\ PortalOf /\ ReceiverOf /\ BridgeOf /\ HistoryOf
    BY Numbers DEF Init, FileOf, PortalOf, ReceiverOf, BridgeOf, HistoryOf, Kinds
  <1>3. WriterInv /\ PortalInv /\ LinkInv
    BY DEF Init, WriterInv, PortalInv, LinkInv, Writing
  <1>4. Founded
    BY Files DEF Init, Founded, Writing
  <1>5. Copied
    BY DEF Init, Copied
  <1> QED
    BY <1>1, <1>2, <1>3, <1>4, <1>5, Types DEF IInv, BaseInv, FirstInv, CopyInv

(* Every step of the portal is a move of one thread, whatever it does to   *)
(* the file.                                                               *)
Portal(t) == PortalStart(t) \/ BeginRequest(t) \/ Request(t)

ThreadsInv ==
  /\ PortalOf /\ PortalInv
  /\ \A t \in Threads : place[t] \in Writing => config[t] \in Configs

(* A thread that goes on leaves the others where they are.                 *)
Moves(t, p, w, c, b) ==
  /\ place' = [place EXCEPT ![t] = p] /\ want' = [want EXCEPT ![t] = w]
  /\ config' = [config EXCEPT ![t] = c] /\ creating' = [creating EXCEPT ![t] = b]

(* How a request goes on: over, or with its list in its configuration.     *)
LEMMA Continues ==
  ASSUME ThreadsInv, NEW t \in Threads, NEW c \in Configs, Continue(t, c)
  PROVE  \/ portal' = "up" /\ Moves(t, "idle", NoList, NoFile, FALSE)
         \/ /\ portal = "up" /\ portal' = "up"
            /\ \E d \in Configs : d.id = c.id /\ Moves(t, "open", want[t], d, FALSE)
  <1> USE DEF ThreadsInv
  <1>1. CASE want[t] = NoList
    BY <1>1 DEF Continue, Done, goto, Moves
  <1>2. CASE want[t] # NoList
    <2>1. portal = "up" /\ want[t] \in Lists
      BY <1>2 DEF PortalInv, PortalOf
    <2> DEFINE d == [c EXCEPT !.members = want[t]]
    <2>2. d \in Configs /\ d.id = c.id
      BY <2>1, Files
    <2>3. Moves(t, "open", want[t], d, FALSE) /\ portal' = portal
      BY <1>2 DEF Continue, goto, Moves, PortalOf
    <2> QED  BY <2>1, <2>2, <2>3
  <1> QED  BY <1>1, <1>2

(* The threads keep their types, and who writes has something to write.    *)
LEMMA ThreadsStep ==
  ASSUME FileOf, ThreadsInv, NEW t \in Threads, Portal(t)
  PROVE  ThreadsInv'
  <1> USE DEF ThreadsInv, Writing
  <1>1. CASE PortalStart(t) \/ BeginRequest(t)
    <2>1. /\ place[t] = "idle" /\ UNCHANGED <<config, creating, fd>>
          /\ place' = [place EXCEPT ![t] = "read"]
          /\ \/ portal = "down" /\ portal' = "starting" /\ want' = want
             \/ /\ portal = "up" /\ portal' = "up"
                /\ want' = want \/ \E l \in Lists : want' = [want EXCEPT ![t] = l]
      BY <1>1, Numbers
         DEF PortalStart, BeginRequest, goto, fileVars, PortalInv, FileOf, Lists
    <2>2. PortalOf'
      BY <2>1 DEF PortalOf
    <2>3. PortalInv'
      BY <2>1 DEF PortalInv, PortalOf
    <2> QED  BY <2>1, <2>2, <2>3 DEF PortalOf
  <1>2. ASSUME NEW c \in Configs, Continue(t, c), place[t] # "idle",
               fd' \in [Threads -> {"none", "tmp", "file", "gone"}]
        PROVE  ThreadsInv'
    <2>1. CASE portal' = "up" /\ Moves(t, "idle", NoList, NoFile, FALSE)
      BY <1>2, <2>1 DEF Moves, PortalOf, PortalInv
    <2>2. CASE /\ portal = "up" /\ portal' = "up"
               /\ \E d \in Configs : d.id = c.id /\ Moves(t, "open", want[t], d, FALSE)
      <3> PICK d \in Configs : Moves(t, "open", want[t], d, FALSE)
        BY <2>2
      <3>1. PortalOf'
        BY <1>2, <2>2 DEF Moves, PortalOf
      <3>2. PortalInv'
        BY <2>2 DEF PortalInv
      <3>3. \A u \in Threads : u # t => place'[u] = place[u] /\ config'[u] = config[u]
        BY DEF Moves, PortalOf
      <3>4. config'[t] \in Configs
        BY DEF Moves, PortalOf
      <3> QED  BY <3>1, <3>2, <3>3, <3>4
    <2> QED  BY <1>2, <2>1, <2>2, Continues
  <1>3. ASSUME place[t] # "idle", portal' = "up", fd' = fd,
               Moves(t, "idle", NoList, NoFile, FALSE)
        PROVE  ThreadsInv'
    BY <1>3 DEF Moves, PortalOf, PortalInv
  <1>4. ASSUME place[t] \in Writing, UNCHANGED <<portal, want, config, creating>>,
               NEW p \in {"write", "rename", "unlink"}, place' = [place EXCEPT ![t] = p],
               fd' \in [Threads -> {"none", "tmp", "file", "gone"}]
        PROVE  ThreadsInv'
    BY <1>4 DEF PortalOf, PortalInv
  <1>5. CASE ReadConfig(t)
    <2>1. device \in Configs
      BY <1>5, Files DEF ReadConfig, FileOf, Kinds
    <2> QED  BY <1>2, <1>5, <2>1 DEF ReadConfig, PortalOf
  <1>6. CASE Generate(t)
    <2>1. /\ place[t] = "read" /\ ids < MaxIds /\ UNCHANGED <<portal, want, fd>>
          /\ config' = [config EXCEPT ![t] = Config(ids + 1, 0)]
          /\ place' = [place EXCEPT ![t] = "open"]
          /\ creating' = [creating EXCEPT ![t] = TRUE]
      BY <1>6 DEF Generate, goto
    <2>2. Config(ids + 1, 0) \in Configs
      BY <2>1, Files, Numbers DEF FileOf, Ids
    <2>3. PortalOf'
      BY <2>1, <2>2 DEF PortalOf
    <2>4. PortalInv'
      BY <2>1 DEF PortalOf, PortalInv
    <2> QED  BY <2>1, <2>2, <2>3, <2>4 DEF PortalOf
  <1>7. CASE OpenTmp(t) \/ WriteTmp(t) \/ WriteFails(t) \/ RenameFails(t)
    <2>1. /\ place[t] \in Writing /\ UNCHANGED <<portal, want, config, creating>>
          /\ \E p \in {"write", "rename", "unlink"} : place' = [place EXCEPT ![t] = p]
      BY <1>7 DEF OpenTmp, WriteTmp, WriteFails, RenameFails, goto
    <2>2. fd' \in [Threads -> {"none", "tmp", "file", "gone"}]
      BY <1>7 DEF OpenTmp, WriteTmp, WriteFails, RenameFails, PortalOf
    <2> QED  BY <1>4, <2>1, <2>2
  <1>8. CASE Rename(t)
    <2>1. /\ place[t] = "rename" /\ config[t] \in Configs
          /\ fd' \in [Threads -> {"none", "tmp", "file", "gone"}]
      BY <1>8 DEF Rename, PortalOf
    <2>2. CASE creating[t]
      BY <1>2, <1>8, <2>1, <2>2, Zenon DEF Rename
    <2>3. CASE ~creating[t]
      <3>1. /\ place' = [place EXCEPT ![t] = "hup"] /\ UNCHANGED <<portal, want, config, creating>>
        BY <1>8, <2>3, Zenon DEF Rename, goto
      <3>2. portal = "up"
        BY <2>1, <2>3 DEF PortalInv, PortalOf
      <3> QED  BY <2>1, <3>1, <3>2 DEF PortalOf, PortalInv
    <2> QED  BY <2>2, <2>3
  <1>9. CASE UnlinkTmp(t)
    <2>1. /\ place[t] = "unlink" /\ config[t] \in Configs
          /\ fd' \in [Threads -> {"none", "tmp", "file", "gone"}]
      BY <1>9 DEF UnlinkTmp, PortalOf
    <2>2. CASE creating[t]
      BY <1>2, <1>9, <2>1, <2>2, Zenon DEF UnlinkTmp
    <2>3. CASE ~creating[t]
      <3>1. portal' = "up" /\ Moves(t, "idle", NoList, NoFile, FALSE)
        BY <1>9, <2>3, Zenon DEF UnlinkTmp, Done, goto, Moves
      <3> QED  BY <2>1, <3>1 DEF Moves, PortalOf, PortalInv
    <2> QED  BY <2>2, <2>3
  <1>10. CASE SendHup(t)
    BY <1>3, <1>10 DEF SendHup, Done, goto, Moves
  <1> QED
    BY <1>1, <1>5, <1>6, <1>7, <1>8, <1>9, <1>10 DEF Portal, Request

FilesInv ==
  /\ FileOf /\ ReceiverOf /\ HistoryOf
  /\ receiver # "idle" => merged \in Configs
  /\ saved # NoList => Parses(device) /\ device.members = saved

(* The first identity is that of a configuration.                          *)
LEMMA NotedFirst ==
  ASSUME device' \in Kinds, first \in Ids \cup {NoId}, Noted
  PROVE  first' \in Ids \cup {NoId}
  BY Files DEF Noted, Kinds

(* Whatever the portal does to the file, a list it saves is in it.         *)
LEMMA FilesStep ==
  ASSUME FilesInv, ThreadsInv, NEW t \in Threads, Portal(t)
  PROVE  FilesInv'
  <1> USE Numbers DEF FilesInv
  <1>1. UNCHANGED <<receiver, merged, offered>>
    BY DEF Portal, PortalStart, BeginRequest, Request, ReadConfig, Generate, OpenTmp, WriteTmp,
       WriteFails, Rename, RenameFails, UnlinkTmp, SendHup, receiverVars, history
  <1>2. ids' \in Ids /\ lists' \in Lists
    <2>1. ids' \in {ids} \cup (IF ids < MaxIds THEN {ids + 1} ELSE {})
      BY DEF Portal, PortalStart, BeginRequest, Request, ReadConfig, Generate, OpenTmp, WriteTmp,
         WriteFails, Rename, RenameFails, UnlinkTmp, SendHup, fileVars
    <2>2. lists' \in {lists} \cup (IF lists < MaxLists THEN {lists + 1} ELSE {})
      BY DEF Portal, PortalStart, BeginRequest, Request, ReadConfig, Generate, OpenTmp, WriteTmp,
         WriteFails, Rename, RenameFails, UnlinkTmp, SendHup, fileVars
    <2> QED  BY <2>1, <2>2 DEF FileOf, Ids, Lists
  <1>3. CASE WriteTmp(t)
    <2>1. config[t] \in Configs
      BY <1>3 DEF WriteTmp, ThreadsInv, Writing
    <2>2. tmp' \in Kinds
      BY <1>3, <2>1, WrittenFiles DEF WriteTmp, FileOf
    <2>3. CASE fd[t] = "file"
      <3>1. device' \in Written(device, config[t]) /\ saved' = Held(device') /\ Noted
        BY <1>3, <2>3 DEF WriteTmp
      <3>2. device' \in Kinds
        BY <2>1, <3>1, WrittenFiles
      <3> QED
        BY <1>1, <1>2, <2>2, <3>1, <3>2, HeldLists, NotedFirst DEF FileOf, ReceiverOf, HistoryOf
    <2>4. CASE fd[t] # "file"
      <3>1. device' = device /\ saved' = saved /\ Noted
        BY <1>3, <2>4 DEF WriteTmp
      <3> QED
        BY <1>1, <1>2, <2>2, <3>1, NotedFirst DEF FileOf, ReceiverOf, HistoryOf, Parses
    <2> QED  BY <2>3, <2>4
  <1>4. CASE Rename(t)
    <2>1. device' = tmp /\ tmp' = NoFile /\ saved' = Held(tmp) /\ Noted
      BY <1>4 DEF Rename
    <2>2. device' \in Kinds
      BY <2>1 DEF FileOf
    <2>3. /\ saved' \in Lists \cup {NoList}
          /\ saved' # NoList => Parses(device') /\ device'.members = saved'
      BY <2>1, <2>2, HeldLists
    <2> QED
      BY <1>1, <1>2, <2>1, <2>2, <2>3, NotedFirst DEF FileOf, ReceiverOf, HistoryOf, Kinds, Parses
  <1>5. CASE ~WriteTmp(t) /\ ~Rename(t)
    <2>1. /\ UNCHANGED <<device, saved, first>>
          /\ tmp' \in {tmp, Empty, NoFile}
      BY <1>5 DEF Portal, PortalStart, BeginRequest, Request, ReadConfig, Generate, OpenTmp,
         WriteFails, RenameFails, UnlinkTmp, SendHup, fileVars, history
    <2> QED  BY <1>1, <1>2, <2>1 DEF FileOf, ReceiverOf, HistoryOf, Kinds, Parses
  <1> QED  BY <1>3, <1>4, <1>5

CoreOf == FilesInv /\ ThreadsInv

(* The web-socket thread puts in the file what it has merged.              *)
LEMMA ReceiverCore ==
  ASSUME CoreOf, Receiver
  PROVE  CoreOf'
  <1>1. UNCHANGED <<portal, place, want, config, creating, fd, ids, tmp, offered>>
    BY DEF Receiver, ReceiveMembers, Truncate, WriteUpdate, AssignUpdate, portalVars, threadVars,
       fileVars, history
  <1>2. ThreadsInv'
    BY <1>1 DEF CoreOf, ThreadsInv, PortalOf, PortalInv
  <1>3. FilesInv'
    <2> USE Numbers DEF CoreOf, FilesInv, FileOf, ReceiverOf, HistoryOf
    <2>1. CASE ReceiveMembers
      <3>1. /\ receiver' = "open" /\ lists < MaxLists /\ lists' = lists + 1
            /\ \E l \in {0, lists + 1} : merged' = Merged(l)
            /\ UNCHANGED <<device, saved, first>>
        BY <2>1 DEF ReceiveMembers
      <3>2. lists' \in Lists
        BY <3>1 DEF Lists
      <3>3. merged' \in Configs
        BY <3>1, <3>2, Files DEF Merged, Kinds
      <3> QED  BY <1>1, <3>1, <3>2, <3>3 DEF Parses
    <2>2. CASE Truncate
      BY <1>1, <2>2 DEF Truncate, Kinds
    <2>3. CASE WriteUpdate
      <3>1. /\ receiver = "write" /\ receiver' = "assign" /\ merged' = merged /\ lists' = lists
            /\ Noted
            /\ \/ device' \in Written(device, merged) /\ saved' = NoList
               \/ device' = device /\ saved' = saved
        BY <2>3 DEF WriteUpdate
      <3>2. device' \in Kinds
        BY <3>1, WrittenFiles
      <3>3. saved' # NoList => Parses(device') /\ device'.members = saved'
        BY <3>1
      <3> QED  BY <1>1, <3>1, <3>2, <3>3, NotedFirst DEF Parses
    <2>4. CASE AssignUpdate
      BY <1>1, <2>4 DEF AssignUpdate, fileVars, history, Parses
    <2> QED  BY <2>1, <2>2, <2>3, <2>4 DEF Receiver
  <1> QED  BY <1>2, <1>3 DEF CoreOf

(* When the portal ends nobody is at work in it.                           *)
LEMMA PortalEndsCore ==
  ASSUME CoreOf, PortalEnds
  PROVE  CoreOf'
  <1>1. ThreadsInv'
    BY DEF PortalEnds, ThreadsInv, PortalOf, PortalInv, Writing
  <1>2. FilesInv'
    BY DEF CoreOf, PortalEnds, fileVars, receiverVars, FilesInv, FileOf, ReceiverOf, HistoryOf,
       Parses
  <1> QED  BY <1>1, <1>2 DEF CoreOf

(* Every step of the bridge's main thread, or for it.                      *)
Bridge == BridgeEnds \/ BridgeExec \/ MainThread

(* The bridge writes nothing; it may drop what the web-socket thread had.  *)
LEMMA BridgeCore ==
  ASSUME CoreOf, BridgeOf, Bridge
  PROVE  CoreOf'
  <1>1. UNCHANGED <<device, tmp, ids, lists, portal, place, want, config, creating, fd, saved,
                    first>>
    BY DEF Bridge, BridgeEnds, BridgeExec, MainThread, BridgeInstall, TestFlag, Load, Assign,
       Register, fileVars, portalVars, threadVars, history
  <1>2. \/ UNCHANGED <<receiver, linked, merged>>
        \/ receiver' = "idle" /\ linked' = FALSE /\ merged' = NoFile
    BY DEF Bridge, BridgeEnds, BridgeExec, MainThread, BridgeInstall, TestFlag, Load, Assign,
       Register, receiverVars
  <1>3. offered' \in Lists \cup {Garbled, NoList}
    <2>1. CASE Register
      BY <2>1 DEF Register, MayBe, BridgeOf, HistoryOf, CoreOf, FilesInv
    <2> QED
      BY <2>1 DEF Bridge, BridgeEnds, BridgeExec, MainThread, BridgeInstall, TestFlag, Load, Assign,
         history, HistoryOf, CoreOf, FilesInv
  <1>4. ThreadsInv'
    BY <1>1 DEF CoreOf, ThreadsInv, PortalOf, PortalInv
  <1>5. FilesInv'
    BY <1>1, <1>2, <1>3 DEF CoreOf, FilesInv, FileOf, ReceiverOf, HistoryOf, Parses
  <1> QED  BY <1>4, <1>5 DEF CoreOf

(* What the bridge has of the file, and when there is a web-socket thread. *)
LEMMA LinkStep ==
  ASSUME CoreOf, BridgeOf, LinkInv, Next
  PROVE  BridgeOf' /\ LinkInv'
  <1> USE Numbers DEF BridgeOf, LinkInv
  <1>1. CASE \E t \in Threads : Portal(t)
    <2>1. /\ UNCHANGED <<receiver, loaded, device_id, team_members_, ws_id>>
          /\ bridge' = bridge \/ (bridge = "exec" /\ bridge' = "down")
      BY <1>1 DEF Portal, PortalStart, BeginRequest, Request, ReadConfig, Generate, OpenTmp,
         WriteTmp, WriteFails, Rename, RenameFails, UnlinkTmp, SendHup, receiverVars, bridgeVars
    <2> QED  BY <2>1
  <1>2. CASE PortalEnds
    BY <1>2 DEF PortalEnds, receiverVars, bridgeVars
  <1>3. CASE Receiver
    <2>1. UNCHANGED <<bridge, loaded, device_id, ws_id>>
      BY <1>3 DEF Receiver, ReceiveMembers, Truncate, WriteUpdate, AssignUpdate, bridgeVars
    <2>2. team_members_' \in Lists \cup {Garbled}
      <3>1. CASE AssignUpdate
        <4>1. merged.members \in Lists
          BY Files DEF CoreOf, FilesInv, ReceiverOf
        <4> QED  BY <3>1, <4>1 DEF AssignUpdate, MayBe
      <3> QED
        BY <1>3, <3>1 DEF Receiver, ReceiveMembers, Truncate, WriteUpdate, bridgeVars
    <2>3. bridge \notin {"down", "exec"}
      BY <1>3 DEF Receiver, ReceiveMembers, Truncate, WriteUpdate, AssignUpdate
    <2> QED  BY <2>1, <2>2, <2>3
  <1>4. CASE BridgeEnds \/ BridgeExec
    BY <1>4 DEF BridgeEnds, BridgeExec, receiverVars
  <1>5. CASE BridgeInstall \/ TestFlag \/ Register
    BY <1>5 DEF BridgeInstall, TestFlag, Register
  <1>6. CASE Load \/ Assign
    <2>1. loaded.id \in Ids /\ loaded.members \in Lists
      BY Files
    <2>2. Parses(device) => device \in Configs
      BY Files DEF CoreOf, FilesInv, FileOf, Kinds
    <2> QED  BY <1>6, <2>1, <2>2, Files DEF Load, Assign, MayBe
  <1> QED  BY <1>1, <1>2, <1>3, <1>4, <1>5, <1>6 DEF Next, Portal, MainThread

(* Types, writers, portal and connection together.                         *)
LEMMA BaseParts ==
  BaseInv <=> CoreOf /\ BridgeOf /\ LinkInv /\ Flags
  BY Types, Zenon DEF BaseInv, CoreOf, FilesInv, ThreadsInv, WriterInv

(* They hold after every step.                                             *)
LEMMA BaseStep ==
  ASSUME BaseInv, [Next]_vars
  PROVE  BaseInv'
  <1>1. CoreOf /\ BridgeOf /\ LinkInv /\ Flags
    BY BaseParts
  <1>2. Flags'
    BY <1>1, FlagsStep
  <1>3. CASE Next
    <2>1. ASSUME NEW t \in Threads, Portal(t) PROVE CoreOf'
      <3>1. FilesInv' /\ ThreadsInv'
        BY <1>1, <2>1, FilesStep, ThreadsStep DEF CoreOf, FilesInv
      <3> QED  BY <3>1 DEF CoreOf
    <2>2. CoreOf'
      BY <1>1, <1>3, <2>1, ReceiverCore, PortalEndsCore, BridgeCore DEF Next, Portal, Bridge
    <2>3. BridgeOf' /\ LinkInv'
      BY <1>1, <1>3, LinkStep
    <2> QED  BY <1>2, <2>2, <2>3, Types, Zenon
             DEF BaseInv, CoreOf, FilesInv, ThreadsInv, WriterInv, TypeOK, FileOf, PortalOf,
                 ReceiverOf, BridgeOf, HistoryOf, Flags, Kinds
  <1>4. CASE UNCHANGED vars
    <2>1. FilesInv' /\ ThreadsInv' /\ BridgeOf' /\ LinkInv'
      BY <1>1, <1>4 DEF vars, fileVars, portalVars, threadVars, receiverVars, bridgeVars, history,
         CoreOf, FilesInv, ThreadsInv, FileOf, PortalOf, PortalInv, ReceiverOf, HistoryOf, BridgeOf,
         LinkInv, Parses
    <2> QED  BY <1>2, <2>1, Types, Zenon
             DEF BaseInv, FilesInv, ThreadsInv, WriterInv, TypeOK, FileOf, PortalOf,
                 ReceiverOf, BridgeOf, HistoryOf, Flags, Kinds
  <1> QED  BY <1>3, <1>4

-----------------------------------------------------------------------------
(* The identity.                                                           *)

(* The first identity is noted once.                                       *)
LEMMA NotedOnce ==
  ASSUME Noted
  PROVE  /\ first # NoId \/ ~Parses(device') => first' = first
         /\ first = NoId /\ Parses(device') => first' = device'.id
  BY Zenon DEF Noted

(* Only the first start of the portal finds no file, and it is alone; the  *)
(* texts of the others carry the identity they have found.                 *)
LEMMA RequestFounded ==
  ASSUME BaseInv, Founded, NEW t \in Threads, Portal(t), ~torn', ~failed'
  PROVE  Founded'
  <1>1. FilesInv /\ FileOf /\ ThreadsInv /\ PortalOf /\ PortalInv
    BY BaseParts DEF CoreOf, FilesInv, ThreadsInv
  <1>2. UNCHANGED <<receiver, merged>>
    BY DEF Portal, PortalStart, BeginRequest, Request, ReadConfig, Generate, OpenTmp, WriteTmp,
       WriteFails, Rename, RenameFails, UnlinkTmp, SendHup, receiverVars
  <1>3. \A u \in Threads : creating[u] \in BOOLEAN
    BY <1>1 DEF PortalOf
  <1>4. CASE PortalStart(t) \/ BeginRequest(t)
    <2>1. /\ place' = [place EXCEPT ![t] = "read"]
          /\ UNCHANGED <<device, tmp, first, config, creating, fd>>
          /\ portal' = portal \/ (portal = "down" /\ portal' = "starting")
      BY <1>4 DEF PortalStart, BeginRequest, goto, fileVars, history
    <2>2. portal = "down" => \A u \in Threads : place[u] = "idle"
      BY <1>1 DEF PortalInv
    <2> QED  BY <1>1, <1>2, <2>1, <2>2 DEF Founded, Alone, PortalOf, Writing, Parses
  <1>5. ASSUME place[t] = "read" \/ ~creating[t], place[t] # "idle", first # NoId,
               UNCHANGED <<device, first>>, tmp' \in {tmp, NoFile}, portal' = "up",
               NEW c \in Configs, c.id = first,
               \/ \E w : Moves(t, "idle", w, NoFile, FALSE)
               \/ \E w : Moves(t, "open", w, c, FALSE)
        PROVE  Founded'
    <2>1. \A u \in Threads : u # t => /\ place'[u] = place[u] /\ config'[u] = config[u]
                                      /\ creating'[u] = creating[u]
      BY <1>1, <1>5 DEF Moves, PortalOf
    <2>2. place'[t] \in Writing => place'[t] = "open" /\ config'[t] = c /\ ~creating'[t]
      BY <1>1, <1>5 DEF Moves, PortalOf, Writing
    <2>3. \A u \in Threads : place[u] \in Writing => ~creating[u] /\ config[u].id = first
      BY <1>5 DEF Founded, Alone
    <2>4. ~Parses(NoFile)
      BY Files
    <2> QED  BY <1>2, <1>5, <2>1, <2>2, <2>3, <2>4 DEF Founded, Parses
  <1>6. CASE ReadConfig(t)
    <2>1. /\ place[t] = "read" /\ Parses(device) /\ Continue(t, device)
          /\ UNCHANGED <<device, tmp, first>>
      BY <1>6 DEF ReadConfig, fileVars, history
    <2>2. device \in Configs /\ device.id = first /\ device # NoFile
      BY <1>1, <2>1, Files DEF FileOf, Kinds, Founded
    <2>3. first # NoId
      BY <2>2 DEF Founded
    <2>4. \/ portal' = "up" /\ Moves(t, "idle", NoList, NoFile, FALSE)
          \/ /\ portal = "up" /\ portal' = "up"
             /\ \E d \in Configs : d.id = device.id /\ Moves(t, "open", want[t], d, FALSE)
      BY <1>1, <2>1, <2>2, Continues
    <2> QED  BY <1>5, <2>1, <2>2, <2>3, <2>4
  <1>7. CASE Generate(t)
    <2>1. /\ place[t] = "read" /\ ~Parses(device)
          /\ place' = [place EXCEPT ![t] = "open"]
          /\ creating' = [creating EXCEPT ![t] = TRUE]
          /\ UNCHANGED <<device, tmp, portal, fd, first>>
          /\ \A u \in Threads : u # t => config'[u] = config[u]
      BY <1>1, <1>7 DEF Generate, goto, PortalOf
    <2>2. device = NoFile
      BY <1>7, Zenon DEF Generate
    <2>3. first = NoId /\ portal = "starting"
      BY <1>1, <2>1, <2>2 DEF Founded, PortalOf, PortalInv
    <2>4. \A u \in Threads : u # t => place[u] = "idle"
      BY <1>1, <2>1, <2>3 DEF PortalInv
    <2>5. place'[t] = "open" /\ \A u \in Threads : u # t => place'[u] = "idle"
      BY <1>1, <2>1, <2>4 DEF PortalOf
    <2>6. creating'[t]
      BY <1>1, <2>1 DEF PortalOf
    <2> QED  BY <1>2, <2>1, <2>2, <2>3, <2>5, <2>6 DEF Founded, Alone, Writing, Parses
  <1>9. CASE OpenTmp(t)
    <2>1. /\ place[t] = "open" /\ tmp' = Empty /\ place' = [place EXCEPT ![t] = "write"]
          /\ UNCHANGED <<device, portal, config, creating, first>> /\ fd'[t] = "tmp"
      BY <1>1, <1>9 DEF OpenTmp, goto, history, PortalOf
    <2>3. CASE creating[t]
      <3>1. portal = "starting" /\ first = NoId
        BY <2>1, <2>3 DEF Founded, Alone, Writing
      <3>2. \A u \in Threads : u # t => place'[u] = "idle"
        BY <1>1, <2>1, <3>1 DEF PortalInv, PortalOf
      <3>3. place'[t] = "write"
        BY <1>1, <2>1 DEF PortalOf
      <3> QED  BY <1>2, <2>1, <2>3, <3>1, <3>2, <3>3 DEF Founded, Alone, Writing, Parses
    <2>4. CASE ~creating[t]
      <3>1. portal = "up" /\ first # NoId /\ config[t].id = first
        BY <2>1, <2>4 DEF Founded, Writing
      <3>2. \A u \in Threads : place[u] \in Writing => ~creating[u] /\ config[u].id = first
        BY <3>1 DEF Founded, Alone
      <3>3. \A u \in Threads : place'[u] \in Writing => place[u] \in Writing
        BY <1>1, <2>1 DEF PortalOf, Writing
      <3>4. ~Parses(tmp')
        BY <2>1, Files
      <3> QED  BY <1>2, <2>1, <3>1, <3>2, <3>3, <3>4 DEF Founded, Parses
    <2> QED  BY <1>3, <2>3, <2>4
  <1>10. CASE WriteTmp(t)
    <2>1. /\ place[t] = "write" /\ place' = [place EXCEPT ![t] = "rename"]
          /\ UNCHANGED <<portal, config, creating>> /\ Noted
      BY <1>10 DEF WriteTmp, goto
    <2>2. config[t] \in Configs
      BY <1>1, <2>1 DEF ThreadsInv, Writing
    <2>3. tmp' = tmp \/ (fd[t] = "tmp" /\ tmp' \in Written(tmp, config[t]))
      BY <1>10 DEF WriteTmp
    <2>4. device' = device \/ (fd[t] = "file" /\ device' \in {config[t], Mixed})
      BY <1>10, <2>2, WrittenFiles DEF WriteTmp
    <2>5. CASE creating[t]
      <3>1. first = NoId /\ portal = "starting" /\ fd[t] = "tmp" /\ tmp = Empty
        BY <2>1, <2>5 DEF Founded, Alone, Writing
      <3>2. device' = device /\ device = NoFile
        BY <2>4, <3>1 DEF Founded
      <3>3. first' = first
        BY <2>1, <3>1, <3>2, NotedOnce, Files
      <3>4. tmp' = config[t]
        BY <1>10, <2>2, <3>1, WrittenFiles DEF WriteTmp
      <3>5. \A u \in Threads : u # t => place'[u] = "idle"
        BY <1>1, <2>1, <3>1 DEF PortalInv, PortalOf
      <3>6. place'[t] = "rename"
        BY <1>1, <2>1 DEF PortalOf
      <3> QED
        BY <1>2, <2>1, <2>5, <3>1, <3>2, <3>3, <3>4, <3>5, <3>6
           DEF Founded, Alone, Writing, Parses
    <2>6. CASE ~creating[t]
      <3>1. portal = "up" /\ first # NoId /\ config[t].id = first
        BY <2>1, <2>6 DEF Founded, Writing
      <3>2. first' = first
        BY <2>1, <3>1, NotedOnce
      <3>3. \A u \in Threads : place[u] \in Writing => ~creating[u] /\ config[u].id = first
        BY <3>1 DEF Founded, Alone
      <3>4. Parses(tmp) => tmp.id = first
        BY <2>1, <2>6 DEF Founded, Writing
      <3>5. Parses(tmp') => tmp'.id = first
        BY <2>2, <2>3, <3>1, <3>4, WrittenFiles DEF Parses
      <3>6. device' # NoFile /\ (Parses(device') => device'.id = first)
        BY <2>2, <2>4, <3>1, Files DEF Founded, Parses
      <3>7. \A u \in Threads : place'[u] \in Writing => place[u] \in Writing
        BY <1>1, <2>1 DEF PortalOf, Writing
      <3> QED  BY <1>2, <2>1, <3>1, <3>2, <3>3, <3>5, <3>6, <3>7 DEF Founded
    <2> QED  BY <1>3, <2>5, <2>6
  <1>11. CASE WriteFails(t) \/ RenameFails(t)
    <2>1. /\ place[t] \in Writing /\ place' = [place EXCEPT ![t] = "unlink"]
          /\ UNCHANGED <<device, tmp, portal, config, creating, first>>
          /\ \A u \in Threads : u # t => fd'[u] = fd[u]
      BY <1>1, <1>11
         DEF WriteFails, RenameFails, goto, fileVars, history, Writing, PortalOf
    <2>2. /\ place'[t] = "unlink"
          /\ \A u \in Threads : u # t => place'[u] = place[u]
      BY <1>1, <2>1 DEF PortalOf
    <2> QED  BY <1>2, <2>1, <2>2 DEF Founded, Alone, Parses, Writing
  <1>12. CASE Rename(t)
    <2>1. /\ place[t] = "rename" /\ device' = tmp /\ tmp' = NoFile /\ tmp # NoFile /\ Noted
      BY <1>12 DEF Rename
    <2>2. config[t] \in Configs
      BY <1>1, <2>1 DEF ThreadsInv, Writing
    <2>3. CASE creating[t]
      <3>1. first = NoId /\ portal = "starting" /\ device' = config[t]
        BY <2>1, <2>3 DEF Founded, Alone, Writing
      <3>2. Parses(device') /\ first' = device'.id /\ first' # NoId /\ receiver = "idle"
        BY <2>1, <2>2, <3>1, NotedOnce, Files, Numbers DEF Founded
      <3>3. Continue(t, config[t])
        BY <1>12, <2>3, Zenon DEF Rename
      <3>4. portal' = "up" /\ Moves(t, "idle", NoList, NoFile, FALSE)
        BY <1>1, <2>2, <3>1, <3>3, Continues
      <3>5. \A u \in Threads : place'[u] = "idle"
        BY <1>1, <2>1, <3>1, <3>4 DEF Moves, PortalInv, PortalOf
      <3> QED  BY <1>2, <2>1, <3>1, <3>2, <3>4, <3>5 DEF Founded, Writing
    <2>4. CASE ~creating[t]
      <3>1. /\ portal = "up" /\ first # NoId /\ (Parses(tmp) => tmp.id = first)
        BY <2>1, <2>4 DEF Founded, Writing
      <3>2. /\ place' = [place EXCEPT ![t] = "hup"] /\ UNCHANGED <<portal, config, creating>>
        BY <1>12, <2>4, Zenon DEF Rename, goto
      <3>3. first' = first
        BY <2>1, <3>1, NotedOnce
      <3>4. \A u \in Threads : place[u] \in Writing => ~creating[u] /\ config[u].id = first
        BY <3>1 DEF Founded, Alone
      <3>5. \A u \in Threads : place'[u] \in Writing => place[u] \in Writing
        BY <1>1, <3>2 DEF PortalOf, Writing
      <3>6. ~Parses(tmp') /\ (Parses(device') => device'.id = first)
        BY <2>1, <3>1, Files
      <3> QED
        BY <1>2, <2>1, <3>1, <3>2, <3>3, <3>4, <3>5, <3>6 DEF Founded
    <2> QED  BY <1>3, <2>3, <2>4
  <1>13. CASE UnlinkTmp(t)
    <2>1. place[t] = "unlink" /\ tmp' = NoFile /\ UNCHANGED <<device, first>>
      BY <1>13 DEF UnlinkTmp
    <2>2. ~creating[t] \/ portal # "starting"
      BY <1>13, Zenon DEF UnlinkTmp
    <2>3. ~creating[t] /\ portal = "up" /\ first # NoId
      BY <1>3, <2>1, <2>2 DEF Founded, Alone, Writing
    <2>4. portal' = "up" /\ Moves(t, "idle", NoList, NoFile, FALSE)
      BY <1>13, <2>3, Zenon DEF UnlinkTmp, Done, goto, Moves
    <2>5. config[t] \in Configs /\ config[t].id = first
      BY <1>1, <2>1, <2>3 DEF ThreadsInv, Founded, Writing
    <2> QED  BY <1>5, <2>1, <2>3, <2>4, <2>5
  <1>14. CASE SendHup(t)
    <2>1. /\ place[t] = "hup" /\ portal' = "up" /\ Moves(t, "idle", NoList, NoFile, FALSE)
          /\ UNCHANGED <<device, tmp, first, fd>>
      BY <1>14 DEF SendHup, Done, goto, fileVars, history, Moves
    <2>2. portal = "up"
      BY <1>1, <2>1 DEF PortalInv
    <2>3. \A u \in Threads : place'[u] \in Writing =>
            /\ place[u] = place'[u] /\ config'[u] = config[u] /\ creating'[u] = creating[u]
      BY <1>1, <2>1 DEF Moves, PortalOf, Writing
    <2> QED  BY <1>2, <2>1, <2>2, <2>3 DEF Founded, Alone, Parses
  <1> QED
    BY <1>4, <1>6, <1>7, <1>9, <1>10, <1>11, <1>12, <1>13, <1>14 DEF Portal, Request

(* Nobody but the first start finds the name free.                         *)
LEMMA FirstStep ==
  ASSUME BaseInv, FirstInv, Next
  PROVE  FirstInv'
  <1> SUFFICES ASSUME ~torn', ~failed' PROVE Founded'
    BY DEF FirstInv
  <1>1. ~torn /\ ~failed
    <2>1. CASE \E t \in Threads : Portal(t)
      <3> PICK t \in Threads : Portal(t)
        BY <2>1
      <3>1. torn' \/ ~torn
        BY Zenon DEF Portal, PortalStart, BeginRequest, Request, ReadConfig, Generate, OpenTmp,
           WriteTmp, WriteFails, Rename, RenameFails, UnlinkTmp, SendHup, history
      <3>2. failed' \/ ~failed
        BY Zenon DEF Portal, PortalStart, BeginRequest, Request, ReadConfig, Generate, OpenTmp,
           WriteTmp, WriteFails, Rename, RenameFails, UnlinkTmp, SendHup, history
      <3> QED  BY <3>1, <3>2
    <2>2. CASE Receiver \/ PortalEnds \/ BridgeEnds \/ BridgeExec \/ MainThread
      <3>1. torn' \/ ~torn
        BY <2>2, Zenon DEF Receiver, ReceiveMembers, Truncate, WriteUpdate, AssignUpdate,
           PortalEnds, BridgeEnds, BridgeExec, MainThread, BridgeInstall, TestFlag, Load, Assign,
           Register, history
      <3>2. failed' \/ ~failed
        BY <2>2, Zenon DEF Receiver, ReceiveMembers, Truncate, WriteUpdate, AssignUpdate,
           PortalEnds, BridgeEnds, BridgeExec, MainThread, BridgeInstall, TestFlag, Load, Assign,
           Register, history
      <3> QED  BY <3>1, <3>2
    <2> QED  BY <2>1, <2>2 DEF Next, Portal
  <1>2. Founded /\ CoreOf
    BY <1>1, BaseParts DEF FirstInv
  <1>3. ASSUME UNCHANGED <<device, tmp, first, portal, place, config, creating, fd>>,
               receiver' = "idle" \/ (receiver' = receiver /\ merged' = merged)
        PROVE  Founded'
    BY <1>2, <1>3 DEF Founded, Alone, Parses
  <1>4. CASE PortalEnds
    <2>1. /\ UNCHANGED <<device, tmp, first, receiver, merged>>
          /\ portal' = "down" /\ \A t \in Threads : place'[t] = "idle"
      BY <1>4 DEF PortalEnds, fileVars, receiverVars
    <2> QED  BY <1>2, <2>1 DEF Founded, Writing, Parses
  <1>5. CASE Bridge \/ AssignUpdate
    <2>1. UNCHANGED <<device, tmp, first, portal, place, config, creating, fd>>
      BY <1>5 DEF Bridge, BridgeEnds, BridgeExec, MainThread, BridgeInstall, TestFlag, Load,
         Assign, Register, AssignUpdate, fileVars, portalVars, threadVars, history
    <2>2. receiver' = "idle" \/ (receiver' = receiver /\ merged' = merged)
      BY <1>5 DEF Bridge, BridgeEnds, BridgeExec, MainThread, BridgeInstall, TestFlag, Load,
         Assign, Register, AssignUpdate, receiverVars
    <2> QED  BY <1>3, <2>1, <2>2
  <1>6. CASE ReceiveMembers \/ Truncate \/ WriteUpdate
    <2>1. UNCHANGED <<tmp, portal, place, config, creating, fd>>
      BY <1>6 DEF ReceiveMembers, Truncate, WriteUpdate, portalVars, threadVars
    <2>2. ASSUME first # NoId, first' = first, device' # NoFile,
                 Parses(device') => device'.id = first, merged'.id = first
          PROVE  Founded'
      BY <1>2, <2>1, <2>2 DEF Founded, Alone, Parses
    <2>3. CASE ReceiveMembers
      <3>1. Parses(device)
        BY <2>3, Zenon DEF ReceiveMembers
      <3>2. /\ lists < MaxLists /\ \E l \in {0, lists + 1} : merged' = Merged(l)
            /\ UNCHANGED <<device, first>>
        BY <2>3 DEF ReceiveMembers
      <3>3. device \in Configs /\ device.id = first /\ first # NoId
        BY <1>2, <3>1, Files, Numbers DEF Founded, CoreOf, FilesInv, FileOf, Kinds
      <3>4. merged'.id = first
        <4>1. \A l \in {0, lists + 1} : l \in Lists
          BY <1>2, <3>2, Numbers DEF CoreOf, FilesInv, FileOf, Lists
        <4> QED  BY <3>1, <3>2, <3>3, <4>1, Files DEF Merged
      <3> QED  BY <1>2, <2>2, <3>2, <3>3, <3>4 DEF Founded
    <2>4. CASE Truncate
      <3>1. receiver # "idle" /\ device' = Empty /\ merged' = merged /\ first' = first
        BY <2>4 DEF Truncate
      <3> QED  BY <1>2, <2>2, <3>1, Files DEF Founded
    <2>5. CASE WriteUpdate
      <3>1. /\ receiver # "idle" /\ merged' = merged /\ Noted
            /\ device' = device \/ device' \in Written(device, merged)
        BY <2>5 DEF WriteUpdate
      <3>2. first # NoId /\ merged.id = first /\ merged \in Configs
        BY <1>2, <3>1 DEF Founded, CoreOf, FilesInv
      <3>3. first' = first
        BY <3>1, <3>2, NotedOnce
      <3>4. device' # NoFile /\ (Parses(device') => device'.id = first)
        BY <1>2, <3>1, <3>2, WrittenFiles DEF Founded, Parses
      <3> QED  BY <2>2, <3>1, <3>2, <3>3, <3>4
    <2> QED  BY <1>6, <2>3, <2>4, <2>5
  <1>7. CASE \E t \in Threads : Portal(t)
    BY <1>2, <1>7, RequestFounded
  <1> QED  BY <1>4, <1>5, <1>6, <1>7 DEF Next, Portal, Bridge, Receiver

-----------------------------------------------------------------------------
(* The copies.                                                             *)

(* A request changes nothing, or leaves its signal to come, or has the     *)
(* flag set.                                                               *)
LEMMA PortalCopies ==
  ASSUME CoreOf, LinkInv, Copied, ~apart', NEW t \in Threads, Portal(t)
  PROVE  Copied'
  <1>1. PortalOf /\ PortalInv
    BY DEF CoreOf, ThreadsInv
  <1>2. CASE Rename(t)
    <2>1. ~creating[t]
      BY <1>2, Zenon DEF Rename
    <2>2. UNCHANGED <<receiver, bridge>> /\ place' = [place EXCEPT ![t] = "hup"]
      BY <1>2, <2>1, Zenon DEF Rename, goto, bridgeVars
    <2>3. place'[t] = "hup"
      BY <1>1, <2>2 DEF PortalOf
    <2>4. Due'
      BY <2>3 DEF Due
    <2> QED  BY <2>2, <2>4 DEF Copied
  <1>3. CASE SendHup(t)
    <2>1. /\ receiver' = receiver
          /\ bridge' = IF bridge = "exec" THEN "down" ELSE bridge
      BY <1>3 DEF SendHup, receiverVars
    <2>2. bridge \notin {"down", "exec"} => Due'
      BY <1>3, Zenon DEF SendHup, Due
    <2> QED  BY <2>1, <2>2 DEF Copied, LinkInv
  <1>4. CASE ~Rename(t) /\ ~SendHup(t)
    <2>1. UNCHANGED <<receiver, merged, bridge, loaded, device_id, team_members_, offered>>
      BY <1>4 DEF Portal, PortalStart, BeginRequest, Request, ReadConfig, Generate, OpenTmp,
         WriteTmp, WriteFails, RenameFails, UnlinkTmp, receiverVars, bridgeVars, history
    <2>2. linked' = linked /\ reload_flag' = reload_flag
      BY <1>4, Zenon DEF Portal, PortalStart, BeginRequest, Request, ReadConfig, Generate, OpenTmp,
         WriteTmp, WriteFails, RenameFails, UnlinkTmp, receiverVars, bridgeVars
    <2>3. device' = device /\ saved' = saved
      <3>1. CASE WriteTmp(t)
        BY <3>1, Zenon DEF WriteTmp
      <3> QED  BY <1>4, <3>1 DEF Portal, PortalStart, BeginRequest, Request, ReadConfig, Generate,
                  OpenTmp, WriteFails, RenameFails, UnlinkTmp, fileVars, history
    <2>4. /\ place[t] # "hup"
          /\ \E p : place' = [place EXCEPT ![t] = p]
      BY <1>1, <1>4 DEF Portal, PortalStart, BeginRequest, Request, ReadConfig, Generate, OpenTmp,
         WriteTmp, WriteFails, RenameFails, UnlinkTmp, Continue, Done, goto, PortalOf, PortalInv
    <2>5. Due => Due'
      BY <1>1, <2>2, <2>4 DEF Due, PortalOf
    <2> QED  BY <2>1, <2>2, <2>3, <2>5 DEF Copied, Agree, Said, Parses
  <1> QED  BY <1>2, <1>3, <1>4

(* An update from the cloud reaches the file and the copy with the         *)
(* identity of both, while the main thread is in its loop.                 *)
LEMMA ReceiverCopies ==
  ASSUME CoreOf, BridgeOf, LinkInv, Copied, ~apart', Receiver
  PROVE  Copied'
  <1>1. Due => Due'
    BY Zenon DEF Due, Receiver, ReceiveMembers, Truncate, WriteUpdate, AssignUpdate, portalVars,
       threadVars, bridgeVars
  <1>2. UNCHANGED <<bridge, loaded, device_id, offered>>
    BY DEF Receiver, ReceiveMembers, Truncate, WriteUpdate, AssignUpdate, bridgeVars, history
  <1>3. CASE ReceiveMembers
    <2>1. bridge \notin {"load", "assign", "register"}
      BY <1>3, Zenon DEF ReceiveMembers
    <2>2. bridge = "loop"
      BY <1>3, <2>1 DEF ReceiveMembers, LinkInv, BridgeOf
    <2>3. /\ receiver = "idle" /\ receiver' = "open"
          /\ UNCHANGED <<device, saved, team_members_>>
          /\ \E l : merged' = Merged(l)
      BY <1>3 DEF ReceiveMembers, bridgeVars
    <2>4. merged'.id = Said.id
      BY <2>3, Files DEF Merged, Said, Config
    <2> QED  BY <1>1, <1>2, <2>2, <2>3, <2>4 DEF Copied, Agree, Said, Parses
  <1>4. CASE Truncate
    <2>1. /\ receiver = "open" /\ receiver' = "write" /\ saved' = NoList /\ device' = Empty
          /\ UNCHANGED <<merged, team_members_>>
      BY <1>4 DEF Truncate, bridgeVars
    <2>2. linked'
      BY <1>4, Zenon DEF Truncate
    <2> QED  BY <1>1, <1>2, <2>1, <2>2 DEF Copied
  <1>5. CASE WriteUpdate
    <2>1. /\ receiver = "write" /\ receiver' = "assign" /\ merged \in Configs
          /\ UNCHANGED <<merged, team_members_>>
      BY <1>5 DEF WriteUpdate, bridgeVars, CoreOf, FilesInv
    <2>2. linked => device' \in Written(device, merged) /\ saved' = NoList
      BY <1>5, Zenon DEF WriteUpdate
    <2>3. linked /\ device = Empty => device' = merged /\ saved' = NoList
      BY <2>1, <2>2, WrittenFiles
    <2> QED  BY <1>1, <1>2, <2>1, <2>3 DEF Copied
  <1>6. CASE AssignUpdate
    <2>1. /\ receiver = "assign" /\ receiver' = "idle" /\ UNCHANGED <<device, saved>>
          /\ team_members_' \in MayBe(merged.members, bridge \in {"assign", "register"})
      BY <1>6 DEF AssignUpdate, fileVars, history
    <2>2. bridge = "loop" /\ team_members_' = merged.members
      BY <2>1 DEF Copied, MayBe
    <2>3. Parses(merged)
      BY <2>1, Files DEF CoreOf, FilesInv
    <2> QED  BY <1>1, <1>2, <2>1, <2>2, <2>3 DEF Copied, Agree, Said, Parses
  <1> QED  BY <1>3, <1>4, <1>5, <1>6 DEF Receiver

(* A portal that ends owing nobody a signal changes nothing.               *)
LEMMA PortalEndsCopies ==
  ASSUME Copied, ~apart', PortalEnds
  PROVE  Copied'
  <1>1. /\ \A t \in Threads : place[t] # "hup"
        /\ linked => linked'
        /\ reload_flag => reload_flag'
    BY Zenon DEF PortalEnds, receiverVars, bridgeVars
  <1>2. UNCHANGED <<device, receiver, merged, bridge, loaded, device_id, team_members_, saved,
                    offered>>
    BY DEF PortalEnds, fileVars, receiverVars, bridgeVars
  <1>3. Due => Due'
    BY <1>1 DEF Due
  <1> QED  BY <1>1, <1>2, <1>3 DEF Copied, Agree, Said, Parses

(* The bridge starts and reloads with no update under way, and takes what  *)
(* it reads.                                                               *)
LEMMA BridgeCopies ==
  ASSUME CoreOf, LinkInv, ~apart => Copied, ~apart', Bridge
  PROVE  Copied'
  <1>1. CASE BridgeEnds
    BY <1>1 DEF BridgeEnds, Copied
  <1>2. CASE BridgeExec
    BY <1>2 DEF BridgeExec, Copied, LinkInv, receiverVars
  <1>3. CASE BridgeInstall
    BY <1>3 DEF BridgeInstall, Copied, LinkInv, receiverVars
  <1>4. CASE TestFlag
    <2>1. receiver = "idle" /\ receiver' = receiver
      BY <1>4, Zenon DEF TestFlag, receiverVars
    <2> QED  BY <1>4, <2>1 DEF TestFlag, Copied
  <1>5. CASE Load \/ Assign \/ Register
    <2>1. Copied
      BY <1>5, Zenon DEF Load, Assign, Register, history
    <2>2. UNCHANGED <<device, receiver, saved>>
      BY <1>5 DEF Load, Assign, Register, fileVars, receiverVars, history
    <2>3. receiver = "idle" /\ receiver' = "idle"
      BY <1>5, <2>1, <2>2 DEF Load, Assign, Register, Copied
    <2>4. Due => Due'
      BY <1>5, Zenon DEF Due, Load, Assign, Register, portalVars, threadVars
    <2>5. Said' = Said
      BY <2>2 DEF Said, Parses
    <2>6. CASE Load
      <3>1. bridge' = "assign" /\ loaded' = Said
        BY <2>6 DEF Load, Said
      <3> QED  BY <2>3, <2>5, <3>1 DEF Copied
    <2>7. CASE Assign
      <3>1. /\ bridge = "assign" /\ bridge' = "register"
            /\ device_id' = loaded.id /\ team_members_' = loaded.members
        BY <2>3, <2>7 DEF Assign, MayBe
      <3> QED  BY <2>1, <2>3, <2>4, <2>5, <3>1 DEF Copied, Agree
    <2>8. CASE Register
      <3>1. /\ bridge = "register" /\ bridge' = "loop"
            /\ UNCHANGED <<device_id, team_members_>>
            /\ team_members_ # 0 => offered' = team_members_
        BY <2>3, <2>8 DEF Register, MayBe
      <3>2. Due \/ (saved \notin {0, NoList} => offered' = saved)
        BY <2>1, <3>1 DEF Copied, Agree, Said, CoreOf, FilesInv
      <3> QED  BY <2>1, <2>2, <2>3, <2>4, <2>5, <3>1, <3>2 DEF Copied, Agree
    <2> QED  BY <1>5, <2>6, <2>7, <2>8
  <1> QED  BY <1>1, <1>2, <1>3, <1>4, <1>5 DEF Bridge, MainThread

(* What agreed agrees, or will be reloaded, unless the step sets the three *)
(* apart.                                                                  *)
LEMMA CopyStep ==
  ASSUME BaseInv, CopyInv, Next
  PROVE  CopyInv'
  <1> SUFFICES ASSUME ~apart' PROVE Copied'
    BY DEF CopyInv
  <1>1. CoreOf /\ BridgeOf /\ LinkInv /\ (~apart => Copied)
    BY BaseParts DEF CopyInv
  <1>2. CASE Bridge
    BY <1>1, <1>2, BridgeCopies
  <1>3. CASE Receiver \/ PortalEnds
    <2>1. ~apart
      BY <1>3, Zenon DEF Receiver, ReceiveMembers, Truncate, WriteUpdate, AssignUpdate, PortalEnds,
         history
    <2> QED  BY <1>1, <1>3, <2>1, ReceiverCopies, PortalEndsCopies
  <1>4. ASSUME NEW t \in Threads, Portal(t) PROVE Copied'
    <2>1. ~apart
      BY <1>4, Zenon DEF Portal, PortalStart, BeginRequest, Request, ReadConfig, Generate, OpenTmp,
         WriteTmp, WriteFails, Rename, RenameFails, UnlinkTmp, SendHup, history
    <2> QED  BY <1>1, <1>4, <2>1, PortalCopies
  <1> QED  BY <1>2, <1>3, <1>4 DEF Next, Portal, Bridge

-----------------------------------------------------------------------------
(* The invariant holds.                                                    *)

(* Every step keeps the invariant.                                         *)
LEMMA IInvStep == IInv /\ [Next]_vars => IInv'
  <1> SUFFICES ASSUME IInv, [Next]_vars PROVE IInv'
    OBVIOUS
  <1>1. BaseInv'
    BY BaseStep DEF IInv
  <1>2. CASE Next
    BY <1>1, <1>2, FirstStep, CopyStep DEF IInv
  <1>3. CASE UNCHANGED vars
    <2>1. Founded => Founded'
      BY <1>3 DEF Founded, Alone, Parses, vars, fileVars, portalVars, threadVars, receiverVars,
         history
    <2>2. Copied => Copied'
      BY <1>3, Zenon DEF Copied, Due, Agree, Said, Parses, vars, fileVars,
         portalVars, threadVars, receiverVars, bridgeVars, history
    <2>3. (torn' <=> torn) /\ (failed' <=> failed) /\ (apart' <=> apart)
      BY <1>3, Zenon DEF vars, history
    <2> QED  BY <1>1, <2>1, <2>2, <2>3, Zenon DEF IInv, FirstInv, CopyInv
  <1> QED  BY <1>2, <1>3

(* In every state the texts on their way into the file carry the identity  *)
(* it held first, unless one was generated over half a file, and the       *)
(* bridge's copies agree with the file or will be reloaded.                *)
THEOREM Invariance == Spec => []IInv
  BY InitIInv, IInvStep, PTL DEF Spec

(* Every variable of the portal, of the bridge's threads and of device.json*)
(* stays within its type.                                                  *)
THEOREM TypeCorrect == Spec => []TypeOK
  <1>1. IInv => TypeOK
    BY DEF IInv, BaseInv
  <1> QED  BY <1>1, Invariance, PTL

(* A device keeps the identity its file held first, whichever threads of   *)
(* the portal met in atomic_write() and whatever the bridge wrote, unless  *)
(* read_device_config() generated one over half a file, could not write    *)
(* the first, or the bridge merged an update without a file that parsed.   *)
THEOREM IdentityCorrect == Spec => []OneIdentity
  <1>1. ASSUME IInv, ~torn, ~failed, Parses(device) PROVE device.id = first
    BY <1>1 DEF IInv, FirstInv, Founded
  <1>2. IInv => OneIdentity
    BY <1>1, Zenon DEF OneIdentity
  <1> QED  BY <1>2, Invariance, PTL

(* When nobody is writing and no reload is pending, load_identity() and    *)
(* handleTeamMembersUpdate() have left the bridge with the identity and    *)
(* the team of the file, and registerWithCloud() has offered what the      *)
(* portal saved, also after threads of the portal published each other's   *)
(* temporary file, unless one wrote into it when it had been published.    *)
THEOREM CopiesCorrect == Spec => []CopiesAgree
  <1>1. IInv => CopiesAgree
    <2> SUFFICES ASSUME IInv, Quiet, bridge = "loop", ~reload_flag, ~apart, Parses(device)
                 PROVE  /\ device_id = device.id /\ team_members_ = device.members
                        /\ saved \notin {0, NoList} => offered = saved
      BY DEF CopiesAgree
    <2>1. ~Due
      BY DEF Quiet, Due
    <2>2. Agree /\ (saved \notin {0, NoList} => offered = saved)
      BY <2>1 DEF IInv, CopyInv, Copied, Quiet
    <2> QED  BY <2>2 DEF Agree, Said
  <1> QED  BY <1>1, Invariance, PTL
=============================================================================
