--------------------------- MODULE DeviceIdentity ---------------------------
(***************************************************************************)
(* device.json: who the device is and who belongs to its team.  The portal *)
(* makes the identity when it starts and saves the team members from any   *)
(* of its request threads (src/captive-portal/server.py); the bridge's     *)
(* web-socket thread rewrites the file in place when the cloud sends team  *)
(* members, and its main thread reads it at start and on SIGHUP            *)
(* (src/cloud-bridge/src/device_sync.cpp).                                 *)
(*                                                                         *)
(* The threads share one temporary file: atomic_write() opens it, which    *)
(* truncates it, writes it and renames it, and the thread that renames it  *)
(* first may publish what another has only opened.                         *)
(***************************************************************************)
EXTENDS Integers, FiniteSets

CONSTANTS
    Threads,   \* request threads of the portal
    MaxIds,    \* bound on the identities generated
    MaxLists   \* bound on the lists of team members given

ASSUME DeviceIdentityAssumption == MaxIds \in Nat /\ MaxLists \in Nat

Ids     == 0..MaxIds     \* 0 is no identity, or that of the environment
Lists   == 0..MaxLists   \* 0 is the list of nobody
Garbled == -1            \* a vector read or assigned by two threads at once
NoList  == -2
NotStarted == -1
NoId == -1

NoFile == [state |-> "absent", id |-> 0, members |-> 0]
Empty  == [state |-> "empty", id |-> 0, members |-> 0]
Mixed  == [state |-> "mixed", id |-> 0, members |-> 0]

Config(id, members) == [state |-> "json", id |-> id, members |-> members]

Configs == {Config(id, members) : id \in Ids, members \in Lists}

VARIABLES
    device,    \* what is under the name
    tmp,       \* what is under the name of the temporary file
    ids,       \* identities generated so far
    lists,     \* lists given so far

    portal,    \* "down", "starting" (in read_device_config), "up"
    place,     \* where a thread is
    want,      \* the list its request sets, or NoList
    config,    \* the configuration it has generated, or is to write
    creating,  \* it is writing the identity it has generated
    fd,        \* what it has open: the temporary file, the file under the
               \* name, or one that has none any more

    receiver,  \* where the web-socket thread is
    linked,    \* the file it has open is the one under the name
    merged,    \* the configuration it writes

    bridge,        \* where the main thread is
    reload_flag,
    loaded,        \* what load_identity() has read
    device_id, team_members_,
    ws_id,         \* the identity in the headers of the connection

    \* history, for the properties alone:
    saved,    \* the list in the file, if the portal saved it last
    offered,  \* the list of the last registration tried
    apart,    \* since the bridge last began to load with no update from the
              \* cloud under way, one arrived during a load, an identity was
              \* generated, a thread wrote into a file that had already been
              \* published, or the portal ended between a save and its signal
    first,    \* the first identity the file has held
    torn,     \* an identity was generated over a file that did not parse, or
              \* an update from the cloud was merged without a file that did
    failed    \* the portal could not write its identity when it started

fileVars     == <<device, tmp, ids, lists>>
threadVars   == <<place, want, config, creating, fd>>
portalVars   == <<portal, threadVars>>
receiverVars == <<receiver, linked, merged>>
bridgeVars   == <<bridge, reload_flag, loaded, device_id, team_members_, ws_id>>
history      == <<saved, offered, apart, first, torn, failed>>
vars == <<fileVars, portalVars, receiverVars, bridgeVars, history>>

Init ==
    /\ device = NoFile /\ tmp = NoFile /\ ids = 0 /\ lists = 0
    /\ portal = "down"
    /\ place = [t \in Threads |-> "idle"]
    /\ want = [t \in Threads |-> NoList]
    /\ config = [t \in Threads |-> NoFile]
    /\ creating = [t \in Threads |-> FALSE]
    /\ fd = [t \in Threads |-> "none"]
    /\ receiver = "idle" /\ linked = FALSE /\ merged = NoFile
    /\ bridge = "down" /\ reload_flag = FALSE /\ loaded = NoFile
    /\ device_id = 0 /\ team_members_ = 0 /\ ws_id = NotStarted
    /\ saved = NoList /\ offered = NoList
    /\ first = NoId
    /\ apart = FALSE /\ torn = FALSE /\ failed = FALSE

Parses(c) == c.state = "json"

\* What is in a file after a text was written from its start: all of it, or
\* with the rest of a longer one behind it.
Written(c, text) == IF c = Empty THEN {text} ELSE {text, Mixed}

\* The list a file holds that the portal has put there.
Held(c) == IF Parses(c) THEN c.members ELSE NoList

\* The first identity under the name.
Noted == first' = IF first = NoId /\ Parses(device') THEN device'.id ELSE first

-----------------------------------------------------------------------------
(* The portal.                                                             *)

goto(t, p) == place' = [place EXCEPT ![t] = p]

\* The end of a request, and of read_device_config() in main().
Done(t) ==
    /\ goto(t, "idle")
    /\ want' = [want EXCEPT ![t] = NoList]
    /\ config' = [config EXCEPT ![t] = NoFile]
    /\ creating' = [creating EXCEPT ![t] = FALSE]
    /\ portal' = "up"

(* Fault to set against PortalStart: requests are served at once.          *)
PortalStartServing(t) ==
    /\ portal = "down"
    /\ portal' = "up"
    /\ goto(t, "read")
    /\ UNCHANGED <<fileVars, want, config, creating, fd, receiverVars, bridgeVars,
                   history>>

(* main(): "generate device.json on first boot", before app.run().         *)
PortalStart(t) ==
    /\ portal = "down"
    /\ portal' = "starting"
    /\ goto(t, "read")
    /\ UNCHANGED <<fileVars, want, config, creating, fd, receiverVars, bridgeVars,
                   history>>

(* It dies or is stopped with its threads where they are, and leaves the   *)
(* temporary file behind.                                                  *)
PortalEnds ==
    /\ portal # "down"
    /\ portal' = "down"
    /\ place' = [t \in Threads |-> "idle"]
    /\ want' = [t \in Threads |-> NoList]
    /\ config' = [t \in Threads |-> NoFile]
    /\ creating' = [t \in Threads |-> FALSE]
    /\ fd' = [t \in Threads |-> "none"]
    /\ apart' = (apart \/ \E t \in Threads : place[t] = "hup")
    /\ UNCHANGED <<fileVars, receiverVars, bridgeVars, saved, offered, first, torn, failed>>

(* api_get_device(), or api_set_team_members() with a list.                *)
BeginRequest(t) ==
    /\ portal = "up"
    /\ place[t] = "idle"
    /\ \/ UNCHANGED <<want, lists>>
       \/ /\ lists < MaxLists
          /\ lists' = lists + 1
          /\ \E l \in {0, lists + 1} : want' = [want EXCEPT ![t] = l]
    /\ goto(t, "read")
    /\ UNCHANGED <<device, tmp, ids, portal, config, creating, fd, receiverVars, bridgeVars,
                   history>>

\* What a request does once it has its configuration: it answers it, or
\* sets the list in it and writes it.
Continue(t, c) ==
    IF want[t] = NoList
    THEN Done(t)
    ELSE /\ goto(t, "open")
         /\ config' = [config EXCEPT ![t] = [c EXCEPT !.members = want[t]]]
         /\ creating' = [creating EXCEPT ![t] = FALSE]
         /\ UNCHANGED <<portal, want>>

(* read_device_config() finds a configuration.                             *)
ReadConfig(t) ==
    /\ place[t] = "read"
    /\ Parses(device)
    /\ Continue(t, device)
    /\ UNCHANGED <<fileVars, fd, receiverVars, bridgeVars, history>>

(* It finds none, or something else, and takes a new identity.             *)
Generate(t) ==
    /\ place[t] = "read"
    /\ ~Parses(device)
    /\ ids < MaxIds
    /\ ids' = ids + 1
    /\ config' = [config EXCEPT ![t] = Config(ids + 1, 0)]
    /\ creating' = [creating EXCEPT ![t] = TRUE]
    /\ goto(t, "open")
    /\ torn' = (torn \/ device # NoFile)
    /\ UNCHANGED <<device, tmp, lists, portal, want, fd, receiverVars, bridgeVars, saved,
                   offered, apart, first, failed>>

(* atomic_write(): write_text() opens and truncates the temporary file ... *)
OpenTmp(t) ==
    /\ place[t] = "open"
    /\ tmp' = Empty
    /\ fd' = [fd EXCEPT ![t] = "tmp"]
    /\ goto(t, "write")
    /\ UNCHANGED <<device, ids, lists, portal, want, config, creating, receiverVars,
                   bridgeVars, history>>

(* ... and writes what it has opened, wherever that is by now.             *)
WriteTmp(t) ==
    /\ place[t] = "write"
    /\ IF fd[t] = "tmp" THEN tmp' \in Written(tmp, config[t]) ELSE UNCHANGED tmp
    /\ IF fd[t] = "file"
       THEN /\ device' \in Written(device, config[t])
            /\ saved' = Held(device')
            /\ apart' = TRUE
       ELSE UNCHANGED <<device, saved, apart>>
    /\ Noted
    /\ fd' = [fd EXCEPT ![t] = "none"]
    /\ goto(t, "rename")
    /\ UNCHANGED <<ids, lists, portal, want, config, creating, receiverVars, bridgeVars,
                   offered, torn, failed>>

(* An OSError of write_text().                                             *)
WriteFails(t) ==
    /\ place[t] \in {"open", "write"}
    /\ fd' = [fd EXCEPT ![t] = "none"]
    /\ goto(t, "unlink")
    /\ UNCHANGED <<fileVars, portal, want, config, creating, receiverVars, bridgeVars,
                   history>>

(* rename(): what is in the temporary file, of whichever thread, is under  *)
(* the name from now on; what was open there is not.                       *)
Rename(t) ==
    /\ place[t] = "rename"
    /\ tmp # NoFile
    /\ device' = tmp
    /\ tmp' = NoFile
    /\ fd' = [u \in Threads |-> IF fd[u] = "tmp" THEN "file"
                                ELSE IF fd[u] = "file" THEN "gone" ELSE fd[u]]
    /\ linked' = FALSE
    /\ saved' = Held(tmp)
    /\ apart' = (apart \/ creating[t])
    /\ Noted
    /\ IF creating[t]
       THEN Continue(t, config[t])
       ELSE goto(t, "hup") /\ UNCHANGED <<portal, want, config, creating>>
    /\ UNCHANGED <<ids, lists, receiver, merged, bridgeVars, offered, torn, failed>>

(* Another thread has renamed or removed it.                               *)
RenameFails(t) ==
    /\ place[t] = "rename"
    /\ tmp = NoFile
    /\ goto(t, "unlink")
    /\ UNCHANGED <<fileVars, portal, want, config, creating, fd, receiverVars, bridgeVars,
                   history>>

(* tmp.unlink(), and atomic_write() returns False: the identity is used    *)
(* all the same, the list is refused.                                      *)
UnlinkTmp(t) ==
    /\ place[t] = "unlink"
    /\ tmp' = NoFile
    /\ fd' = [u \in Threads |-> IF fd[u] = "tmp" THEN "gone" ELSE fd[u]]
    /\ failed' = (failed \/ (creating[t] /\ portal = "starting"))
    /\ IF creating[t] THEN Continue(t, config[t]) ELSE Done(t)
    /\ UNCHANGED <<device, ids, lists, receiverVars, bridgeVars, saved, offered, apart,
                   first, torn>>

(* Fault to set against SendHup: nobody is told.                           *)
SendNothing(t) ==
    /\ place[t] = "hup"
    /\ Done(t)
    /\ UNCHANGED <<fileVars, fd, receiverVars, bridgeVars, history>>

(* send_sighup(): it ends a bridge without a handler.                      *)
SendHup(t) ==
    /\ place[t] = "hup"
    /\ reload_flag' = (reload_flag \/ bridge \notin {"down", "exec"})
    /\ bridge' = IF bridge = "exec" THEN "down" ELSE bridge
    /\ Done(t)
    /\ UNCHANGED <<fileVars, fd, receiverVars, loaded, device_id, team_members_, ws_id,
                   history>>

Request(t) ==
    \/ ReadConfig(t)
    \/ Generate(t)
    \/ OpenTmp(t)
    \/ WriteTmp(t)
    \/ WriteFails(t)
    \/ Rename(t)
    \/ RenameFails(t)
    \/ UnlinkTmp(t)
    \/ SendHup(t)

-----------------------------------------------------------------------------
(* The bridge's web-socket thread: handleTeamMembersUpdate().              *)

\* What two threads make of a vector they use at once.
MayBe(v, racing) == IF racing THEN {v, Garbled} ELSE {v}

\* The update in what the file says: without a file that parses there is
\* no identity to keep.  Before it, the fault of not asking whether it does.
MergedUnchecked(l) == [device EXCEPT !.members = l]
Merged(l) == Config(IF Parses(device) THEN device.id ELSE 0, l)

(* The update arrives, and the file is read.                               *)
ReceiveMembers ==
    /\ ws_id # NotStarted
    /\ receiver = "idle"
    /\ lists < MaxLists
    /\ lists' = lists + 1
    /\ \E l \in {0, lists + 1} : merged' = Merged(l)
    /\ receiver' = "open"
    /\ apart' = (apart \/ bridge \in {"load", "assign", "register"})
    /\ torn' = (torn \/ ~Parses(device))
    /\ UNCHANGED <<device, tmp, ids, portalVars, linked, bridgeVars, saved, offered,
                   first, failed>>

(* The ofstream truncates the file ...                                     *)
Truncate ==
    /\ receiver = "open"
    /\ device' = Empty
    /\ linked' = TRUE
    /\ saved' = NoList
    /\ receiver' = "write"
    /\ UNCHANGED <<tmp, ids, lists, portalVars, merged, bridgeVars, offered, apart, first,
                   torn, failed>>

(* ... and writes it, wherever it is by now.                               *)
WriteUpdate ==
    /\ receiver = "write"
    /\ IF linked
       THEN device' \in Written(device, merged) /\ saved' = NoList
       ELSE UNCHANGED <<device, saved>>
    /\ Noted
    /\ receiver' = "assign"
    /\ UNCHANGED <<tmp, ids, lists, portalVars, linked, merged, bridgeVars, offered, apart,
                   torn, failed>>

(* team_members_ = std::move(members), which the main thread may be using. *)
AssignUpdate ==
    /\ receiver = "assign"
    /\ team_members_' \in MayBe(merged.members, bridge \in {"assign", "register"})
    /\ receiver' = "idle" /\ linked' = FALSE /\ merged' = NoFile
    /\ UNCHANGED <<fileVars, portalVars, bridge, reload_flag, loaded, device_id,
                   ws_id, history>>

Receiver == ReceiveMembers \/ Truncate \/ WriteUpdate \/ AssignUpdate

-----------------------------------------------------------------------------
(* The bridge's main thread.                                               *)

(* A crash, or a stop, which waits for the web-socket thread.              *)
BridgeEnds ==
    /\ bridge # "down"
    /\ bridge' = "down"
    /\ reload_flag' = FALSE
    /\ loaded' = NoFile /\ device_id' = 0 /\ team_members_' = 0
    /\ ws_id' = NotStarted
    /\ receiver' = "idle" /\ linked' = FALSE /\ merged' = NoFile
    /\ offered' = NoList
    /\ UNCHANGED <<fileVars, portalVars, saved, apart, first, torn, failed>>

BridgeExec ==
    /\ bridge = "down"
    /\ bridge' = "exec"
    /\ UNCHANGED <<fileVars, portalVars, receiverVars, reload_flag, loaded, device_id,
                   team_members_, ws_id, history>>

(* The handlers, the queues; DeviceSync comes next.                        *)
BridgeInstall ==
    /\ bridge = "exec"
    /\ bridge' = "load"
    /\ apart' = FALSE
    /\ UNCHANGED <<fileVars, portalVars, receiverVars, reload_flag, loaded, device_id,
                   team_members_, ws_id, saved, offered, first, torn, failed>>

TestFlag ==
    /\ bridge = "loop"
    /\ reload_flag
    /\ reload_flag' = FALSE
    /\ bridge' = "load"
    /\ apart' = (receiver # "idle")
    /\ UNCHANGED <<fileVars, portalVars, receiverVars, loaded, device_id,
                   team_members_, ws_id, saved, offered, first, torn, failed>>

(* load_identity() reads the file ...                                      *)
Load ==
    /\ bridge = "load"
    /\ loaded' = IF Parses(device) THEN device ELSE NoFile
    /\ bridge' = "assign"
    /\ UNCHANGED <<fileVars, portalVars, receiverVars, reload_flag, device_id,
                   team_members_, ws_id, history>>

(* ... and takes what it says, or the environment's identity and no team.  *)
(* At start the connection is made with it.                                *)
Assign ==
    /\ bridge = "assign"
    /\ device_id' = loaded.id
    /\ team_members_' \in MayBe(loaded.members, receiver = "assign")
    /\ ws_id' = IF ws_id = NotStarted THEN loaded.id ELSE ws_id
    /\ loaded' = NoFile
    /\ bridge' = "register"
    /\ UNCHANGED <<fileVars, portalVars, receiverVars, reload_flag, history>>

(* registerWithCloud(): skipped for nobody, tried once.                    *)
Register ==
    /\ bridge = "register"
    /\ IF team_members_ = 0
       THEN UNCHANGED offered
       ELSE offered' \in MayBe(team_members_, receiver = "assign")
    /\ bridge' = "loop"
    /\ UNCHANGED <<fileVars, portalVars, receiverVars, reload_flag, loaded, device_id,
                   team_members_, ws_id, saved, apart, first, torn, failed>>

MainThread ==
    \/ BridgeInstall
    \/ TestFlag
    \/ Load
    \/ Assign
    \/ Register

-----------------------------------------------------------------------------
Next ==
    \/ \E t \in Threads : PortalStart(t) \/ BeginRequest(t) \/ Request(t)
    \/ PortalEnds
    \/ Receiver
    \/ BridgeEnds
    \/ BridgeExec
    \/ MainThread

Spec == Init /\ [][Next]_vars

-----------------------------------------------------------------------------
TypeOK ==
    /\ device \in Configs \cup {NoFile, Empty, Mixed}
    /\ tmp \in Configs \cup {NoFile, Empty, Mixed}
    /\ ids \in Ids /\ lists \in Lists
    /\ portal \in {"down", "starting", "up"}
    /\ place \in [Threads -> {"idle", "read", "open", "write", "rename", "unlink", "hup"}]
    /\ want \in [Threads -> Lists \cup {NoList}]
    /\ config \in [Threads -> Configs \cup {NoFile}]
    /\ creating \in [Threads -> BOOLEAN]
    /\ fd \in [Threads -> {"none", "tmp", "file", "gone"}]
    /\ receiver \in {"idle", "open", "write", "assign"}
    /\ linked \in BOOLEAN
    /\ merged \in Configs \cup {NoFile}
    /\ bridge \in {"down", "exec", "load", "assign", "register", "loop"}
    /\ reload_flag \in BOOLEAN
    /\ loaded \in Configs \cup {NoFile}
    /\ device_id \in Ids
    /\ team_members_ \in Lists \cup {Garbled}
    /\ ws_id \in Ids \cup {NotStarted}
    /\ saved \in Lists \cup {NoList}
    /\ offered \in Lists \cup {Garbled, NoList}
    /\ first \in Ids \cup {NoId}
    /\ {apart, torn, failed} \subseteq BOOLEAN

(* A device keeps the identity its file held first, whichever threads of   *)
(* the portal meet in the temporary file, whatever the bridge writes and   *)
(* whoever dies in between, unless the portal generated one over a file    *)
(* that did not parse or could not write its own when it started, or the   *)
(* bridge merged an update without a file that parsed.                     *)
OneIdentity ==
    first # NoId /\ Parses(device) => device.id = first \/ torn \/ failed

(* "Read device.json, creating it with a new UUID + secret if missing"     *)
(* (server.py, read_device_config): once the file has held an identity,    *)
(* and nothing removes it, no other is generated.                          *)
GeneratedIfMissing == [][ids' > ids => first = NoId]_vars

Quiet == receiver = "idle" /\ \A t \in Threads : place[t] = "idle"

(* When nobody is about to write and no reload is pending, the bridge has  *)
(* the identity and the team of the file, and the team the portal saved    *)
(* last is the last one offered to the cloud, unless the reload fell into  *)
(* an update from the cloud, an identity was generated behind it, a thread *)
(* wrote into the file after another had published it, or the portal ended *)
(* before it sent the signal.                                              *)
CopiesAgree ==
    Quiet /\ bridge = "loop" /\ ~reload_flag /\ ~apart /\ Parses(device) =>
        /\ device_id = device.id
        /\ team_members_ = device.members
        /\ saved \notin {0, NoList} => offered = saved
=============================================================================
