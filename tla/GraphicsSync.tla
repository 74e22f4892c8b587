---------------------------- MODULE GraphicsSync ----------------------------
(***************************************************************************)
(* graphics.json between its writers and its readers.  The portal saves it *)
(* from any number of request threads with atomic_write(), by way of one   *)
(* temporary file whose name they share; the cloud bridge's web-socket     *)
(* thread rewrites it in place; the graphics engine and the bridge's main  *)
(* loop read it when a signal has set a flag.                              *)
(*                                                                         *)
(* A name links to an inode, so that a writer keeps the file it opened     *)
(* when the name moves on.  What a file says is the set of saves it        *)
(* carries: a save of one screen is added to what was read, a save of the  *)
(* whole file and an update from the cloud replace it.                     *)
(***************************************************************************)
EXTENDS Integers, FiniteSets

CONSTANTS
    Threads,   \* request threads of the portal
    MaxSaves   \* bound on the saves and updates

ASSUME GraphicsSyncAssumption == MaxSaves \in Nat /\ IsFiniteSet(Threads)

Saves  == 1..MaxSaves
None   == 0
Inodes == 1..(Cardinality(Threads) + 2)  \* linked, or open in one thread

Json(s) == [state |-> "json", saves |-> s]
Empty   == [state |-> "empty", saves |-> {}]
Mixed   == [state |-> "mixed", saves |-> {}]  \* of two texts, does not parse
Contents == {Json(s) : s \in SUBSET Saves} \cup {Empty, Mixed}

Parses(c) == c.state = "json"

VARIABLES
    file,     \* the inode of graphics.json
    tmp,      \* the inode of graphics.json.tmp, or None
    inode,    \* what each inode holds
    saves,    \* saves and updates so far

    place,    \* where a request thread is
    doc,      \* the saves in the text it writes
    fd,       \* the inode it has open
    whole,    \* it saves the whole file

    receiver,    \* where the web-socket thread is
    receiverFd,  \* the inode it has open
    update,      \* the update it writes

    bridge,            \* where the bridge's main loop is
    graphics_changed,  \* its flag
    upload,            \* the saves in the upload it sends
    connected,         \* connected_
    uploaded,          \* what the cloud got last

    engine,       \* where the graphics engine is
    reload_flag,  \* its flag
    display_cfg,  \* what it has read
    shown,        \* what it shows

    \* history, for the properties alone:
    owed,     \* saves whose thread has triggered the upload
    late,     \* since the bridge last read the file a trigger found an
              \* upload under way
    lost,     \* since then a trigger found no bridge or fell with it or with
              \* the portal, or an upload was lost on a dead connection
    shared,   \* a thread has opened another's temporary file
    died,     \* the bridge has died over an update
    missed    \* the portal ended between a rename and its SIGHUP, and the
              \* engine has not read the file since

fileVars   == <<file, tmp, inode>>
portalVars == <<place, doc, fd, whole>>
receiverVars == <<receiver, receiverFd, update>>
loopVars   == <<bridge, graphics_changed, upload, connected, uploaded>>
engineVars == <<engine, reload_flag, display_cfg, shown>>
history    == <<owed, late, lost, shared, died, missed>>
vars == <<fileVars, saves, portalVars, receiverVars, loopVars, engineVars, history>>

Init ==
    /\ file = 1
    /\ tmp = None
    /\ inode = [i \in Inodes |-> IF i = 1 THEN Json({}) ELSE Empty]
    /\ saves = 0
    /\ place = [t \in Threads |-> "idle"]
    /\ doc = [t \in Threads |-> {}]
    /\ fd = [t \in Threads |-> None]
    /\ whole = [t \in Threads |-> FALSE]
    /\ receiver = "idle" /\ receiverFd = None /\ update = None
    /\ bridge = "down" /\ graphics_changed = FALSE /\ upload = {}
    /\ connected = FALSE /\ uploaded = {}
    /\ engine = "stopped" /\ reload_flag = FALSE
    /\ display_cfg = {} /\ shown = {}
    /\ owed = {} /\ late = FALSE /\ lost = FALSE /\ shared = FALSE /\ died = FALSE
    /\ missed = FALSE

Content == inode[file]

\* Outcomes of writing a text at the start of a file that holds c: another
\* text that is there may stick out behind it.
Written(c, s) == IF c = Empty THEN {Json(s)} ELSE {Json(s), Mixed}

\* An inode that neither a name nor an open file refers to.
Free == CHOOSE i \in Inodes :
            i \notin {file, tmp, receiverFd} \cup {fd[t] : t \in Threads}

\* Fault to set against Hup: the handler is there only for the loop's test.
HupInLoop ==
    /\ reload_flag' = (reload_flag \/ engine = "loop")
    /\ engine' = IF engine = "exec" THEN "stopped" ELSE engine
    /\ UNCHANGED <<display_cfg, shown>>

\* SIGHUP to the graphics engine.  Before its handler is installed it ends
\* the process, and systemd takes that for a clean exit.
Hup ==
    /\ reload_flag' = (reload_flag \/ engine \in {"init", "loop", "load", "build"})
    /\ engine' = IF engine = "exec" THEN "stopped" ELSE engine
    /\ UNCHANGED <<display_cfg, shown>>

-----------------------------------------------------------------------------
(* The portal: one request.                                                *)

goto(t, p) == place' = [place EXCEPT ![t] = p] /\ UNCHANGED <<doc, whole>>

Done(t) ==
    /\ place' = [place EXCEPT ![t] = "idle"]
    /\ doc' = [doc EXCEPT ![t] = {}]
    /\ whole' = [whole EXCEPT ![t] = FALSE]

(* api_set_graphics() takes its text from the request, the requests for   *)
(* one screen start from the file, or from no screens if it does not parse.*)
BeginSave(t) ==
    /\ place[t] = "idle"
    /\ saves < MaxSaves
    /\ saves' = saves + 1
    /\ \E w \in BOOLEAN :
          /\ whole' = [whole EXCEPT ![t] = w]
          /\ doc' = [doc EXCEPT ![t] =
                        {saves + 1} \cup IF w THEN {} ELSE Content.saves]
    /\ place' = [place EXCEPT ![t] = "open"]
    /\ UNCHANGED <<fileVars, fd, receiverVars, loopVars, engineVars, history>>

(* Fault to set against OpenTmp: the file itself is opened.               *)
OpenInPlace(t) ==
    /\ place[t] = "open"
    /\ inode' = [inode EXCEPT ![file] = Empty]
    /\ fd' = [fd EXCEPT ![t] = file]
    /\ goto(t, "write")
    /\ UNCHANGED <<file, tmp, saves, receiverVars, loopVars, engineVars, history>>

(* The first half of write_text(): the file is created or truncated.      *)
OpenTmp(t) ==
    /\ place[t] = "open"
    /\ LET i == IF tmp = None THEN Free ELSE tmp IN
          /\ tmp' = i
          /\ inode' = [inode EXCEPT ![i] = Empty]
          /\ fd' = [fd EXCEPT ![t] = i]
    /\ shared' = (shared \/ \E u \in Threads \ {t} : place[u] \in {"write", "rename"})
    /\ goto(t, "write")
    /\ UNCHANGED <<file, saves, receiverVars, loopVars, engineVars, owed, late,
                   lost, died, missed>>

(* The second half: the text is written and the file closed.              *)
WriteTmp(t) ==
    /\ place[t] = "write"
    /\ \E c \in Written(inode[fd[t]], doc[t]) : inode' = [inode EXCEPT ![fd[t]] = c]
    /\ fd' = [fd EXCEPT ![t] = None]
    /\ goto(t, "rename")
    /\ UNCHANGED <<file, tmp, saves, receiverVars, loopVars, engineVars, history>>

(* An OSError of either half.                                              *)
WriteFails(t) ==
    /\ place[t] \in {"open", "write"}
    /\ fd' = [fd EXCEPT ![t] = None]
    /\ goto(t, "unlink")
    /\ UNCHANGED <<fileVars, saves, receiverVars, loopVars, engineVars, history>>

(* Fault to set against Rename: the failure is not noticed.               *)
RenameUnchecked(t) ==
    /\ place[t] = "rename"
    /\ file' = tmp
    /\ tmp' = None
    /\ goto(t, "hup")
    /\ UNCHANGED <<inode, saves, fd, receiverVars, loopVars, engineVars, history>>

(* tmp.rename(path).                                                       *)
Rename(t) ==
    /\ place[t] = "rename"
    /\ tmp # None
    /\ file' = tmp
    /\ tmp' = None
    /\ goto(t, "hup")
    /\ UNCHANGED <<inode, saves, fd, receiverVars, loopVars, engineVars, history>>

(* Another thread has renamed the file away: OSError.                      *)
RenameFails(t) ==
    /\ place[t] = "rename"
    /\ tmp = None
    /\ goto(t, "unlink")
    /\ UNCHANGED <<fileVars, saves, fd, receiverVars, loopVars, engineVars, history>>

(* tmp.unlink(missing_ok=True): whosever the file is by now.              *)
UnlinkTmp(t) ==
    /\ place[t] = "unlink"
    /\ tmp' = None
    /\ Done(t)
    /\ UNCHANGED <<file, inode, saves, fd, receiverVars, loopVars, engineVars,
                   history>>

SendHup(t) ==
    /\ place[t] = "hup"
    /\ Hup
    /\ IF whole[t] THEN Done(t) ELSE goto(t, "usr1")
    /\ UNCHANGED <<fileVars, saves, fd, receiverVars, loopVars, history>>

(* "trigger send to cloud".                                                *)
SendUsr1(t) ==
    /\ place[t] = "usr1"
    /\ graphics_changed' = (bridge # "down")
    /\ owed' = owed \cup doc[t]
    /\ late' = (late \/ bridge \in {"send", "clear"})
    /\ lost' = (lost \/ bridge = "down")
    /\ Done(t)
    /\ UNCHANGED <<fileVars, saves, fd, receiverVars, bridge, upload, connected,
                   uploaded, engineVars, shared, died, missed>>

Request(t) ==
    \/ BeginSave(t)
    \/ OpenTmp(t)
    \/ WriteTmp(t)
    \/ WriteFails(t)
    \/ Rename(t)
    \/ RenameFails(t)
    \/ UnlinkTmp(t)
    \/ SendHup(t)
    \/ SendUsr1(t)

(* It dies or is stopped with its threads where they are, leaves the       *)
(* temporary file behind, and is started again.                            *)
PortalEnds ==
    /\ place' = [t \in Threads |-> "idle"]
    /\ doc' = [t \in Threads |-> {}]
    /\ fd' = [t \in Threads |-> None]
    /\ whole' = [t \in Threads |-> FALSE]
    /\ missed' = (missed \/ \E t \in Threads : place[t] = "hup")
    /\ lost' = (lost \/ \E t \in Threads : place[t] \in {"hup", "usr1"} /\ ~whole[t])
    /\ UNCHANGED <<fileVars, saves, receiverVars, loopVars, engineVars, owed, late,
                   shared, died>>

-----------------------------------------------------------------------------
(* The bridge's web-socket thread: ConfigReceiver::ReceiveCallback().      *)

(* The ofstream truncates the file.                                        *)
ReceiveUpdate ==
    /\ bridge # "down" /\ connected
    /\ receiver = "idle"
    /\ saves < MaxSaves
    /\ saves' = saves + 1
    /\ update' = saves + 1
    /\ receiverFd' = file
    /\ inode' = [inode EXCEPT ![file] = Empty]
    /\ receiver' = "write"
    /\ UNCHANGED <<file, tmp, portalVars, loopVars, engineVars, history>>

WriteUpdate ==
    /\ receiver = "write"
    /\ \E c \in Written(inode[receiverFd], {update}) :
          inode' = [inode EXCEPT ![receiverFd] = c]
    /\ receiverFd' = None
    /\ update' = None
    /\ receiver' = "hup"
    /\ UNCHANGED <<file, tmp, saves, portalVars, loopVars, engineVars, history>>

SignalEngine ==
    /\ receiver = "hup"
    /\ Hup
    /\ receiver' = "idle"
    /\ UNCHANGED <<fileVars, saves, portalVars, receiverFd, update, loopVars, history>>

Receiver == ReceiveUpdate \/ WriteUpdate \/ SignalEngine

-----------------------------------------------------------------------------
(* The bridge's main loop, from the flag to the end of the upload.         *)

(* graphics_changed and connected; try_send_graphics_upload() reads the   *)
(* file.  One that does not parse leaves the flag for the next round.     *)
ReadForUpload ==
    /\ bridge = "loop"
    /\ graphics_changed /\ connected
    /\ Parses(Content)
    /\ upload' = Content.saves
    /\ late' = FALSE /\ lost' = FALSE
    /\ bridge' = "send"
    /\ UNCHANGED <<fileVars, saves, portalVars, receiverVars, graphics_changed,
                   connected, uploaded, engineVars, owed, shared, died, missed>>

(* Fault to set against SendUpload: the result of send() is not looked at. *)
SendUnchecked ==
    /\ bridge = "send"
    /\ uploaded' = IF connected THEN upload ELSE uploaded
    /\ upload' = {}
    /\ bridge' = "clear"
    /\ UNCHANGED <<fileVars, saves, portalVars, receiverVars, graphics_changed,
                   connected, engineVars, history>>

(* ws.send(): refused without a connection, and lost on a dead one.       *)
SendUpload ==
    /\ bridge = "send"
    /\ \/ /\ connected
          /\ uploaded' = upload
          /\ bridge' = "clear"
          /\ UNCHANGED lost
       \/ /\ connected
          /\ lost' = TRUE
          /\ bridge' = "clear"
          /\ UNCHANGED uploaded
       \/ /\ ~connected
          /\ bridge' = "loop"
          /\ UNCHANGED <<uploaded, lost>>
    /\ upload' = {}
    /\ UNCHANGED <<fileVars, saves, portalVars, receiverVars, graphics_changed,
                   connected, engineVars, owed, late, shared, died, missed>>

ClearFlag ==
    /\ bridge = "clear"
    /\ graphics_changed' = FALSE
    /\ bridge' = "loop"
    /\ UNCHANGED <<fileVars, saves, portalVars, receiverVars, upload, connected,
                   uploaded, engineVars, history>>

Connection ==
    /\ bridge # "down"
    /\ connected' = ~connected
    /\ UNCHANGED <<fileVars, saves, portalVars, receiverVars, bridge,
                   graphics_changed, upload, uploaded, engineVars, history>>

BridgeStart ==
    /\ bridge = "down"
    /\ bridge' = "loop"
    /\ UNCHANGED <<fileVars, saves, portalVars, receiverVars, graphics_changed,
                   upload, connected, uploaded, engineVars, history>>

(* A stop or a crash; a stop waits for the web-socket thread.             *)
BridgeEnds ==
    /\ bridge # "down"
    /\ bridge' = "down"
    /\ graphics_changed' = FALSE
    /\ upload' = {}
    /\ connected' = FALSE
    /\ receiver' = "idle" /\ receiverFd' = None /\ update' = None
    /\ lost' = (lost \/ graphics_changed)
    /\ died' = (died \/ receiver # "idle")
    /\ UNCHANGED <<fileVars, saves, portalVars, uploaded, engineVars, owed, late,
                   shared, missed>>

MainLoop == ReadForUpload \/ SendUpload \/ ClearFlag

-----------------------------------------------------------------------------
(* The graphics engine.                                                    *)

(* load_display_config(): the parser throws, which nobody catches, and    *)
(* systemd restarts the process.                                           *)
LoadConfig ==
    IF Parses(Content)
    THEN engine' = "build" /\ display_cfg' = Content.saves /\ missed' = FALSE
    ELSE engine' = "failed" /\ UNCHANGED <<display_cfg, missed>>

EngineExec(from) ==
    /\ engine = from
    /\ engine' = "exec"
    /\ reload_flag' = FALSE
    /\ UNCHANGED <<fileVars, saves, portalVars, receiverVars, loopVars, display_cfg,
                   shown, history>>

EngineInstall ==
    /\ engine = "exec"
    /\ engine' = "init"
    /\ UNCHANGED <<fileVars, saves, portalVars, receiverVars, loopVars, reload_flag,
                   display_cfg, shown, history>>

TestFlag ==
    /\ engine = "loop"
    /\ reload_flag
    /\ reload_flag' = FALSE
    /\ engine' = "load"
    /\ UNCHANGED <<fileVars, saves, portalVars, receiverVars, loopVars, display_cfg,
                   shown, history>>

(* The first load, behind the handlers, and the ones behind the flag.     *)
Load ==
    /\ engine \in {"init", "load"}
    /\ LoadConfig
    /\ UNCHANGED <<fileVars, saves, portalVars, receiverVars, loopVars, reload_flag,
                   shown, owed, late, lost, shared, died>>

(* Fault to set against Build: the flag is cleared behind the load.        *)
BuildThenClear ==
    /\ engine = "build"
    /\ engine' = "loop"
    /\ shown' = display_cfg
    /\ reload_flag' = FALSE
    /\ UNCHANGED <<fileVars, saves, portalVars, receiverVars, loopVars, display_cfg,
                   history>>

(* build_screens(display_cfg).                                             *)
Build ==
    /\ engine = "build"
    /\ engine' = "loop"
    /\ shown' = display_cfg
    /\ UNCHANGED <<fileVars, saves, portalVars, receiverVars, loopVars, reload_flag,
                   display_cfg, history>>

EngineStop ==
    /\ engine \in {"exec", "init", "loop", "load", "build"}
    /\ engine' = "stopped"
    /\ UNCHANGED <<fileVars, saves, portalVars, receiverVars, loopVars, reload_flag,
                   display_cfg, shown, history>>

Engine ==
    \/ EngineExec("failed")
    \/ EngineInstall
    \/ TestFlag
    \/ Load
    \/ Build

-----------------------------------------------------------------------------
Next ==
    \/ \E t \in Threads : Request(t)
    \/ PortalEnds
    \/ Receiver
    \/ MainLoop
    \/ Connection
    \/ BridgeStart
    \/ BridgeEnds
    \/ Engine
    \/ EngineExec("stopped")
    \/ EngineStop

Spec == Init /\ [][Next]_vars

(* Whatever a request, a message, a flag or systemd has begun goes on.    *)
Fairness ==
    /\ \A t \in Threads : WF_vars(place[t] # "idle" /\ Request(t))
    /\ WF_vars(receiver # "idle" /\ Receiver)
    /\ WF_vars(Engine)

FairSpec == Spec /\ Fairness

-----------------------------------------------------------------------------
TypeOK ==
    /\ file \in Inodes /\ tmp \in Inodes \cup {None}
    /\ inode \in [Inodes -> Contents]
    /\ saves \in 0..MaxSaves
    /\ place \in [Threads -> {"idle", "open", "write", "rename", "unlink",
                               "hup", "usr1"}]
    /\ doc \in [Threads -> SUBSET Saves]
    /\ fd \in [Threads -> Inodes \cup {None}]
    /\ whole \in [Threads -> BOOLEAN]
    /\ receiver \in {"idle", "write", "hup"}
    /\ receiverFd \in Inodes \cup {None} /\ update \in Saves \cup {None}
    /\ bridge \in {"down", "loop", "send", "clear"}
    /\ graphics_changed \in BOOLEAN /\ connected \in BOOLEAN
    /\ upload \subseteq Saves /\ uploaded \subseteq Saves
    /\ engine \in {"stopped", "failed", "exec", "init", "loop", "load", "build"}
    /\ reload_flag \in BOOLEAN
    /\ display_cfg \subseteq Saves /\ shown \subseteq Saves
    /\ owed \subseteq Saves
    /\ {late, lost, shared, died, missed} \subseteq BOOLEAN

Quiet == receiver = "idle" /\ \A t \in Threads : place[t] = "idle"

\* No thread has opened a temporary file that another was about to write or
\* to rename, no update was cut short.
Orderly == ~shared /\ ~died

(* What is under the name parses except while an update rewrites it: the  *)
(* saves of the portal are never seen half-written.                        *)
FileIsWhole == Orderly /\ receiver # "write" => Parses(Content)

(* When every writer has finished and no reload is pending, the engine    *)
(* shows what is in the file, whoever wrote last and whatever it read     *)
(* meanwhile, unless the portal ended before it sent the signal.           *)
ShowsTheFile ==
    Orderly /\ ~missed /\ Quiet /\ engine = "loop" /\ ~reload_flag
        => shown = Content.saves

(* "trigger send to cloud" (server.py, write_graphics_config): once no    *)
(* upload is pending, the cloud has every save that triggered one at a    *)
(* running bridge and is still in the file, if no upload was lost on the  *)
(* way.                                                                    *)
TriggeredIsUploaded ==
    Orderly /\ ~lost /\ Quiet /\ bridge = "loop" /\ ~graphics_changed
        => owed \cap Content.saves \subseteq uploaded

(* That is so for triggers that do not come between the reading of the    *)
(* file for an upload and the clearing of the flag behind it.             *)
UploadedUnlessLate == ~late => TriggeredIsUploaded

(* The engine ends up with the file on its screen unless SIGHUP finds it   *)
(* without a handler or is never sent.                                     *)
EngineCatchesUp ==
    <>[](Orderly /\ ~missed /\ engine # "stopped")
        => []<>(engine = "loop" /\ shown = Content.saves)
=============================================================================
