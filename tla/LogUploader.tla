---------------------------- MODULE LogUploader ----------------------------
(***************************************************************************)
(* The upload thread of the cloud bridge (src/cloud-bridge/src/            *)
(* log_uploader.cpp), the connection it sends on (ws_client.cpp), and the  *)
(* cloud as the uploader relies on it.  A chunk carries one entry.         *)
(*                                                                         *)
(* `connected` is the flag the thread reads; the callbacks of the          *)
(* web-socket library's own thread set it, so it changes between any two   *)
(* steps of an upload and lags behind the socket, `alive`.  What is sent   *)
(* on a dead socket is lost though send() reports success.                 *)
(***************************************************************************)
EXTENDS LogFiles

VARIABLES
    uploader,  \* where the thread is in upload_loop and upload_file
    running,   \* running_
    todo,      \* markers the directory iterator has still to visit
    target,    \* the name being uploaded
    fd,        \* the inode it reads
    chunks,    \* chunk_index
    connected, \* connected_
    alive,     \* the socket delivers
    part,      \* the cloud's partial transfer of each name: the chunks, each
               \* with the recording its entry came from
    saved,     \* entries of each recording in transfers the cloud has closed
    endSent,   \* this upload's log_upload_end went to a connected socket
    disturbed  \* FALSE only in an upload whose socket has lived since its
               \* log_upload_start (both for the properties alone)

linkVars  == <<connected, alive>>
cloudVars == <<part, saved>>
threadVars == <<uploader, running, todo, target, fd, chunks>>
uploaderVars == <<threadVars, linkVars, cloudVars, endSent, disturbed>>

Chunks == [index : 0..(MaxEntries - 1), owner : Sessions]

UploaderInit ==
    /\ uploader = "down"
    /\ running = FALSE
    /\ todo = {}
    /\ target = NoName
    /\ fd = NoFile
    /\ chunks = 0
    /\ connected = FALSE
    /\ alive = FALSE
    /\ part = [n \in Names |-> {}]
    /\ saved = [s \in Sessions |-> 0]
    /\ endSent = FALSE
    /\ disturbed = TRUE

UploaderTypeOK ==
    /\ uploader \in {"down", "sleep", "scan", "start", "open", "chunk",
                     "check", "end", "removeBin", "removeDone"}
    /\ running \in BOOLEAN
    /\ todo \subseteq Names
    /\ target \in Names \cup {NoName}
    /\ fd \in Sessions \cup {NoFile}
    /\ chunks \in 0..MaxEntries
    /\ connected \in BOOLEAN
    /\ alive \in BOOLEAN
    /\ part \in [Names -> SUBSET Chunks]
    /\ saved \in [Sessions -> 0..MaxEntries]
    /\ endSent \in BOOLEAN
    /\ disturbed \in BOOLEAN

-----------------------------------------------------------------------------
(* The connection.                                                         *)

Open ==
    /\ uploader # "down"
    /\ ~connected
    /\ connected' = TRUE
    /\ alive' = TRUE
    /\ UNCHANGED <<fileVars, threadVars, cloudVars, endSent, disturbed>>

SocketDies ==
    /\ alive
    /\ alive' = FALSE
    /\ disturbed' = TRUE
    /\ UNCHANGED <<fileVars, threadVars, connected, cloudVars, endSent>>

(* The Close or Error callback.                                            *)
Close ==
    /\ connected
    /\ connected' = FALSE
    /\ alive' = FALSE
    /\ disturbed' = TRUE
    /\ UNCHANGED <<fileVars, threadVars, cloudVars, endSent>>

(* send(): refused without a connection, and then, or on a dead socket,   *)
(* the cloud sees nothing; the uploader goes on alike.                     *)
Delivered == connected /\ alive

-----------------------------------------------------------------------------
(* The cloud, as the comments in the uploader describe it: a start resets *)
(* the partial transfer of its name, an end closes the transfer when all  *)
(* its chunks are there.                                                   *)

CloudStart(n) ==
    /\ part' = IF Delivered THEN [part EXCEPT ![n] = {}] ELSE part
    /\ UNCHANGED saved

CloudChunk(n, c) ==
    /\ part' = IF Delivered THEN [part EXCEPT ![n] = @ \cup {c}] ELSE part
    /\ UNCHANGED saved

FromRecording(n, s) == Cardinality({c \in part[n] : c.owner = s})

CloudEnd(n, total) ==
    IF Delivered /\ {c.index : c \in part[n]} = 0..(total - 1)
    THEN /\ saved' = [s \in Sessions |->
                        IF FromRecording(n, s) > saved[s]
                        THEN FromRecording(n, s) ELSE saved[s]]
         /\ part' = [part EXCEPT ![n] = {}]
    ELSE UNCHANGED cloudVars

-----------------------------------------------------------------------------
(* upload_loop().                                                          *)

goto(place) == uploader' = place

(* The locals of upload_file() end with its call.                          *)
Forget ==
    /\ target' = NoName
    /\ fd' = NoFile
    /\ chunks' = 0
    /\ endSent' = FALSE
    /\ disturbed' = TRUE

BridgeStart ==
    /\ uploader = "down"
    /\ goto("sleep")
    /\ running' = TRUE
    /\ UNCHANGED <<fileVars, todo, target, fd, chunks, linkVars, cloudVars,
                   endSent, disturbed>>

(* stop(), from the bridge's shutdown.                                     *)
StopRequested ==
    /\ running
    /\ running' = FALSE
    /\ UNCHANGED <<fileVars, uploader, todo, target, fd, chunks, linkVars,
                   cloudVars, endSent, disturbed>>

(* The entries upload_loop keeps; before it, the fault of keeping files.  *)
ListedFiles == {n \in Names : bin[n] # NoFile}
Listed == done

(* The sleep is over and the directory is opened.                          *)
BeginPass ==
    /\ uploader = "sleep"
    /\ running
    /\ connected
    /\ todo' = Listed
    /\ goto("scan")
    /\ UNCHANGED <<fileVars, running, target, fd, chunks, linkVars, cloudVars,
                   endSent, disturbed>>

(* A marker with no file is what a crash between the two removals leaves. *)
ScanOrphan(n) ==
    /\ uploader = "scan"
    /\ running
    /\ n \in todo
    /\ todo' = todo \ {n}
    /\ bin[n] = NoFile
    /\ RemoveMarker(n)
    /\ UNCHANGED <<uploader, running, target, fd, chunks, linkVars, cloudVars,
                   endSent, disturbed>>

ScanMarked(n) ==
    /\ uploader = "scan"
    /\ running
    /\ n \in todo
    /\ todo' = todo \ {n}
    /\ bin[n] # NoFile
    /\ target' = n
    /\ goto("start")
    /\ UNCHANGED <<fileVars, running, fd, chunks, linkVars, cloudVars, endSent,
                   disturbed>>

EndPass ==
    /\ uploader = "scan"
    /\ todo = {} \/ ~running
    /\ todo' = {}
    /\ goto("sleep")
    /\ UNCHANGED <<fileVars, running, target, fd, chunks, linkVars, cloudVars,
                   endSent, disturbed>>

(* The loop sees running_ false, start() has been joined, ws.stop().       *)
BridgeExit ==
    /\ uploader = "sleep"
    /\ ~running
    /\ goto("down")
    /\ connected' = FALSE
    /\ alive' = FALSE
    /\ UNCHANGED <<fileVars, running, todo, target, fd, chunks, cloudVars,
                   endSent, disturbed>>

BridgeCrash ==
    /\ uploader # "down"
    /\ goto("down")
    /\ running' = FALSE
    /\ connected' = FALSE
    /\ alive' = FALSE
    /\ todo' = {}
    /\ Forget
    /\ UNCHANGED <<fileVars, cloudVars>>

-----------------------------------------------------------------------------
(* upload_file().                                                          *)

SendStart ==
    /\ uploader = "start"
    /\ CloudStart(target)
    /\ disturbed' = ~Delivered
    /\ endSent' = FALSE
    /\ goto("open")
    /\ UNCHANGED <<fileVars, running, todo, target, fd, chunks, linkVars>>

OpenForReading ==
    /\ uploader = "open"
    /\ bin[target] # NoFile
    /\ fd' = bin[target]
    /\ chunks' = 0
    /\ goto("chunk")
    /\ UNCHANGED <<fileVars, running, todo, target, linkVars, cloudVars,
                   endSent, disturbed>>

OpenFails ==
    /\ uploader = "open"
    /\ goto("scan")
    /\ Forget
    /\ UNCHANGED <<fileVars, running, todo, linkVars, cloudVars>>

(* fread returns 0; before it, the fault of dropping a last short chunk.  *)
AtEndShort == chunks + 1 >= disk[fd].count
AtEnd == chunks >= disk[fd].count

(* fread and send(), whose result is ignored.                              *)
SendChunk ==
    /\ uploader = "chunk"
    /\ ~AtEnd
    /\ CloudChunk(target, [index |-> chunks, owner |-> disk[fd].owner])
    /\ chunks' = chunks + 1
    /\ goto("check")
    /\ UNCHANGED <<fileVars, running, todo, target, fd, linkVars, endSent,
                   disturbed>>

Check ==
    /\ uploader = "check"
    /\ IF running /\ connected
       THEN goto("chunk") /\ UNCHANGED <<target, fd, chunks, endSent, disturbed>>
       ELSE goto("scan") /\ Forget
    /\ UNCHANGED <<fileVars, running, todo, linkVars, cloudVars>>

EndOfFile ==
    /\ uploader = "chunk"
    /\ AtEnd
    /\ fd' = NoFile
    /\ goto("end")
    /\ UNCHANGED <<fileVars, running, todo, target, chunks, linkVars,
                   cloudVars, endSent, disturbed>>

SendEnd ==
    /\ uploader = "end"
    /\ CloudEnd(target, chunks)
    /\ endSent' = connected
    /\ goto("removeBin")
    /\ UNCHANGED <<fileVars, running, todo, target, fd, chunks, linkVars,
                   disturbed>>

RemoveBin ==
    /\ uploader = "removeBin"
    /\ Unlink(target)
    /\ goto("removeDone")
    /\ UNCHANGED <<running, todo, target, fd, chunks, linkVars, cloudVars,
                   endSent, disturbed>>

RemoveDone ==
    /\ uploader = "removeDone"
    /\ RemoveMarker(target)
    /\ goto("scan")
    /\ Forget
    /\ UNCHANGED <<running, todo, linkVars, cloudVars>>

LinkNext == Open \/ SocketDies \/ Close

ThreadNext ==
    \/ BeginPass
    \/ \E n \in Names : ScanOrphan(n) \/ ScanMarked(n)
    \/ EndPass
    \/ SendStart
    \/ OpenForReading
    \/ OpenFails
    \/ SendChunk
    \/ Check
    \/ EndOfFile
    \/ SendEnd
    \/ RemoveBin
    \/ RemoveDone

UploaderNext ==
    \/ LinkNext
    \/ ThreadNext
    \/ BridgeStart
    \/ StopRequested
    \/ BridgeExit
    \/ BridgeCrash
=============================================================================
