------------------------- MODULE GraphicsSyncProofs -------------------------
(***************************************************************************)
(* Theorems about GraphicsSync, for any number of request threads and      *)
(* saves.                                                                  *)
(*                                                                         *)
(* BaseInv holds always; OrderInv, and the properties that follow from it, *)
(* until a thread opens another's temporary file or the bridge dies over   *)
(* an update.                                                              *)
(***************************************************************************)
EXTENDS GraphicsSync, TLAPS, FiniteSetTheorems

-----------------------------------------------------------------------------
(* The invariants.                                                         *)

(* A file is open in a thread exactly while that thread writes it.         *)
PlaceInv ==
  /\ \A t \in Threads : place[t] = "write" <=> fd[t] # None
  /\ receiver = "write" <=> receiverFd # None
  /\ receiver = "write" <=> update # None

(* Nothing anywhere is of a save that has not begun.                       *)
KnownInv ==
  /\ \A i \in Inodes : inode[i].saves \subseteq 1..saves
  /\ \A t \in Threads : doc[t] \subseteq 1..saves
  /\ owed \subseteq 1..saves
  /\ update <= saves

BaseInv == TypeOK /\ PlaceInv /\ KnownInv

(* One thread at a time writes the temporary file, which holds nothing     *)
(* until then and the whole text afterwards; a request that failed may     *)
(* take its name away, and an end of the portal may leave it behind.       *)
HasTmp(t) == place[t] \in {"write", "rename"}

TmpInv ==
  /\ tmp # None => tmp # file /\ tmp # receiverFd
  /\ \A t \in Threads :
       /\ place[t] = "write" =>
            /\ fd[t] # file /\ fd[t] # receiverFd /\ inode[fd[t]] = Empty
            /\ tmp # None => fd[t] = tmp
       /\ place[t] = "rename" /\ tmp # None => inode[tmp] = Json(doc[t])
  /\ \A t, u \in Threads : HasTmp(t) /\ HasTmp(u) => t = u

(* Only an update that is under way leaves no text in the file.            *)
WholeInv ==
  /\ receiver = "write" => inode[receiverFd] = Empty
  /\ Parses(Content) \/ (receiver = "write" /\ receiverFd = file)

(* What a save of the whole file, or an update, brings is nobody else's    *)
(* until it is in the file.                                                *)
Saving(t) == place[t] \in {"open", "write", "rename"}

FreshInv ==
  /\ \A t \in Threads : whole[t] /\ Saving(t) =>
       \A k \in doc[t] :
         /\ k \notin owed /\ k \notin Content.saves
         /\ \A u \in Threads : u # t => k \notin doc[u]
  /\ receiver = "write" =>
       /\ update \notin owed /\ update \notin Content.saves
       /\ \A t \in Threads : update \notin doc[t]

(* What the engine has read is in the file, or a signal is on its way, or  *)
(* fell with the portal.                                                   *)
HupDue == receiver # "idle" \/ \E t \in Threads : place[t] = "hup"

ShownInv ==
  /\ engine = "build" => display_cfg = Content.saves \/ reload_flag \/ HupDue \/ missed
  /\ engine = "loop" => shown = Content.saves \/ reload_flag \/ HupDue \/ missed

(* The saves owed to the cloud that are in the file are in the upload read *)
(* last, or a trigger is on its way.                                       *)
TriggerDue == \E t \in Threads : ~whole[t] /\ place[t] \in {"hup", "usr1"}

Owed(u) == owed \cap Content.saves \subseteq u \/ TriggerDue

UploadInv ==
  /\ bridge \in {"send", "clear"} => graphics_changed
  /\ ~late /\ ~lost =>
       /\ bridge = "send" => Owed(upload)
       /\ bridge = "clear" => Owed(uploaded)
       /\ bridge \in {"down", "loop"} /\ ~graphics_changed => Owed(uploaded)

OrderInv == TmpInv /\ WholeInv /\ FreshInv /\ ShownInv /\ UploadInv

IInv == BaseInv /\ (Orderly => OrderInv)

-----------------------------------------------------------------------------
(* What the proofs need of the constants.                                  *)
LEMMA Numbers ==
  /\ MaxSaves \in Nat /\ IsFiniteSet(Threads) /\ Cardinality(Threads) \in Nat
  /\ Inodes \subseteq Nat /\ 1 \in Inodes /\ None \notin Inodes /\ None \notin Saves
  BY GraphicsSyncAssumption, FS_CardinalityType DEF GraphicsSyncAssumption, Inodes, Saves, None

(* The three kinds of content.                                             *)
LEMMA Texts ==
  /\ \A s : Json(s).saves = s /\ Parses(Json(s)) /\ Json(s) # Empty /\ Json(s) # Mixed
  /\ Empty.saves = {} /\ ~Parses(Empty) /\ Mixed.saves = {} /\ ~Parses(Mixed)
  /\ \A c \in Contents : c.saves \subseteq Saves
  /\ Empty \in Contents /\ Mixed \in Contents
  /\ \A s : s \subseteq Saves => Json(s) \in Contents
  <1>1. \A s : Json(s).saves = s /\ Json(s).state = "json"
    BY DEF Json
  <1>2. Empty.saves = {} /\ Empty.state = "empty" /\ Mixed.saves = {} /\ Mixed.state = "mixed"
    BY DEF Empty, Mixed
  <1>3. \A s : Parses(Json(s)) /\ Json(s) # Empty /\ Json(s) # Mixed
    BY <1>1, <1>2 DEF Parses
  <1>4. ~Parses(Empty) /\ ~Parses(Mixed)
    BY <1>2 DEF Parses
  <1>5. \A c \in Contents : c.saves \subseteq Saves
    BY <1>1, <1>2, Zenon DEF Contents
  <1>6. Empty \in Contents /\ Mixed \in Contents /\ \A s : s \subseteq Saves => Json(s) \in Contents
    BY Zenon DEF Contents
  <1> QED  BY <1>1, <1>2, <1>3, <1>4, <1>5, <1>6

(* Writing leaves the text, or two that are mixed; on an empty file the    *)
(* text.                                                                   *)
LEMMA Writes ==
  ASSUME NEW c, NEW s, NEW d \in Written(c, s)
  PROVE  /\ d \in {Json(s), Mixed}
         /\ c = Empty => d = Json(s)
  BY DEF Written

(* The types but for the Boolean ones.                                     *)
FileOf ==
  /\ file \in Inodes /\ tmp \in Inodes \cup {None}
  /\ inode \in [Inodes -> Contents]
  /\ saves \in 0..MaxSaves

PortalOf ==
  /\ place \in [Threads -> {"idle", "open", "write", "rename", "unlink", "hup", "usr1"}]
  /\ doc \in [Threads -> SUBSET Saves]
  /\ fd \in [Threads -> Inodes \cup {None}]

ReceiverOf ==
  /\ receiver \in {"idle", "write", "hup"}
  /\ receiverFd \in Inodes \cup {None} /\ update \in Saves \cup {None}

LoopOf ==
  /\ bridge \in {"down", "loop", "send", "clear"}
  /\ upload \subseteq Saves /\ uploaded \subseteq Saves

EngineOf ==
  /\ engine \in {"stopped", "failed", "exec", "init", "loop", "load", "build"}
  /\ display_cfg \subseteq Saves /\ shown \subseteq Saves
  /\ owed \subseteq Saves

Flags ==
  /\ whole \in [Threads -> BOOLEAN]
  /\ graphics_changed \in BOOLEAN /\ connected \in BOOLEAN /\ reload_flag \in BOOLEAN
  /\ {late, lost, shared, died, missed} \subseteq BOOLEAN

(* The types in parts, the Boolean ones apart.                             *)
LEMMA Types ==
  TypeOK <=> FileOf /\ PortalOf /\ ReceiverOf /\ LoopOf /\ EngineOf /\ Flags
  BY Zenon DEF TypeOK, FileOf, PortalOf, ReceiverOf, LoopOf, EngineOf, Flags

(* The Boolean variables stay so.                                          *)
LEMMA FlagsStep ==
  ASSUME Flags, [Next]_vars
  PROVE  Flags'
  <1> USE DEF Flags, Hup, Done, goto, portalVars, receiverVars, loopVars, engineVars, history
  <1>1. CASE \E t \in Threads : BeginSave(t)
    <2> PICK t \in Threads : BeginSave(t)
      BY <1>1
    <2>1. PICK w \in BOOLEAN : whole' = [whole EXCEPT ![t] = w]
      BY Zenon DEF BeginSave
    <2> QED  BY <2>1, Zenon DEF BeginSave
  <1>2. CASE \E t \in Threads :
               OpenTmp(t) \/ WriteTmp(t) \/ WriteFails(t) \/ Rename(t) \/ RenameFails(t)
    BY <1>2, Zenon DEF OpenTmp, WriteTmp, WriteFails, Rename, RenameFails
  <1>3. CASE \E t \in Threads : UnlinkTmp(t) \/ SendHup(t)
    BY <1>3, Zenon DEF UnlinkTmp, SendHup
  <1>4. CASE \E t \in Threads : SendUsr1(t)
    BY <1>4, Zenon DEF SendUsr1
  <1>5. CASE Receiver
    BY <1>5, Zenon DEF Receiver, ReceiveUpdate, WriteUpdate, SignalEngine
  <1>6. CASE MainLoop
    BY <1>6, Zenon DEF MainLoop, ReadForUpload, SendUpload, ClearFlag
  <1>7. CASE Connection \/ BridgeStart \/ BridgeEnds
    BY <1>7, Zenon DEF Connection, BridgeStart, BridgeEnds
  <1>8. CASE Engine \/ EngineExec("stopped") \/ EngineStop
    BY <1>8, Zenon DEF Engine, EngineExec, EngineInstall, TestFlag, Load, LoadConfig, Build,
       EngineStop
  <1>9. CASE PortalEnds
    BY <1>9, Zenon DEF PortalEnds
  <1>10. CASE UNCHANGED vars
    BY <1>10, Zenon DEF vars
  <1> QED
    BY <1>1, <1>2, <1>3, <1>4, <1>5, <1>6, <1>7, <1>8, <1>9, <1>10, Zenon DEF Next, Request

-----------------------------------------------------------------------------
(* There is an inode left for a temporary file.                            *)
LEMMA FreeInode ==
  ASSUME TypeOK, PlaceInv, NEW t \in Threads, place[t] = "open", tmp = None
  PROVE  /\ Free \in Inodes
         /\ Free # file /\ Free # receiverFd
         /\ \A u \in Threads : Free # fd[u]
  <1> DEFINE held == {fd[u] : u \in Threads \ {t}}
             used == {file, tmp, receiverFd} \cup {fd[u] : u \in Threads}
  <1>1. fd \in [Threads -> Inodes \cup {None}] /\ fd[t] = None /\ IsFiniteSet(Threads)
    BY Numbers DEF TypeOK, PlaceInv
  <1>2. IsFiniteSet(Threads \ {t}) /\ Cardinality(Threads \ {t}) = Cardinality(Threads) - 1
    BY <1>1, FS_RemoveElement
  <1>3. IsFiniteSet(held) /\ Cardinality(held) <= Cardinality(Threads) - 1
    <2> DEFINE f == [u \in Threads \ {t} |-> fd[u]]
    <2>1. f \in Surjection(Threads \ {t}, held)
      BY DEF Surjection
    <2> QED  BY <1>2, <2>1, FS_Surjection
  <1>4. IsFiniteSet(held \cup {file} \cup {receiverFd})
        /\ Cardinality(held \cup {file} \cup {receiverFd}) <= Cardinality(Threads) + 1
    <2>1. Cardinality(held) \in Nat /\ Cardinality(Threads) \in Nat
      BY <1>1, <1>3, FS_CardinalityType
    <2> HIDE DEF held
    <2>2. /\ IsFiniteSet(held \cup {file})
          /\ Cardinality(held \cup {file}) \in {Cardinality(held), Cardinality(held) + 1}
      BY <1>3, FS_AddElement
    <2>3. /\ IsFiniteSet((held \cup {file}) \cup {receiverFd})
          /\ Cardinality((held \cup {file}) \cup {receiverFd}) \in
               {Cardinality(held \cup {file}), Cardinality(held \cup {file}) + 1}
      BY <2>2, FS_AddElement
    <2> QED  BY <1>3, <2>1, <2>2, <2>3
  <1>5. Cardinality(Inodes) = Cardinality(Threads) + 2
    BY Numbers, FS_Interval DEF Inodes
  <1>6. ~(Inodes \subseteq held \cup {file} \cup {receiverFd})
    <2>1. Cardinality(held \cup {file} \cup {receiverFd}) \in Nat /\ Cardinality(Threads) \in Nat
      BY <1>1, <1>4, FS_CardinalityType
    <2> HIDE DEF held
    <2> QED  BY <1>4, <1>5, <2>1, FS_Subset
  <1>7. \E i \in Inodes : i \notin used
    BY <1>1, <1>6, Numbers
  <1>8. Free \in Inodes /\ Free \notin used
    BY <1>7 DEF Free
  <1> QED  BY <1>8

-----------------------------------------------------------------------------
(* No thread runs, and the file has a text of no save, at first.           *)
LEMMA BaseInit == Init => BaseInv
  <1> SUFFICES ASSUME Init PROVE BaseInv
    OBVIOUS
  <1>1. Flags
    BY Zenon DEF Init, Flags
  <1>2. \A i \in Inodes : inode[i] \in {Json({}), Empty}
    BY DEF Init
  <1>3. FileOf
    BY <1>2, Numbers, Texts DEF Init, FileOf, None
  <1>4. PortalOf /\ ReceiverOf /\ LoopOf /\ EngineOf
    BY DEF Init, PortalOf, ReceiverOf, LoopOf, EngineOf, None
  <1>5. PlaceInv
    BY DEF Init, PlaceInv
  <1>6. KnownInv
    BY <1>2, Texts DEF Init, KnownInv, None
  <1> QED  BY <1>1, <1>3, <1>4, <1>5, <1>6, Types DEF BaseInv

KnownOf == FileOf /\ PortalOf /\ ReceiverOf /\ PlaceInv /\ KnownInv

(* The text a thread writes is in an inode of its own at first, of saves   *)
(* that have begun.                                                        *)
LEMMA RequestBase ==
  ASSUME KnownOf, TypeOK, NEW t \in Threads, Request(t)
  PROVE  KnownOf' /\ owed' \subseteq Saves
  <1> USE Numbers DEF KnownOf, PortalOf, PlaceInv, KnownInv
  <1>0. \A s \in 0..MaxSaves : 1..s \subseteq Saves
    BY DEF Saves
  <1>1. CASE BeginSave(t)
    <2>1. /\ saves' = saves + 1 /\ saves' \in 0..MaxSaves
          /\ place' = [place EXCEPT ![t] = "open"]
          /\ UNCHANGED <<file, tmp, inode, fd, receiver, receiverFd, update, owed>>
          /\ place[t] = "idle"
      BY <1>1 DEF BeginSave, fileVars, receiverVars, history, FileOf
    <2>2. PICK w \in BOOLEAN :
            doc' = [doc EXCEPT ![t] = {saves + 1} \cup IF w THEN {} ELSE Content.saves]
      BY <1>1 DEF BeginSave
    <2>3. Content.saves \subseteq 1..saves
      BY DEF Content, FileOf
    <2>4. {saves + 1} \cup (IF w THEN {} ELSE Content.saves) \subseteq 1..(saves + 1)
      BY <2>3 DEF FileOf
    <2>5. /\ doc' \in [Threads -> SUBSET Saves]
          /\ \A u \in Threads : doc'[u] \subseteq 1..saves'
      BY <1>0, <2>1, <2>2, <2>4 DEF FileOf
    <2>6. PlaceInv'
      BY <2>1
    <2>7. KnownInv'
      <3>1. 1..saves \subseteq 1..saves' /\ update \in Nat /\ update <= saves'
        BY <2>1 DEF FileOf, ReceiverOf, Saves, None
      <3> QED  BY <2>1, <2>5, <3>1
    <2>8. owed' \subseteq Saves
      BY <1>0, <2>1 DEF FileOf
    <2> QED  BY <2>1, <2>5, <2>6, <2>7, <2>8 DEF FileOf, ReceiverOf
  <1>2. CASE OpenTmp(t)
    <2>1. PICK i \in Inodes : /\ tmp' = i /\ inode' = [inode EXCEPT ![i] = Empty]
                              /\ fd' = [fd EXCEPT ![t] = i]
      BY <1>2, FreeInode DEF OpenTmp, FileOf, None
    <2>2. /\ place[t] = "open" /\ place' = [place EXCEPT ![t] = "write"]
          /\ UNCHANGED <<file, saves, doc, receiver, receiverFd, update, owed>>
      BY <1>2 DEF OpenTmp, goto, receiverVars
    <2>3. FileOf'
      BY <2>1, <2>2, Texts DEF FileOf
    <2>4. PlaceInv' /\ PortalOf'
      BY <2>1, <2>2
    <2>5. KnownInv'
      BY <2>1, <2>2, Texts DEF FileOf
    <2> QED  BY <1>0, <2>2, <2>3, <2>4, <2>5 DEF FileOf, ReceiverOf
  <1>3. CASE WriteTmp(t)
    <2>1. place[t] = "write" /\ fd[t] \in Inodes
      BY <1>3 DEF WriteTmp
    <2>2. PICK c \in Written(inode[fd[t]], doc[t]) : inode' = [inode EXCEPT ![fd[t]] = c]
      BY <1>3 DEF WriteTmp
    <2>3. c \in Contents /\ c.saves \subseteq 1..saves
      BY Texts, Writes
    <2>4. /\ place' = [place EXCEPT ![t] = "rename"] /\ fd' = [fd EXCEPT ![t] = None]
          /\ UNCHANGED <<file, tmp, saves, doc, receiver, receiverFd, update, owed>>
      BY <1>3 DEF WriteTmp, goto, receiverVars, history
    <2>5. FileOf' /\ PortalOf' /\ PlaceInv'
      BY <2>1, <2>2, <2>3, <2>4 DEF FileOf
    <2>6. KnownInv'
      BY <2>1, <2>2, <2>3, <2>4 DEF FileOf
    <2> QED  BY <1>0, <2>4, <2>5, <2>6 DEF FileOf, ReceiverOf
  <1>4. CASE Rename(t) \/ RenameFails(t)
    <2>1. /\ place[t] = "rename"
          /\ \E p \in {"hup", "unlink"} : place' = [place EXCEPT ![t] = p]
          /\ \/ UNCHANGED <<file, tmp>>
             \/ tmp # None /\ file' = tmp /\ tmp' = None
          /\ UNCHANGED <<inode, saves, doc, fd, receiver, receiverFd, update, owed>>
      BY <1>4 DEF Rename, RenameFails, goto, fileVars, receiverVars, history
    <2>2. FileOf' /\ PortalOf' /\ PlaceInv'
      BY <2>1 DEF FileOf
    <2> QED  BY <1>0, <2>1, <2>2 DEF FileOf, ReceiverOf
  <1>5. CASE UnlinkTmp(t) \/ SendHup(t) \/ SendUsr1(t)
    <2>1. /\ place[t] # "write"
          /\ \E p \in {"idle", "usr1"} : place' = [place EXCEPT ![t] = p]
          /\ doc' \in {doc, [doc EXCEPT ![t] = {}]}
          /\ tmp' \in {tmp, None} /\ owed' \in {owed, owed \cup doc[t]}
          /\ UNCHANGED <<file, inode, saves, fd, receiver, receiverFd, update>>
      BY <1>5 DEF UnlinkTmp, SendHup, SendUsr1, Done, goto, fileVars, receiverVars, history
    <2>2. FileOf' /\ PortalOf' /\ PlaceInv'
      BY <2>1 DEF FileOf
    <2>3. KnownInv'
      BY <2>1
    <2> QED  BY <1>0, <2>1, <2>2, <2>3 DEF FileOf, ReceiverOf
  <1>6. CASE WriteFails(t)
    <2>1. /\ place' = [place EXCEPT ![t] = "unlink"] /\ fd' = [fd EXCEPT ![t] = None]
          /\ UNCHANGED <<file, tmp, inode, saves, doc, receiver, receiverFd, update, owed>>
      BY <1>6 DEF WriteFails, goto, fileVars, receiverVars, history
    <2>2. PortalOf' /\ PlaceInv'
      BY <2>1
    <2> QED  BY <1>0, <2>1, <2>2 DEF FileOf, ReceiverOf
  <1> QED  BY <1>1, <1>2, <1>3, <1>4, <1>5, <1>6 DEF Request

(* An end of the portal leaves no request, and the files as they are.      *)
LEMMA EndsBase ==
  ASSUME KnownOf, TypeOK, PortalEnds
  PROVE  KnownOf' /\ owed' \subseteq Saves
  <1>1. /\ \A t \in Threads : place'[t] = "idle" /\ doc'[t] = {} /\ fd'[t] = None
        /\ UNCHANGED <<file, tmp, inode, saves, receiver, receiverFd, update, owed>>
    BY DEF PortalEnds, fileVars, receiverVars
  <1>2. PortalOf'
    BY DEF PortalEnds, PortalOf
  <1>3. FileOf' /\ ReceiverOf' /\ PlaceInv' /\ KnownInv'
    BY <1>1 DEF KnownOf, FileOf, ReceiverOf, PlaceInv, KnownInv
  <1> QED  BY <1>1, <1>2, <1>3 DEF KnownOf, TypeOK

(* The web-socket thread, whose file may be open in nobody else's hands.   *)
LEMMA ReceiverBase ==
  ASSUME KnownOf, TypeOK, Receiver
  PROVE  KnownOf' /\ owed' \subseteq Saves
  <1> USE Numbers DEF KnownOf, ReceiverOf, PlaceInv, KnownInv, portalVars
  <1>0. \A s \in 0..MaxSaves : 1..s \subseteq Saves
    BY DEF Saves
  <1>1. CASE ReceiveUpdate
    <2>1. /\ saves' = saves + 1 /\ saves' \in 0..MaxSaves /\ update' = saves + 1
          /\ receiverFd' = file /\ inode' = [inode EXCEPT ![file] = Empty]
          /\ receiver' = "write"
          /\ UNCHANGED <<file, tmp, place, doc, fd, owed>>
      BY <1>1 DEF ReceiveUpdate, history, FileOf
    <2>2. update' \in Saves /\ update' # None
      BY <2>1 DEF Saves, None, FileOf
    <2>3. FileOf' /\ ReceiverOf' /\ PlaceInv'
      BY <2>1, <2>2, Texts DEF FileOf
    <2>4. ASSUME NEW i \in Inodes PROVE inode'[i].saves \subseteq 1..saves'
      BY <2>1, Texts DEF FileOf
    <2>5. KnownInv'
      BY <2>1, <2>4 DEF FileOf
    <2> QED  BY <1>0, <2>1, <2>3, <2>5 DEF FileOf, PortalOf
  <1>2. CASE WriteUpdate
    <2>1. PICK c \in Written(inode[receiverFd], {update}) :
            inode' = [inode EXCEPT ![receiverFd] = c]
      BY <1>2 DEF WriteUpdate
    <2>2. /\ receiver = "write" /\ receiverFd' = None /\ update' = None /\ receiver' = "hup"
          /\ UNCHANGED <<file, tmp, saves, place, doc, fd, owed>>
      BY <1>2 DEF WriteUpdate, history
    <2>3. update \in Saves /\ {update} \subseteq 1..saves
      BY <2>2 DEF Saves, FileOf
    <2>4. c \in Contents /\ c.saves \subseteq 1..saves
      BY <2>3, Texts, Writes
    <2>5. FileOf' /\ ReceiverOf' /\ PlaceInv'
      BY <2>1, <2>2, <2>4 DEF FileOf
    <2>6. KnownInv'
      BY <2>1, <2>2, <2>4 DEF FileOf, None
    <2> QED  BY <1>0, <2>2, <2>5, <2>6 DEF FileOf, PortalOf
  <1>3. CASE SignalEngine
    <2>1. /\ receiver = "hup" /\ receiver' = "idle"
          /\ UNCHANGED <<file, tmp, inode, saves, place, doc, fd, receiverFd, update, owed>>
      BY <1>3 DEF SignalEngine, fileVars, history
    <2> QED  BY <1>0, <2>1 DEF FileOf, PortalOf
  <1> QED  BY <1>1, <1>2, <1>3 DEF Receiver

Process ==
  \/ MainLoop \/ Connection \/ BridgeStart \/ BridgeEnds
  \/ Engine \/ EngineExec("stopped") \/ EngineStop

(* The other processes leave the files and the portal alone.               *)
LEMMA ProcessFrame ==
  ASSUME Process
  PROVE  /\ UNCHANGED <<file, tmp, inode, saves, place, doc, fd, whole, owed, shared>>
         /\ \/ UNCHANGED <<receiver, receiverFd, update, died>>
            \/ BridgeEnds
  BY DEF Process, MainLoop, ReadForUpload, SendUpload, ClearFlag, Connection, BridgeStart,
     BridgeEnds, Engine, EngineExec, EngineInstall, TestFlag, Load, Build, EngineStop, fileVars,
     portalVars, receiverVars, history

(* So their steps keep the types, and the files of who holds them.         *)
LEMMA ProcessBase ==
  ASSUME KnownOf, TypeOK, Process
  PROVE  KnownOf' /\ owed' \subseteq Saves
  <1>1. UNCHANGED <<file, tmp, inode, saves, place, doc, fd, owed>>
    BY ProcessFrame
  <1>2. CASE UNCHANGED <<receiver, receiverFd, update>>
    BY <1>1, <1>2
       DEF KnownOf, FileOf, PortalOf, ReceiverOf, PlaceInv, KnownInv, TypeOK
  <1>3. CASE receiver' = "idle" /\ receiverFd' = None /\ update' = None
    BY <1>1, <1>3, Numbers
       DEF KnownOf, FileOf, PortalOf, ReceiverOf, PlaceInv, KnownInv, TypeOK, None
  <1> QED  BY <1>2, <1>3, ProcessFrame DEF BridgeEnds

(* What the bridge and the engine have read is of saves.                   *)
LEMMA ReaderBase ==
  ASSUME TypeOK, KnownOf, LoopOf, EngineOf, Next
  PROVE  LoopOf' /\ engine' \in {"stopped", "failed", "exec", "init", "loop", "load", "build"}
         /\ display_cfg' \subseteq Saves /\ shown' \subseteq Saves
  <1>0. Content.saves \subseteq Saves
    BY Texts DEF KnownOf, FileOf, Content
  <1>1. CASE (\E t \in Threads : Request(t)) \/ PortalEnds \/ Receiver
    <2>1. /\ UNCHANGED <<bridge, upload, uploaded, display_cfg, shown>>
          /\ engine' \in {engine, "stopped"}
      BY <1>1 DEF Request, BeginSave, OpenTmp, WriteTmp, WriteFails, Rename, RenameFails,
         UnlinkTmp, SendHup, SendUsr1, PortalEnds, Receiver, ReceiveUpdate, WriteUpdate,
         SignalEngine, Hup, loopVars, engineVars
    <2> QED  BY <2>1 DEF LoopOf, EngineOf
  <1>2. CASE MainLoop \/ Connection \/ BridgeStart \/ BridgeEnds
    BY <1>0, <1>2 DEF LoopOf, EngineOf, MainLoop, ReadForUpload, SendUpload, ClearFlag,
       Connection, BridgeStart, BridgeEnds, engineVars
  <1>3. CASE Engine \/ EngineExec("stopped") \/ EngineStop
    BY <1>0, <1>3 DEF LoopOf, EngineOf, Engine, EngineExec, EngineInstall, TestFlag, Load,
       LoadConfig, Build, EngineStop, loopVars
  <1> QED  BY <1>1, <1>2, <1>3 DEF Next

(* The types, who holds which file, and which saves there are, after any   *)
(* step.                                                                   *)
LEMMA BaseStep ==
  ASSUME BaseInv, [Next]_vars
  PROVE  BaseInv'
  <1>1. TypeOK /\ KnownOf /\ LoopOf /\ EngineOf /\ Flags
    BY Types DEF BaseInv, KnownOf
  <1>2. Flags'
    BY <1>1, FlagsStep
  <1>3. CASE Next
    <2>1. KnownOf' /\ owed' \subseteq Saves
      BY <1>1, <1>3, RequestBase, EndsBase, ReceiverBase, ProcessBase DEF Next, Process
    <2>2. LoopOf' /\ engine' \in {"stopped", "failed", "exec", "init", "loop", "load", "build"}
          /\ display_cfg' \subseteq Saves /\ shown' \subseteq Saves
      BY <1>1, <1>3, ReaderBase
    <2>3. EngineOf'
      BY <2>1, <2>2 DEF EngineOf
    <2>4. TypeOK'
      BY <1>2, <2>1, <2>2, <2>3, Types DEF KnownOf, TypeOK, FileOf, PortalOf, ReceiverOf, LoopOf,
         EngineOf, Flags
    <2> QED  BY <2>1, <2>4 DEF BaseInv, KnownOf
  <1>4. CASE UNCHANGED vars
    <2>1. FileOf' /\ PortalOf' /\ ReceiverOf' /\ LoopOf' /\ EngineOf' /\ PlaceInv' /\ KnownInv'
      BY <1>1, <1>4 DEF vars, fileVars, portalVars, receiverVars, loopVars, engineVars, history,
         KnownOf, FileOf, PortalOf, ReceiverOf, LoopOf, EngineOf, PlaceInv, KnownInv
    <2> QED  BY <1>2, <2>1 DEF BaseInv, TypeOK, FileOf, PortalOf, ReceiverOf, LoopOf,
               EngineOf, Flags
  <1> QED  BY <1>3, <1>4

(* So they hold always.                                                    *)
THEOREM BaseInvariance == Spec => []BaseInv
  BY BaseInit, BaseStep, PTL DEF Spec

-----------------------------------------------------------------------------
(* Until a thread opens another's temporary file or the bridge dies over   *)
(* an update.                                                              *)

(* There is no temporary file, nothing is owed and nobody reads at first.  *)
LEMMA OrderInit == Init => OrderInv
  <1> SUFFICES ASSUME Init PROVE OrderInv
    OBVIOUS
  <1>1. Content = Json({})
    BY Numbers DEF Init, Content
  <1>2. TmpInv /\ WholeInv /\ FreshInv
    BY <1>1, Texts DEF Init, TmpInv, WholeInv, FreshInv, HasTmp, Saving
  <1>3. ShownInv /\ UploadInv
    BY DEF Init, ShownInv, UploadInv, Owed
  <1> QED  BY <1>2, <1>3 DEF OrderInv

(* What has gone wrong stays so.                                           *)
LEMMA OrderlyBefore ==
  ASSUME [Next]_vars, Orderly'
  PROVE  /\ Orderly
         /\ \A t \in Threads : OpenTmp(t) => \A u \in Threads : ~HasTmp(u)
         /\ BridgeEnds => receiver = "idle"
  <1>1. /\ \A t \in Threads : OpenTmp(t) => \A u \in Threads : ~HasTmp(u)
        /\ BridgeEnds => receiver = "idle"
    <2>1. ASSUME NEW t \in Threads, OpenTmp(t), NEW u \in Threads PROVE ~HasTmp(u)
      <3>1. CASE u = t
        BY <2>1, <3>1 DEF OpenTmp, HasTmp
      <3>2. CASE u # t
        <4>1. ~(place[u] \in {"write", "rename"})
          BY <2>1, <3>2, Zenon DEF Orderly, OpenTmp
        <4> QED  BY <4>1 DEF HasTmp
      <3> QED  BY <3>1, <3>2
    <2>2. BridgeEnds => receiver = "idle"
      BY Zenon DEF Orderly, BridgeEnds
    <2> QED  BY <2>1, <2>2
  <1>2. CASE UNCHANGED vars
    BY <1>1, <1>2 DEF vars, history, Orderly
  <1>3. CASE (\E t \in Threads : Request(t)) \/ PortalEnds
    <2>1. died' = died /\ (shared' = shared \/ \E t \in Threads : OpenTmp(t))
      BY <1>3 DEF Request, BeginSave, OpenTmp, WriteTmp, WriteFails, Rename, RenameFails,
         UnlinkTmp, SendHup, SendUsr1, PortalEnds, history
    <2>2. (\E t \in Threads : OpenTmp(t)) => (shared => shared')
      BY Zenon DEF OpenTmp
    <2> QED  BY <1>1, <2>1, <2>2 DEF Orderly
  <1>4. CASE Receiver \/ Process
    <2>1. shared' = shared /\ (died' = died \/ BridgeEnds)
      BY <1>4, ProcessFrame DEF Receiver, ReceiveUpdate, WriteUpdate, SignalEngine, history
    <2>2. BridgeEnds => (died => died')
      BY Zenon DEF BridgeEnds
    <2> QED  BY <1>1, <2>1, <2>2 DEF Orderly
  <1> QED  BY <1>2, <1>3, <1>4 DEF Next, Process

CoreInv == TmpInv /\ WholeInv /\ FreshInv

(* A request begins with a save nobody has seen.                           *)
LEMMA BeginCore ==
  ASSUME BaseInv, CoreInv, NEW t \in Threads, BeginSave(t)
  PROVE  CoreInv' /\ Content' = Content
  <1>1. FileOf /\ PortalOf /\ ReceiverOf /\ PlaceInv /\ KnownInv
    BY Types DEF BaseInv
  <1>2. /\ place[t] = "idle" /\ place' = [place EXCEPT ![t] = "open"]
        /\ UNCHANGED <<file, tmp, inode, fd, receiver, receiverFd, update, owed>>
    BY DEF BeginSave, fileVars, receiverVars, history
  <1>3. PICK w \in BOOLEAN :
          /\ whole' = [whole EXCEPT ![t] = w]
          /\ doc' = [doc EXCEPT ![t] = {saves + 1} \cup IF w THEN {} ELSE Content.saves]
    BY Zenon DEF BeginSave
  <1>4. Content' = Content
    BY <1>2 DEF Content
  <1>5. TmpInv' /\ WholeInv'
    BY <1>1, <1>2, <1>3, <1>4 DEF CoreInv, TmpInv, WholeInv, HasTmp, PortalOf
  <1>6. /\ saves + 1 \notin owed /\ saves + 1 \notin Content.saves
        /\ \A u \in Threads : saves + 1 \notin doc[u]
        /\ update # saves + 1
    BY <1>1, Numbers DEF FileOf, KnownInv, Content, ReceiverOf, Saves, None
  <1>7. ASSUME NEW v \in Threads, whole'[v], Saving(v)', NEW k \in doc'[v]
        PROVE  /\ k \notin owed /\ k \notin Content.saves
               /\ \A u \in Threads : u # v => k \notin doc'[u]
    <2>1. CASE v = t
      <3>1. whole'[t] = w
        BY <1>3, Types, Zenon DEF BaseInv, Flags
      <3>2. k = saves + 1
        BY <1>1, <1>3, <1>7, <2>1, <3>1 DEF PortalOf
      <3> QED  BY <1>1, <1>3, <1>6, <2>1, <3>2 DEF PortalOf
    <2>2. CASE v # t
      <3>1. whole[v] /\ Saving(v) /\ k \in doc[v]
        BY <1>1, <1>2, <1>3, <1>7, <2>2, Types DEF PortalOf, Saving, BaseInv, Flags
      <3>2. /\ k \notin owed /\ k \notin Content.saves
            /\ \A u \in Threads : u # v => k \notin doc[u]
        BY <3>1 DEF CoreInv, FreshInv
      <3>3. k # saves + 1
        BY <1>6, <3>1
      <3> QED  BY <1>1, <1>3, <3>2, <3>3 DEF PortalOf
    <2> QED  BY <2>1, <2>2
  <1>8. receiver = "write" => /\ update \notin owed /\ update \notin Content.saves
                              /\ \A u \in Threads : update \notin doc'[u]
    BY <1>1, <1>3, <1>6 DEF CoreInv, FreshInv, PortalOf
  <1>9. FreshInv'
    BY <1>2, <1>4, <1>7, <1>8 DEF FreshInv
  <1> QED  BY <1>4, <1>5, <1>9 DEF CoreInv

(* The thread takes an inode nobody has, or the one left behind.           *)
LEMMA OpenCore ==
  ASSUME BaseInv, CoreInv, NEW t \in Threads, OpenTmp(t), \A u \in Threads : ~HasTmp(u)
  PROVE  CoreInv' /\ Content' = Content
  <1>1. FileOf /\ PortalOf /\ ReceiverOf /\ PlaceInv
    BY Types DEF BaseInv
  <1> DEFINE i == IF tmp = None THEN Free ELSE tmp
  <1>2. /\ place[t] = "open" /\ place' = [place EXCEPT ![t] = "write"]
        /\ tmp' = i /\ inode' = [inode EXCEPT ![i] = Empty]
        /\ fd' = [fd EXCEPT ![t] = i]
        /\ UNCHANGED <<file, doc, whole, receiver, receiverFd, update, owed>>
    BY DEF OpenTmp, goto, receiverVars
  <1>3. i \in Inodes /\ i # file /\ i # receiverFd /\ i # None
    <2>1. CASE tmp = None
      BY <1>2, <2>1, FreeInode, Numbers DEF BaseInv
    <2>2. CASE tmp # None
      BY <1>1, <2>2 DEF FileOf, CoreInv, TmpInv
    <2> QED  BY <2>1, <2>2
  <1> HIDE DEF i
  <1>4. /\ Content' = Content /\ inode'[i] = Empty
        /\ receiver = "write" => inode'[receiverFd] = inode[receiverFd]
    BY <1>1, <1>2, <1>3 DEF FileOf, ReceiverOf, Content, PlaceInv
  <1>6. \A u \in Threads : place'[u] = IF u = t THEN "write" ELSE place[u]
    BY <1>1, <1>2 DEF PortalOf
  <1>7. TmpInv'
    BY <1>1, <1>2, <1>3, <1>4, <1>6 DEF TmpInv, HasTmp, PortalOf
  <1>8. WholeInv'
    BY <1>2, <1>4 DEF CoreInv, WholeInv
  <1>9. FreshInv'
    BY <1>2, <1>4, <1>6 DEF CoreInv, FreshInv, Saving
  <1> QED  BY <1>4, <1>7, <1>8, <1>9 DEF CoreInv

(* The whole text goes into the file that is the thread's alone.           *)
LEMMA WriteCore ==
  ASSUME BaseInv, CoreInv, NEW t \in Threads, WriteTmp(t)
  PROVE  CoreInv' /\ Content' = Content
  <1>1. FileOf /\ PortalOf /\ ReceiverOf /\ PlaceInv
    BY Types DEF BaseInv
  <1>2. /\ place[t] = "write" /\ place' = [place EXCEPT ![t] = "rename"]
        /\ fd' = [fd EXCEPT ![t] = None]
        /\ UNCHANGED <<file, tmp, doc, whole, receiver, receiverFd, update, owed>>
    BY DEF WriteTmp, goto, receiverVars, history
  <1>3. /\ inode[fd[t]] = Empty /\ fd[t] \in Inodes /\ fd[t] # file /\ fd[t] # receiverFd
        /\ tmp # None => fd[t] = tmp
        /\ \A u \in Threads : HasTmp(u) => u = t
    BY <1>1, <1>2 DEF CoreInv, TmpInv, HasTmp, PortalOf, PlaceInv
  <1>4. inode' = [inode EXCEPT ![fd[t]] = Json(doc[t])]
    <2>1. PICK c \in Written(inode[fd[t]], doc[t]) : inode' = [inode EXCEPT ![fd[t]] = c]
      BY Zenon DEF WriteTmp
    <2>2. c = Json(doc[t])
      BY <1>3, Writes
    <2> QED  BY <2>1, <2>2
  <1>5. /\ Content' = Content /\ inode'[fd[t]] = Json(doc[t])
        /\ receiver = "write" => inode'[receiverFd] = inode[receiverFd]
    BY <1>1, <1>2, <1>3, <1>4 DEF FileOf, ReceiverOf, Content, PlaceInv
  <1>6. \A u \in Threads : place'[u] = IF u = t THEN "rename" ELSE place[u]
    BY <1>1, <1>2 DEF PortalOf
  <1>7. TmpInv'
    BY <1>2, <1>3, <1>5, <1>6 DEF CoreInv, TmpInv, HasTmp
  <1>8. WholeInv'
    BY <1>2, <1>5 DEF CoreInv, WholeInv
  <1>9. FreshInv'
    BY <1>2, <1>5, <1>6 DEF CoreInv, FreshInv, Saving
  <1> QED  BY <1>5, <1>7, <1>8, <1>9 DEF CoreInv

(* The rename puts the whole text under the name.                          *)
LEMMA RenameCore ==
  ASSUME BaseInv, CoreInv, NEW t \in Threads, Rename(t)
  PROVE  CoreInv' /\ Content' = Json(doc[t]) /\ place'[t] = "hup"
  <1>1. FileOf /\ PortalOf /\ ReceiverOf /\ PlaceInv
    BY Types DEF BaseInv
  <1>2. /\ place[t] = "rename" /\ tmp # None /\ place' = [place EXCEPT ![t] = "hup"]
        /\ file' = tmp /\ tmp' = None
        /\ UNCHANGED <<inode, doc, fd, whole, receiver, receiverFd, update, owed>>
    BY DEF Rename, goto, receiverVars, history
  <1>3. inode[tmp] = Json(doc[t]) /\ \A u \in Threads : HasTmp(u) => u = t
    BY <1>2 DEF CoreInv, TmpInv, HasTmp
  <1>4. Content' = Json(doc[t])
    BY <1>2, <1>3 DEF Content
  <1>5. \A u \in Threads : place'[u] = IF u = t THEN "hup" ELSE place[u]
    BY <1>1, <1>2 DEF PortalOf
  <1>6. TmpInv'
    BY <1>2, <1>3, <1>5 DEF CoreInv, TmpInv, HasTmp
  <1>7. WholeInv'
    BY <1>2, <1>4, Texts DEF CoreInv, WholeInv
  <1>8. FreshInv'
    BY <1>2, <1>4, <1>5, Texts DEF CoreInv, FreshInv, Saving
  <1> QED  BY <1>4, <1>5, <1>6, <1>7, <1>8 DEF CoreInv

(* A write or a rename that fails, and what it takes away.                 *)
LEMMA FailCore ==
  ASSUME BaseInv, CoreInv, NEW t \in Threads, WriteFails(t) \/ RenameFails(t) \/ UnlinkTmp(t)
  PROVE  /\ CoreInv' /\ Content' = Content
         /\ place[t] \notin {"hup", "usr1"}
         /\ \E p \in {"unlink", "idle"}, w \in BOOLEAN :
              /\ place' = [place EXCEPT ![t] = p] /\ whole' = [whole EXCEPT ![t] = w]
  <1>1. FileOf /\ PortalOf /\ ReceiverOf /\ PlaceInv /\ Flags
    BY Types DEF BaseInv
  <1>2. /\ place[t] \notin {"hup", "usr1"}
        /\ \E p \in {"unlink", "idle"} : place' = [place EXCEPT ![t] = p]
        /\ doc' \in {doc, [doc EXCEPT ![t] = {}]}
        /\ fd' \in {fd, [fd EXCEPT ![t] = None]}
        /\ tmp' \in {tmp, None}
        /\ UNCHANGED <<file, inode, receiver, receiverFd, update, owed>>
    BY DEF WriteFails, RenameFails, UnlinkTmp, Done, goto, fileVars, receiverVars, history
  <1>3. \E w \in BOOLEAN : whole' = [whole EXCEPT ![t] = w]
    <2>1. CASE WriteFails(t) \/ RenameFails(t)
      <3>1. whole' = [whole EXCEPT ![t] = whole[t]] /\ whole[t] \in BOOLEAN
        BY <1>1, <2>1, Zenon DEF WriteFails, RenameFails, goto, Flags
      <3> QED  BY <3>1, Zenon
    <2>2. CASE UnlinkTmp(t)
      BY <2>2, Zenon DEF UnlinkTmp, Done
    <2> QED  BY <2>1, <2>2
  <1>4. Content' = Content
    BY <1>2 DEF Content
  <1>5. /\ \A u \in Threads : u # t => /\ place'[u] = place[u] /\ doc'[u] = doc[u]
                                      /\ fd'[u] = fd[u]
        /\ place'[t] \in {"unlink", "idle"} /\ doc'[t] \subseteq doc[t]
    BY <1>1, <1>2 DEF PortalOf
  <1>6. \A u \in Threads : u # t => whole'[u] = whole[u]
    BY <1>1, <1>3, Zenon DEF Flags
  <1>7. TmpInv' /\ WholeInv'
    BY <1>2, <1>4, <1>5 DEF CoreInv, TmpInv, WholeInv, HasTmp
  <1>8. FreshInv'
    BY <1>2, <1>4, <1>5, <1>6 DEF CoreInv, FreshInv, Saving
  <1> QED  BY <1>2, <1>3, <1>4, <1>7, <1>8 DEF CoreInv

(* An end of the portal.                                                   *)
LEMMA EndsCore ==
  ASSUME CoreInv, PortalEnds
  PROVE  CoreInv' /\ Content' = Content
  <1>1. /\ \A t \in Threads : place'[t] = "idle" /\ doc'[t] = {}
        /\ UNCHANGED <<file, tmp, inode, receiver, receiverFd, update, owed>>
    BY DEF PortalEnds, fileVars, receiverVars
  <1> QED  BY <1>1 DEF CoreInv, TmpInv, WholeInv, FreshInv, Content, HasTmp, Saving

(* A request ends, or tells the engine, and then the bridge.               *)
LEMMA SignalCore ==
  ASSUME BaseInv, CoreInv, NEW t \in Threads, SendHup(t) \/ SendUsr1(t)
  PROVE  CoreInv' /\ Content' = Content
  <1>1. FileOf /\ PortalOf /\ ReceiverOf /\ PlaceInv
    BY Types DEF BaseInv
  <1>2. /\ place[t] \in {"hup", "usr1"}
        /\ \E p \in {"idle", "usr1"} : place' = [place EXCEPT ![t] = p]
        /\ doc' \in {doc, [doc EXCEPT ![t] = {}]}
        /\ whole' \in {whole, [whole EXCEPT ![t] = FALSE]}
        /\ owed' \in {owed, owed \cup doc[t]}
        /\ UNCHANGED <<file, tmp, inode, fd, receiver, receiverFd, update>>
    BY DEF SendHup, SendUsr1, Done, goto, fileVars, receiverVars, history
  <1>3. Content' = Content
    BY <1>2 DEF Content
  <1>4. /\ \A u \in Threads : u # t => place'[u] = place[u]
        /\ place'[t] \in {"idle", "usr1"}
        /\ \A u \in Threads : u # t => doc'[u] = doc[u]
        /\ doc'[t] \subseteq doc[t]
    BY <1>1, <1>2 DEF PortalOf
  <1>5. \A u \in Threads : u # t => whole'[u] = whole[u]
    BY <1>2, Types, Zenon DEF BaseInv, Flags
  <1>6. TmpInv' /\ WholeInv'
    BY <1>2, <1>3, <1>4 DEF CoreInv, TmpInv, WholeInv, HasTmp
  <1>7. FreshInv'
    <2>1. ASSUME NEW v \in Threads, whole'[v], Saving(v)', NEW k \in doc'[v]
          PROVE  /\ k \notin owed' /\ k \notin Content.saves
                 /\ \A u \in Threads : u # v => k \notin doc'[u]
      <3>1. v # t /\ whole[v] /\ Saving(v) /\ k \in doc[v]
        BY <1>4, <1>5, <2>1 DEF Saving
      <3> QED  BY <1>2, <1>4, <3>1 DEF CoreInv, FreshInv
    <2>2. receiver = "write" => /\ update \notin owed' /\ update \notin Content.saves
                                /\ \A u \in Threads : update \notin doc'[u]
      BY <1>2, <1>4 DEF CoreInv, FreshInv
    <2> QED  BY <1>2, <1>3, <2>1, <2>2 DEF FreshInv
  <1> QED  BY <1>3, <1>6, <1>7 DEF CoreInv

(* An update empties the file, and fills the one it has emptied.           *)
LEMMA ReceiverCore ==
  ASSUME BaseInv, CoreInv, Receiver
  PROVE  CoreInv' /\ (Content' = Content \/ owed \cap Content'.saves = {})
  <1>1. FileOf /\ PortalOf /\ ReceiverOf /\ PlaceInv /\ KnownInv
    BY Types DEF BaseInv
  <1>2. CASE ReceiveUpdate
    <2>1. /\ update' = saves + 1 /\ receiverFd' = file
          /\ inode' = [inode EXCEPT ![file] = Empty] /\ receiver' = "write"
          /\ UNCHANGED <<file, tmp, place, doc, fd, whole, owed>>
      BY <1>2 DEF ReceiveUpdate, portalVars, history
    <2>2. /\ Content' = Empty /\ inode'[file] = Empty
          /\ tmp # None /\ tmp # file => inode'[tmp] = inode[tmp]
      BY <1>1, <2>1 DEF FileOf, Content
    <2>3. TmpInv'
      BY <2>1, <2>2 DEF CoreInv, TmpInv, HasTmp
    <2>4. WholeInv'
      BY <2>1, <2>2 DEF WholeInv
    <2>5. saves + 1 \notin owed /\ \A t \in Threads : saves + 1 \notin doc[t]
      BY <1>1 DEF KnownInv, FileOf
    <2>6. FreshInv'
      BY <2>1, <2>2, <2>5, Texts DEF CoreInv, FreshInv, Saving
    <2> QED  BY <2>2, <2>3, <2>4, <2>6, Texts DEF CoreInv
  <1>3. CASE WriteUpdate
    <2>1. /\ receiver = "write" /\ receiver' = "hup" /\ receiverFd' = None
          /\ UNCHANGED <<file, tmp, place, doc, fd, whole, owed>>
      BY <1>3 DEF WriteUpdate, portalVars, history
    <2>2. inode[receiverFd] = Empty /\ receiverFd \in Inodes
      BY <1>1, <2>1 DEF CoreInv, WholeInv, PlaceInv, ReceiverOf
    <2>3. inode' = [inode EXCEPT ![receiverFd] = Json({update})]
      BY <1>3, <2>2, Writes DEF WriteUpdate
    <2>4. /\ Content' = IF file = receiverFd THEN Json({update}) ELSE Content
          /\ tmp # None => inode'[tmp] = inode[tmp]
      BY <1>1, <2>1, <2>2, <2>3 DEF FileOf, Content, CoreInv, TmpInv
    <2>10. \A t \in Threads : place[t] = "write" =>
             fd[t] # receiverFd /\ fd[t] \in Inodes /\ inode'[fd[t]] = inode[fd[t]]
      <3>1. \A t \in Threads : place[t] = "write" => fd[t] # receiverFd /\ fd[t] \in Inodes
        BY <1>1 DEF CoreInv, TmpInv, PlaceInv, PortalOf
      <3> QED  BY <1>1, <2>2, <2>3, <3>1 DEF FileOf
    <2>5. TmpInv'
      BY <1>1, <2>1, <2>4, <2>10, Numbers DEF CoreInv, TmpInv, HasTmp, FileOf, PortalOf
    <2>6. WholeInv'
      BY <2>1, <2>4, Texts DEF CoreInv, WholeInv
    <2>7. \A t \in Threads : update \notin doc[t]
      BY <2>1 DEF CoreInv, FreshInv
    <2>8. FreshInv'
      BY <2>1, <2>4, <2>7, Texts DEF CoreInv, FreshInv, Saving
    <2>9. update \notin owed
      BY <2>1 DEF CoreInv, FreshInv
    <2> QED  BY <2>4, <2>5, <2>6, <2>8, <2>9, Texts DEF CoreInv
  <1>4. CASE SignalEngine
    <2>1. /\ receiver = "hup" /\ receiver' = "idle"
          /\ UNCHANGED <<file, tmp, inode, place, doc, fd, whole, receiverFd, update, owed>>
      BY <1>4 DEF SignalEngine, fileVars, portalVars, history
    <2> QED
      BY <2>1 DEF CoreInv, TmpInv, WholeInv, FreshInv, Content, HasTmp, Saving
  <1> QED  BY <1>2, <1>3, <1>4 DEF Receiver

(* The file and its temporary file after any step.                         *)
LEMMA CoreStep ==
  ASSUME BaseInv, CoreInv, [Next]_vars, Orderly'
  PROVE  CoreInv'
  <1>1. CASE \E t \in Threads : Request(t)
    <2> PICK t \in Threads : Request(t)
      BY <1>1
    <2>1. OpenTmp(t) => \A u \in Threads : ~HasTmp(u)
      BY OrderlyBefore
    <2> QED
      BY <2>1, BeginCore, OpenCore, WriteCore, FailCore, RenameCore, SignalCore DEF Request
  <1>2. CASE Receiver
    BY <1>2, ReceiverCore
  <1>3. CASE UNCHANGED <<file, tmp, inode, place, doc, fd, whole, owed, receiver, receiverFd,
                         update>>
    BY <1>3 DEF CoreInv, TmpInv, WholeInv, FreshInv, Content, HasTmp, Saving
  <1>4. CASE Process
    <2>1. BridgeEnds => UNCHANGED <<receiver, receiverFd, update>>
      BY OrderlyBefore DEF BridgeEnds, BaseInv, PlaceInv
    <2> QED  BY <1>3, <1>4, <2>1, ProcessFrame
  <1>5. CASE UNCHANGED vars
    BY <1>3, <1>5 DEF vars, fileVars, portalVars, receiverVars, history
  <1>6. CASE PortalEnds
    BY <1>6, EndsCore
  <1> QED  BY <1>1, <1>2, <1>4, <1>5, <1>6 DEF Next, Process

(* What a save, an update or a trigger leaves for the readers: a change of *)
(* the file has a signal behind it, and one that brings back a save that   *)
(* is owed to the cloud has a trigger behind it, until the portal ends.    *)
LEMMA WriterStep ==
  ASSUME BaseInv, CoreInv, Next, Orderly', ~Process
  PROVE  /\ Content' = Content \/ HupDue'
         /\ HupDue => HupDue' \/ Hup \/ missed'
         /\ \/ UNCHANGED owed
            \/ \E t \in Threads : SendUsr1(t)
         /\ \/ owed \cap Content'.saves \subseteq Content.saves
            \/ TriggerDue'
         /\ TriggerDue => TriggerDue' \/ lost' \/ \E t \in Threads : SendUsr1(t)
  <1>1. PortalOf /\ Flags
    BY Types DEF BaseInv
  <1>2. CASE \E t \in Threads : Request(t)
    <2> PICK t \in Threads : Request(t)
      BY <1>2
    <2>2. receiver' = receiver
      BY DEF Request, BeginSave, OpenTmp, WriteTmp, WriteFails, Rename, RenameFails, UnlinkTmp,
         SendHup, SendUsr1, receiverVars
    <2> DEFINE fails == WriteFails(t) \/ RenameFails(t) \/ UnlinkTmp(t)
    <2>3. CASE BeginSave(t) \/ OpenTmp(t) \/ WriteTmp(t) \/ fails
      <3>1. Content' = Content
        BY <2>3, BeginCore, OpenCore, WriteCore, FailCore, OrderlyBefore
      <3>2. /\ place[t] \notin {"hup", "usr1"} /\ owed' = owed
            /\ \E p : p \notin {"hup", "usr1"} /\ place' = [place EXCEPT ![t] = p]
            /\ \E w : whole' = [whole EXCEPT ![t] = w]
        <4>1. CASE BeginSave(t)
          BY <4>1 DEF BeginSave, history
        <4>2. CASE OpenTmp(t) \/ WriteTmp(t)
          <5>1. whole' = [whole EXCEPT ![t] = whole[t]]
            BY <1>1, <4>2, Zenon DEF OpenTmp, WriteTmp, goto, Flags
          <5> QED  BY <4>2, <5>1 DEF OpenTmp, WriteTmp, goto, history
        <4>3. CASE fails
          BY <4>3, FailCore DEF WriteFails, RenameFails, UnlinkTmp, history
        <4> QED  BY <2>3, <4>1, <4>2, <4>3
      <3>3. \A u \in Threads : u # t => place'[u] = place[u] /\ whole'[u] = whole[u]
        BY <1>1, <3>2 DEF PortalOf, Flags
      <3> QED  BY <2>2, <3>1, <3>2, <3>3 DEF HupDue, TriggerDue
    <2>4. CASE Rename(t)
      <3>1. /\ place[t] = "rename" /\ owed' = owed /\ whole' = whole
            /\ place' = [place EXCEPT ![t] = "hup"]
        BY <2>4 DEF Rename, goto, history
      <3>2. \A u \in Threads : place'[u] = IF u = t THEN "hup" ELSE place[u]
        BY <1>1, <3>1 DEF PortalOf
      <3>3. Content'.saves = doc[t]
        BY <2>4, RenameCore, Texts
      <3>4. whole[t] => owed \cap doc[t] = {}
        BY <3>1 DEF CoreInv, FreshInv, Saving
      <3>5. ~whole[t] => TriggerDue'
        BY <3>1, <3>2 DEF TriggerDue
      <3> QED  BY <3>1, <3>2, <3>3, <3>4, <3>5 DEF HupDue, TriggerDue
    <2>5. CASE SendHup(t)
      <3>1. Content' = Content /\ owed' = owed /\ Hup
        BY <2>5, SignalCore DEF SendHup, history
      <3>2. place[t] = "hup"
        BY <2>5 DEF SendHup
      <3>3. ~whole[t] => whole' = whole /\ place' = [place EXCEPT ![t] = "usr1"]
        BY <2>5 DEF SendHup, goto
      <3>4. whole[t] => \A u \in Threads : u # t => place'[u] = place[u] /\ whole'[u] = whole[u]
        BY <1>1, <2>5 DEF SendHup, Done, PortalOf, Flags
      <3>5. TriggerDue => TriggerDue'
        BY <1>1, <3>2, <3>3, <3>4 DEF TriggerDue, PortalOf
      <3> QED  BY <3>1, <3>5
    <2>6. CASE SendUsr1(t)
      <3>1. Content' = Content
        BY <2>6, SignalCore
      <3>2. place[t] = "usr1" /\ place' = [place EXCEPT ![t] = "idle"]
        BY <2>6 DEF SendUsr1, Done
      <3>3. HupDue => HupDue'
        BY <1>1, <2>2, <3>2 DEF HupDue, PortalOf
      <3> QED  BY <2>6, <3>1, <3>3
    <2> QED  BY <2>3, <2>4, <2>5, <2>6 DEF Request
  <1>3. CASE Receiver
    <2>1. /\ UNCHANGED <<place, whole, owed>>
          /\ receiver' # "idle" \/ (Hup /\ UNCHANGED <<file, inode>>)
      BY <1>3 DEF Receiver, ReceiveUpdate, WriteUpdate, SignalEngine, portalVars, history, fileVars
    <2>2. Content' = Content \/ owed \cap Content'.saves = {}
      BY <1>3, ReceiverCore
    <2>3. TriggerDue => TriggerDue'
      BY <2>1 DEF TriggerDue
    <2> QED  BY <2>1, <2>2, <2>3 DEF HupDue, Content
  <1>4. CASE PortalEnds
    <2>1. UNCHANGED <<file, inode, receiver, owed>>
      BY <1>4 DEF PortalEnds, fileVars, receiverVars
    <2>2. (\E t \in Threads : place[t] = "hup") => missed'
      BY <1>4, Zenon DEF PortalEnds
    <2>3. TriggerDue => lost'
      BY <1>4, Zenon DEF PortalEnds, TriggerDue
    <2> QED  BY <2>1, <2>2, <2>3 DEF HupDue, Content
  <1> QED  BY <1>2, <1>3, <1>4 DEF Next, Process

(* The other processes change neither the file nor what is on its way.     *)
LEMMA ProcessQuiet ==
  ASSUME BaseInv, Process, [Next]_vars, Orderly'
  PROVE  /\ Content' = Content /\ owed' = owed
         /\ (HupDue <=> HupDue') /\ (TriggerDue <=> TriggerDue')
  <1>1. UNCHANGED <<file, inode, place, whole, owed>>
    BY ProcessFrame
  <1>2. receiver' = receiver
    BY ProcessFrame, OrderlyBefore DEF BridgeEnds
  <1> QED  BY <1>1, <1>2 DEF Content, HupDue, TriggerDue

(* A signal on its way reaches an engine that has read the file: its flag  *)
(* is set, or it does not run.                                             *)
LEMMA ShownStep ==
  ASSUME BaseInv, OrderInv, Next, Orderly'
  PROVE  ShownInv'
  <1>1. ShownInv /\ CoreInv
    BY DEF OrderInv, CoreInv
  <1>2. CASE ~Process
    <2>1. Content' = Content \/ HupDue'
      BY <1>1, <1>2, WriterStep
    <2>2. HupDue => HupDue' \/ Hup \/ missed'
      BY <1>1, <1>2, WriterStep
    <2>6. missed => missed'
      <3>1. CASE PortalEnds
        BY <3>1, Zenon DEF PortalEnds
      <3>2. CASE ~PortalEnds
        BY <1>2, <3>2 DEF Next, Process, Request, BeginSave, OpenTmp, WriteTmp, WriteFails,
           Rename, RenameFails, UnlinkTmp, SendHup, SendUsr1, Receiver, ReceiveUpdate,
           WriteUpdate, SignalEngine, history
      <3> QED  BY <3>1, <3>2
    <2>3. CASE Hup
      <3>1. engine' \in {"build", "loop"} => reload_flag'
        <4>1. engine' \in {"build", "loop"} => engine \in {"init", "loop", "load", "build"}
          BY <2>3 DEF Hup
        <4> QED  BY <2>3, <4>1, Zenon DEF Hup
      <3> QED  BY <3>1 DEF ShownInv
    <2>4. CASE UNCHANGED engineVars
      BY <1>1, <2>1, <2>2, <2>3, <2>4, <2>6 DEF ShownInv, engineVars
    <2>5. Hup \/ UNCHANGED engineVars
      BY <1>2 DEF Next, Process, Request, BeginSave, OpenTmp, WriteTmp, WriteFails, Rename,
         RenameFails, UnlinkTmp, SendHup, SendUsr1, PortalEnds, Receiver, ReceiveUpdate,
         WriteUpdate, SignalEngine
    <2> QED  BY <2>3, <2>4, <2>5
  <1>3. CASE Process
    <2>1. Content' = Content /\ (HupDue <=> HupDue')
      BY <1>3, ProcessQuiet
    <2>2. CASE MainLoop \/ Connection \/ BridgeStart \/ BridgeEnds
      <3>1. UNCHANGED <<engine, reload_flag, display_cfg, shown, missed>>
        BY <2>2 DEF MainLoop, ReadForUpload, SendUpload, ClearFlag, Connection, BridgeStart,
           BridgeEnds, engineVars, history
      <3> QED  BY <1>1, <2>1, <3>1 DEF ShownInv
    <2>3. CASE Engine \/ EngineExec("stopped") \/ EngineStop
      <3>1. CASE engine' \notin {"build", "loop"}
        BY <3>1 DEF ShownInv
      <3>2. CASE Load /\ engine' = "build"
        BY <2>1, <3>2 DEF Load, LoadConfig, ShownInv
      <3>3. CASE Build
        BY <1>1, <2>1, <3>3 DEF Build, ShownInv, history
      <3> QED
        BY <2>3, <3>1, <3>2, <3>3 DEF Engine, EngineExec, EngineInstall, TestFlag, Load,
           LoadConfig, EngineStop
    <2> QED  BY <1>3, <2>2, <2>3 DEF Process
  <1> QED  BY <1>2, <1>3

(* What is owed and in the file is uploaded, unless a trigger is on its    *)
(* way, pending in the flag, late or lost.                                 *)
LEMMA UploadStep ==
  ASSUME BaseInv, OrderInv, Next, Orderly'
  PROVE  UploadInv'
  <1>1. UploadInv /\ CoreInv /\ bridge \in {"down", "loop", "send", "clear"}
    BY Types DEF OrderInv, CoreInv, BaseInv, LoopOf
  <1>2. CASE ~Process
    <2>1. CASE \E t \in Threads : SendUsr1(t)
      <3>1. bridge' = bridge
        BY <2>1 DEF SendUsr1
      <3>2. bridge # "down" => graphics_changed'
        BY <2>1, Zenon DEF SendUsr1
      <3>3. (bridge \in {"send", "clear"} => late') /\ (bridge = "down" => lost')
        BY <2>1, Zenon DEF SendUsr1
      <3> QED  BY <3>1, <3>2, <3>3 DEF UploadInv
    <2>2. CASE ~\E t \in Threads : SendUsr1(t)
      <3>1. UNCHANGED <<bridge, graphics_changed, upload, uploaded, late>>
        BY <1>2, <2>2 DEF Next, Process, Request, BeginSave, OpenTmp, WriteTmp, WriteFails,
           Rename, RenameFails, UnlinkTmp, SendHup, PortalEnds, Receiver, ReceiveUpdate,
           WriteUpdate, SignalEngine, loopVars, history
      <3>3. lost => lost'
        <4>1. CASE PortalEnds
          BY <4>1, Zenon DEF PortalEnds
        <4>2. CASE ~PortalEnds
          BY <1>2, <2>2, <4>2 DEF Next, Process, Request, BeginSave, OpenTmp, WriteTmp,
             WriteFails, Rename, RenameFails, UnlinkTmp, SendHup, Receiver, ReceiveUpdate,
             WriteUpdate, SignalEngine, history
        <4> QED  BY <4>1, <4>2
      <3>2. /\ owed' = owed
            /\ owed \cap Content'.saves \subseteq Content.saves \/ TriggerDue'
            /\ TriggerDue => TriggerDue' \/ lost'
        BY <1>1, <1>2, <2>2, WriterStep
      <3> QED  BY <1>1, <3>1, <3>2, <3>3 DEF UploadInv, Owed
    <2> QED  BY <2>1, <2>2
  <1>3. CASE Process
    <2>1. Content' = Content /\ owed' = owed /\ (TriggerDue <=> TriggerDue')
      BY <1>3, ProcessQuiet
    <2>2. CASE ReadForUpload
      <3>1. /\ bridge' = "send" /\ upload' = Content.saves
            /\ graphics_changed /\ graphics_changed' = graphics_changed
        BY <2>2 DEF ReadForUpload
      <3> QED  BY <2>1, <3>1 DEF UploadInv, Owed
    <2>3. CASE SendUpload
      <3>1. graphics_changed /\ graphics_changed' = graphics_changed /\ late' = late
        BY <1>1, <2>3 DEF SendUpload, UploadInv
      <3>2. \/ bridge' = "clear" /\ uploaded' = upload /\ lost' = lost
            \/ bridge' = "clear" /\ lost'
            \/ bridge' = "loop"
        BY <2>3 DEF SendUpload
      <3>3. bridge = "send"
        BY <2>3 DEF SendUpload
      <3> QED  BY <1>1, <2>1, <3>1, <3>2, <3>3 DEF UploadInv, Owed
    <2>4. CASE ClearFlag
      <3>1. /\ bridge = "clear" /\ bridge' = "loop"
            /\ UNCHANGED <<uploaded, late, lost>>
        BY <2>4 DEF ClearFlag, history
      <3> QED  BY <1>1, <2>1, <3>1 DEF UploadInv, Owed
    <2>5. CASE BridgeEnds
      <3>1. bridge' = "down" /\ UNCHANGED <<uploaded, late>>
        BY <2>5 DEF BridgeEnds
      <3>2. ~lost' => ~lost /\ ~graphics_changed
        BY <2>5, Zenon DEF BridgeEnds
      <3> QED  BY <1>1, <2>1, <3>1, <3>2 DEF UploadInv, Owed
    <2>6. CASE \/ Connection \/ BridgeStart
               \/ Engine \/ EngineExec("stopped") \/ EngineStop
      <3>1. /\ UNCHANGED <<graphics_changed, upload, uploaded, late, lost>>
            /\ bridge' = bridge \/ (bridge = "down" /\ bridge' = "loop")
        BY <2>6 DEF Connection, BridgeStart, Engine, EngineExec, EngineInstall, TestFlag, Load,
           Build, EngineStop, loopVars, history
      <3> QED  BY <1>1, <2>1, <3>1 DEF UploadInv, Owed
    <2> QED  BY <1>3, <2>2, <2>3, <2>4, <2>5, <2>6 DEF Process, MainLoop
  <1> QED  BY <1>2, <1>3

(* All of it, after any step.                                              *)
LEMMA IInvStep ==
  ASSUME IInv, [Next]_vars
  PROVE  IInv'
  <1>1. BaseInv /\ BaseInv'
    BY BaseStep DEF IInv
  <1> SUFFICES ASSUME Orderly' PROVE OrderInv'
    BY <1>1 DEF IInv
  <1>2. OrderInv
    BY OrderlyBefore DEF IInv
  <1>3. CoreInv'
    BY <1>1, <1>2, CoreStep DEF OrderInv, CoreInv
  <1>4. CASE Next
    BY <1>1, <1>2, <1>3, <1>4, ShownStep, UploadStep DEF OrderInv, CoreInv
  <1>5. CASE UNCHANGED vars
    <2>1. UNCHANGED <<file, inode, place, whole, receiver, owed, engine, display_cfg, shown,
                      reload_flag, missed, bridge, graphics_changed, upload, uploaded, late,
                      lost>>
      BY <1>5 DEF vars, fileVars, portalVars, receiverVars, loopVars, engineVars, history
    <2>2. ShownInv' /\ UploadInv'
      BY <1>2, <2>1 DEF OrderInv, ShownInv, UploadInv, HupDue, TriggerDue, Owed, Content
    <2> QED  BY <1>3, <2>2 DEF OrderInv, CoreInv
  <1> QED  BY <1>4, <1>5

(* The inductive invariant: the types always, the order of the saves until *)
(* two threads share a temporary file or the bridge dies over an update.   *)
THEOREM Invariance == Spec => []IInv
  <1>1. Init => IInv
    BY BaseInit, OrderInit DEF IInv
  <1> QED  BY <1>1, IInvStep, PTL DEF Spec

(* Every variable keeps its type; a request always finds an inode for its  *)
(* temporary file.                                                         *)
THEOREM TypeCorrect == Spec => []TypeOK
  <1>1. IInv => TypeOK
    BY DEF IInv, BaseInv
  <1> QED  BY Invariance, <1>1, PTL

(* A save of the portal is never seen half-written: what is under the name *)
(* parses, except while an update rewrites it.                             *)
THEOREM FileCorrect == Spec => []FileIsWhole
  <1>1. IInv => FileIsWhole
    BY DEF IInv, OrderInv, WholeInv, FileIsWhole
  <1> QED  BY Invariance, <1>1, PTL

(* With every writer done and no reload pending, the engine shows what is  *)
(* in the file: each change had a signal behind it.                        *)
THEOREM ShownCorrect == Spec => []ShowsTheFile
  <1>1. IInv => ShowsTheFile
    BY DEF IInv, OrderInv, ShownInv, HupDue, ShowsTheFile, Quiet
  <1> QED  BY Invariance, <1>1, PTL

(* A trigger reaches the cloud unless it falls between the reading of the  *)
(* file for an upload and the clearing of the flag behind it.              *)
THEOREM UploadCorrect == Spec => []UploadedUnlessLate
  <1>1. IInv => UploadedUnlessLate
    BY DEF IInv, OrderInv, UploadInv, Owed, TriggerDue, UploadedUnlessLate, TriggeredIsUploaded,
       Quiet
  <1> QED  BY Invariance, <1>1, PTL
=============================================================================
