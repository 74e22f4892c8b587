------------------------- MODULE LogPipelineProofs -------------------------
(***************************************************************************)
(* Theorems about LogPipeline, for any bounds on the recordings and their  *)
(* entries.                                                                *)
(*                                                                         *)
(* BaseInv holds always.  Recordings that were given the same name share a *)
(* file: FileInv, and UploadInv and OwnerInv which rest on it, hold until  *)
(* a name is given a second time.                                          *)
(***************************************************************************)
EXTENDS LogPipeline, TLAPS, FiniteSetTheorems

-----------------------------------------------------------------------------
(* The invariants.                                                         *)

Finalizing == logger \in {"marking", "exiting"}

(* Who has no file open has nothing in the buffer, and who has one open    *)
(* has written what the file and the buffer hold together.  A file that is *)
(* open, or whose marker is pending, has a name.                           *)
LoggerInv ==
  /\ handle # NoFile \/ Finalizing => path # NoName
  /\ logger # "loop" => handle = NoFile
  /\ handle = NoFile => buffered = 0
  /\ handle # NoFile =>
       /\ session > 0
       /\ disk[handle].owner = session
       /\ disk[handle].count + buffered = written[session]
  /\ \A s \in Sessions : s > session => written[s] = 0

Uploading ==
  uploader \in {"start", "open", "chunk", "check", "end", "removeBin", "removeDone"}

(* The thread works on markers only it removes.                            *)
MarkInv ==
  /\ todo \subseteq done
  /\ Uploading => target \in done \ todo
  /\ uploader \in {"chunk", "check"} => fd # NoFile

BaseInv == TypeOK /\ LoggerInv /\ MarkInv /\ ShownIsTrue

(* A name is given before it is used, and each to an inode of its own,     *)
(* which stays with the recording that made it.                            *)
NameInv ==
  /\ \A n \in named : n <= session
  /\ \A n \in Names : bin[n] # NoFile \/ n \in done => n \in named
  /\ \A n \in Names : bin[n] \in {NoFile, n}
  /\ \A i \in Sessions : disk[i].owner = i /\ disk[i].count <= written[i]

(* The file of the current recording has its name, and no marker.          *)
CurrentInv ==
  /\ handle # NoFile \/ Finalizing =>
       /\ session > 0 /\ path = session
       /\ bin[session] = session /\ session \notin done
  /\ handle # NoFile => handle = session
  /\ Finalizing => disk[session].count = written[session]

(* A file with a marker holds all that was written to it.                  *)
FinalInv ==
  \A n \in done : bin[n] # NoFile => disk[bin[n]].count = written[bin[n]]

Sent(s, k) == {[index |-> j, owner |-> s] : j \in 0..(k - 1)}

(* The cloud has nothing that was not written.                             *)
CloudInv ==
  /\ \A n \in Names : \A c \in part[n] : c.index < written[c.owner]
  /\ \A s \in Sessions : saved[s] <= written[s]

(* The thread reads the file of its marker, up to its end.                 *)
ReadInv ==
  /\ uploader \in {"chunk", "check"} => fd = bin[target] /\ chunks <= disk[fd].count
  /\ uploader = "end" => bin[target] # NoFile /\ chunks = disk[bin[target]].count

(* On a socket that lives, the cloud has what the thread has read.         *)
SentInv ==
  ~disturbed =>
    /\ Delivered
    /\ Uploading /\ uploader # "start"
    /\ uploader = "open" => part[target] = {}
    /\ uploader \in {"chunk", "check", "end"} => part[target] = Sent(bin[target], chunks)
    /\ uploader = "removeBin" /\ bin[target] # NoFile =>
         saved[bin[target]] = written[bin[target]]

FileInv == NameInv /\ CurrentInv /\ FinalInv
UploadInv == CloudInv /\ ReadInv /\ SentInv

-----------------------------------------------------------------------------
(* The constants the proofs count with.                                    *)
LEMMA Bounds ==
  /\ MaxSessions \in Nat /\ MaxEntries \in Nat
  /\ NoFile \notin Sessions /\ Names = Sessions
  BY LogFilesAssumption DEF LogFilesAssumption, NoFile, Sessions, Names

(* The Boolean variables have their type, in one place for all steps.      *)
Flags ==
  /\ toggle \in BOOLEAN /\ shown \in BOOLEAN /\ running \in BOOLEAN
  /\ connected \in BOOLEAN /\ alive \in BOOLEAN /\ endSent \in BOOLEAN
  /\ disturbed \in BOOLEAN /\ reused \in BOOLEAN

(* A step leaves the Boolean variables Boolean.                            *)
LEMMA FlagsStep ==
  ASSUME Flags, [Next]_vars
  PROVE  Flags'
  <1> USE DEF Flags
  <1>1. CASE LoggerStep
    <2>1. toggle' \in BOOLEAN /\ shown' \in BOOLEAN /\ reused' \in BOOLEAN
      BY <1>1, Zenon DEF LoggerStep, LoggerNext, LoggerStart, ShownAtStart, PressButton,
           StartRecording, CloseFile, MarkDone, StopIdle, WriteEntry, Flush, LoggerCrash,
           historyVars
    <2> QED
      BY <1>1, <2>1, Zenon DEF LoggerStep, uploaderVars, threadVars, linkVars
  <1>2. CASE UploaderStep
    <2>1. UNCHANGED <<toggle, shown, reused>>
      BY <1>2, Zenon DEF UploaderStep, loggerVars, historyVars
    <2>2. CASE LinkNext
      BY <2>1, <2>2, Zenon DEF LinkNext, Open, SocketDies, Close, threadVars
    <2>3. CASE BridgeStart \/ StopRequested \/ BridgeExit \/ BridgeCrash
      BY <2>1, <2>3, Zenon DEF BridgeStart, StopRequested, BridgeExit, BridgeCrash, Forget, linkVars
    <2>4. CASE BeginPass \/ EndPass \/ OpenForReading \/ EndOfFile \/ RemoveBin \/ SendChunk
      BY <2>1, <2>4, Zenon DEF BeginPass, EndPass, OpenForReading, EndOfFile, RemoveBin,
           SendChunk, linkVars
    <2>5. CASE \E n \in Names : ScanOrphan(n) \/ ScanMarked(n)
      BY <2>1, <2>5, Zenon DEF ScanOrphan, ScanMarked, linkVars
    <2>6. CASE OpenFails \/ RemoveDone \/ Check
      BY <2>1, <2>6, Zenon DEF OpenFails, RemoveDone, Check, Forget, linkVars
    <2>7. CASE SendStart \/ SendEnd
      BY <2>1, <2>7, Zenon DEF SendStart, SendEnd, Delivered, linkVars
    <2> QED
      BY <1>2, <2>2, <2>3, <2>4, <2>5, <2>6, <2>7, Zenon DEF UploaderStep, UploaderNext, ThreadNext
  <1>3. CASE UNCHANGED vars
    BY <1>3, Zenon DEF vars, loggerVars, historyVars, uploaderVars, threadVars, linkVars
  <1> QED  BY <1>1, <1>2, <1>3, Zenon DEF Next

(* What is not the uploader's.                                             *)
LEMMA UploaderFrame ==
  ASSUME UploaderStep
  PROVE  /\ UNCHANGED <<logger, toggle, handle, path, session, buffered, shown, written,
                        named, reused, disk>>
         /\ UNCHANGED bin \/ RemoveBin
  <1>1. UNCHANGED <<logger, toggle, handle, path, session, buffered, shown, written, named,
                    reused>>
    BY DEF UploaderStep, loggerVars, historyVars
  <1>2. UNCHANGED <<bin, disk>> \/ RemoveBin
    BY DEF UploaderStep, UploaderNext, LinkNext, ThreadNext, Open, SocketDies, Close, BridgeStart,
      StopRequested, BridgeExit, BridgeCrash, BeginPass, EndPass, OpenForReading, EndOfFile,
      SendChunk, ScanOrphan, ScanMarked, OpenFails, RemoveDone, Check, SendStart, SendEnd,
      RemoveMarker, fileVars
  <1>3. RemoveBin => UNCHANGED disk
    BY DEF RemoveBin, Unlink
  <1> QED  BY <1>1, <1>2, <1>3

(* What is not the logger's.                                               *)
LEMMA LoggerFrame ==
  ASSUME LoggerStep
  PROVE  UNCHANGED <<uploader, running, todo, target, fd, chunks, connected, alive, part, saved,
                     endSent, disturbed>>
  BY DEF LoggerStep, uploaderVars, threadVars, linkVars, cloudVars

(* Nothing runs and nothing is on disk at first.                           *)
LEMMA BaseInit == Init => BaseInv
  <1> SUFFICES ASSUME Init PROVE BaseInv
    OBVIOUS
  <1> USE Bounds DEF Init, FilesInit, LoggerInit, UploaderInit
  <1>1. Flags
    BY Zenon DEF Flags
  <1>2. FilesTypeOK
    BY DEF FilesTypeOK, Names, Sessions
  <1>3. LoggerTypeOK
    BY <1>1 DEF LoggerTypeOK, Flags
  <1>4. UploaderTypeOK
    BY <1>1 DEF UploaderTypeOK, Flags
  <1>5. LoggerInv /\ MarkInv /\ ShownIsTrue
    BY DEF LoggerInv, Finalizing, MarkInv, ShownIsTrue, Uploading
  <1> QED  BY <1>2, <1>3, <1>4, <1>5 DEF BaseInv, TypeOK

(* The types of the logger and its files, without the Boolean ones.        *)
FilesOf == bin \in [Names -> 0..MaxSessions] /\ done \subseteq Names
DiskOf  == disk \in [Sessions -> [owner : Sessions, count : 0..MaxEntries]]
DataOf ==
  /\ logger \in {"down", "loop", "marking", "exiting"}
  /\ handle \in 0..MaxSessions
  /\ path \in 0..MaxSessions /\ named \subseteq Names
  /\ session \in 0..MaxSessions
  /\ buffered \in 0..MaxEntries
  /\ written \in [Sessions -> 0..MaxEntries]

(* An inode number, or none; a name, or none.                              *)
LEMMA Inodes ==
  Sessions \cup {NoFile} = 0..MaxSessions /\ Names \cup {NoName} = 0..MaxSessions
  BY Bounds DEF Sessions, NoFile, NoName

(* The logger's half of the types, and its accounts.                       *)
LEMMA LoggerBaseStep ==
  ASSUME BaseInv, LoggerStep
  PROVE  FilesTypeOK' /\ LoggerTypeOK' /\ LoggerInv' /\ ShownIsTrue'
  <1>0. Flags'
    BY FlagsStep DEF BaseInv, TypeOK, LoggerTypeOK, UploaderTypeOK, Flags, Next
  <1>1. FilesOf /\ DiskOf /\ DataOf /\ LoggerInv /\ ShownIsTrue
    BY Inodes, Zenon DEF BaseInv, TypeOK, FilesTypeOK, LoggerTypeOK, FilesOf, DiskOf, DataOf
  <1> SUFFICES FilesOf' /\ DiskOf' /\ DataOf' /\ LoggerInv' /\ ShownIsTrue'
    BY <1>0, Inodes, Zenon DEF Flags, FilesTypeOK, LoggerTypeOK, FilesOf, DiskOf, DataOf
  <1> USE Bounds DEF Names, Sessions, NoFile, NoName, Finalizing, historyVars
  <1>3. CASE LoggerStart \/ StopIdle
    <2>1. /\ UNCHANGED <<bin, done, disk, handle, path, session, buffered, named, written>>
          /\ handle = NoFile /\ logger' \in {"loop", "down"} /\ shown' = FALSE
      BY <1>1, <1>3 DEF LoggerStart, StopIdle, ShownAtStart, fileVars, LoggerInv
    <2> QED  BY <1>1, <2>1 DEF FilesOf, DiskOf, DataOf, LoggerInv, ShownIsTrue
  <1>4. CASE PressButton
    <2>1. UNCHANGED <<bin, done, disk, logger, handle, path, session, buffered, shown, named,
                      written>>
      BY <1>4 DEF PressButton, fileVars
    <2> QED  BY <1>1, <2>1 DEF FilesOf, DiskOf, DataOf, LoggerInv, ShownIsTrue
  <1>5. CASE StartRecording
    <2>1. /\ logger = "loop" /\ logger' = "loop" /\ handle = NoFile
          /\ buffered = 0 /\ UNCHANGED <<buffered, written>>
      BY <1>1, <1>5 DEF StartRecording, LoggerInv
    <2>2. CASE shown' = FALSE /\ UNCHANGED <<fileVars, path, session, handle, named>>
      BY <1>1, <2>1, <2>2 DEF fileVars, FilesOf, DiskOf, DataOf, LoggerInv, ShownIsTrue
    <2>3. ASSUME session < MaxSessions, session' = session + 1, shown' = TRUE,
                 NEW n \in make_log_path(session'), path' = n,
                 handle' = InodeFor(n, session'), OpenForWriting(n, session'),
                 named' = named \cup {n}
          PROVE  FilesOf' /\ DiskOf' /\ DataOf' /\ LoggerInv' /\ ShownIsTrue'
      <3>0. n \in Names
        BY <1>1, <2>3 DEF DataOf, make_log_path
      <3>1. session' \in Sessions /\ handle' \in Sessions
        BY <1>1, <2>3, <3>0 DEF InodeFor, FilesOf, DataOf
      <3>2. /\ bin' = [bin EXCEPT ![n] = handle']
            /\ disk' = [disk EXCEPT ![handle'] = [owner |-> session', count |-> 0]]
            /\ done' = done
        BY <2>3 DEF OpenForWriting
      <3>3. FilesOf'
        BY <1>1, <3>0, <3>1, <3>2 DEF FilesOf
      <3>4. DiskOf' /\ disk'[handle'].owner = session' /\ disk'[handle'].count = 0
        <4> DEFINE new == [owner |-> session', count |-> 0]
        <4>1. new \in [owner : Sessions, count : 0..MaxEntries]
          BY <3>1
        <4>2. new.owner = session' /\ new.count = 0
          OBVIOUS
        <4>3. disk' = [disk EXCEPT ![handle'] = new]
          BY <3>2
        <4> HIDE DEF new
        <4>4. DiskOf'
          BY <1>1, <3>1, <4>1, <4>3 DEF DiskOf
        <4>5. disk'[handle'] = new
          BY <1>1, <3>1, <4>3 DEF DiskOf
        <4> QED  BY <4>2, <4>4, <4>5
      <3>5. DataOf' /\ ShownIsTrue'
        BY <1>1, <2>1, <2>3, <3>0, <3>1 DEF DataOf, ShownIsTrue
      <3>6. written'[session'] = 0 /\ \A s \in Sessions : s > session' => written'[s] = 0
        BY <1>1, <2>1, <2>3, <3>1 DEF LoggerInv, DataOf
      <3>7. path' # NoName /\ session' > 0
        BY <2>3, <3>0, <3>1
      <3>8. LoggerInv'
        BY <2>1, <3>1, <3>4, <3>6, <3>7 DEF LoggerInv
      <3> QED  BY <3>3, <3>4, <3>5, <3>8
    <2> QED  BY <1>5, <2>2, <2>3 DEF StartRecording
  <1>6. CASE CloseFile \/ Flush
    <2>1. /\ logger = "loop" /\ handle # NoFile /\ FlushBuffer
          /\ UNCHANGED <<path, session, shown, named, written>>
          /\ \/ handle' = NoFile /\ logger' \in {"marking", "exiting"}
             \/ handle' = handle /\ logger' = logger
      BY <1>6 DEF CloseFile, Flush
    <2>2. disk[handle].count + buffered = written[session] /\ session \in Sessions
      BY <1>1, <2>1 DEF LoggerInv, DataOf
    <2>3. /\ disk' = [disk EXCEPT ![handle].count = @ + buffered]
          /\ buffered' = 0 /\ UNCHANGED <<bin, done>>
      BY <2>1 DEF FlushBuffer
    <2>4. DiskOf' /\ disk'[handle].owner = disk[handle].owner
          /\ disk'[handle].count = written[session]
      <3>1. handle \in Sessions /\ written[session] \in 0..MaxEntries
        BY <1>1, <2>1, <2>2 DEF DataOf
      <3> QED  BY <1>1, <2>2, <2>3, <3>1 DEF DiskOf
    <2>5. FilesOf' /\ DataOf' /\ ShownIsTrue'
      BY <1>1, <2>1, <2>3 DEF FilesOf, DataOf, ShownIsTrue
    <2>6. LoggerInv'
      BY <1>1, <2>1, <2>2, <2>3, <2>4 DEF LoggerInv, DataOf
    <2> QED  BY <2>4, <2>5, <2>6
  <1>7. CASE MarkDone
    <2>1. /\ logger # "loop" /\ logger' \in {"loop", "down"} /\ shown' = FALSE
          /\ done' \in {done, done \cup {path}}
          /\ path' = NoName
          /\ UNCHANGED <<bin, disk, handle, session, buffered, named, written>>
      BY <1>7 DEF MarkDone
    <2>2. FilesOf'
      <3>1. path \in Names
        BY <1>1, <1>7 DEF MarkDone, DataOf, LoggerInv
      <3> QED  BY <1>1, <2>1, <3>1 DEF FilesOf
    <2>3. DiskOf' /\ DataOf' /\ ShownIsTrue'
      BY <1>1, <2>1 DEF DiskOf, DataOf, LoggerInv, ShownIsTrue
    <2>4. LoggerInv'
      BY <1>1, <2>1 DEF LoggerInv
    <2> QED  BY <2>2, <2>3, <2>4
  <1>8. CASE WriteEntry
    <2>1. /\ logger = "loop" /\ handle # NoFile /\ written[session] < MaxEntries
          /\ buffered' = buffered + 1
          /\ written' = [written EXCEPT ![session] = @ + 1]
          /\ UNCHANGED <<bin, done, disk, logger, handle, path, session, shown, named>>
      BY <1>8 DEF WriteEntry, fileVars
    <2>2. disk[handle].count + buffered = written[session] /\ session \in Sessions
          /\ disk[handle].count \in Nat
      BY <1>1, <2>1 DEF LoggerInv, DataOf, DiskOf
    <2>3. written' \in [Sessions -> 0..MaxEntries] /\ written'[session] = written[session] + 1
      BY <1>1, <2>1, <2>2 DEF DataOf
    <2>4. buffered' \in 0..MaxEntries
      <3>1. /\ buffered \in Nat /\ disk[handle].count \in Nat /\ written[session] \in Nat
            /\ written[session] < MaxEntries /\ buffered' = buffered + 1
            /\ disk[handle].count + buffered = written[session] /\ MaxEntries \in Nat
        BY <1>1, <2>1, <2>2 DEF DataOf
      <3> QED  BY <3>1
    <2>5. FilesOf' /\ DiskOf' /\ DataOf' /\ ShownIsTrue'
      BY <1>1, <2>1, <2>3, <2>4 DEF FilesOf, DiskOf, DataOf, ShownIsTrue
    <2>6. disk'[handle'].count + buffered' = written'[session']
      <3>1. buffered \in Nat
        BY <1>1 DEF DataOf
      <3>2. disk'[handle'].count = disk[handle].count /\ written'[session'] = written[session] + 1
        BY <2>1, <2>3
      <3> QED  BY <2>1, <2>2, <3>1, <3>2
    <2>7. LoggerInv'
      BY <1>1, <2>1, <2>2, <2>3, <2>6 DEF LoggerInv, DataOf
    <2> QED  BY <2>5, <2>7
  <1>9. CASE LoggerCrash
    <2>1. /\ logger' = "down" /\ handle' = NoFile /\ buffered' = 0 /\ path' = NoName
          /\ UNCHANGED <<bin, done, disk, session, named, written>>
      BY <1>9 DEF LoggerCrash, fileVars
    <2>2. FilesOf' /\ DiskOf'
      BY <1>1, <2>1 DEF FilesOf, DiskOf
    <2>5. DataOf'
      BY <1>1, <2>1 DEF DataOf
    <2>4. ShownIsTrue'
      BY <2>1 DEF ShownIsTrue
    <2>3. LoggerInv'
      BY <1>1, <2>1 DEF LoggerInv
    <2> QED  BY <2>2, <2>3, <2>4, <2>5
  <1> QED
    BY <1>3, <1>4, <1>5, <1>6, <1>7, <1>8, <1>9 DEF LoggerStep, LoggerNext

-----------------------------------------------------------------------------
(* Chunks that a recording's first k entries make are k.                   *)
LEMMA SentCardinality ==
  ASSUME NEW s, NEW k \in Nat
  PROVE  IsFiniteSet(Sent(s, k)) /\ Cardinality(Sent(s, k)) = k
  <1> DEFINE f == [j \in 0..(k - 1) |-> [index |-> j, owner |-> s]]
  <1>1. f \in Bijection(0..(k - 1), Sent(s, k))
    <2>1. f \in [0..(k - 1) -> Sent(s, k)]
      BY DEF Sent
    <2>2. \A i, j \in 0..(k - 1) : f[i] = f[j] => i = j
      <3> SUFFICES ASSUME NEW i \in 0..(k - 1), NEW j \in 0..(k - 1), f[i] = f[j]
                   PROVE  i = j
        OBVIOUS
      <3>1. f[i].index = i /\ f[j].index = j
        OBVIOUS
      <3> QED  BY <3>1
    <2>3. \A c \in Sent(s, k) : \E j \in 0..(k - 1) : f[j] = c
      BY DEF Sent
    <2> QED  BY <2>1, <2>2, <2>3 DEF Bijection, Injection, Surjection, IsInjective
  <1>2. IsFiniteSet(0..(k - 1)) /\ Cardinality(0..(k - 1)) = k
    BY FS_Interval
  <1> QED  BY <1>1, <1>2, FS_Bijection DEF ExistsBijection

(* A transfer has as many entries of a recording as there are indices      *)
(* below k, if all of its indices are.                                     *)
LEMMA FromRecordingBound ==
  ASSUME NEW n \in Names, NEW s, NEW k \in Nat, part \in [Names -> SUBSET Chunks],
         \A c \in part[n] : c.owner = s => c.index < k
  PROVE  FromRecording(n, s) \in 0..k
  <1> DEFINE S == {c \in part[n] : c.owner = s}
  <1>1. S \subseteq Sent(s, k)
    <2> SUFFICES ASSUME NEW c \in S PROVE c \in Sent(s, k)
      OBVIOUS
    <2>1. c \in Chunks /\ c.owner = s /\ c.index < k
      OBVIOUS
    <2>2. c = [index |-> c.index, owner |-> s] /\ c.index \in 0..(k - 1)
      BY <2>1, Bounds DEF Chunks
    <2> QED  BY <2>2 DEF Sent
  <1> HIDE DEF S
  <1>2. IsFiniteSet(S) /\ Cardinality(S) <= k
    BY <1>1, SentCardinality, FS_Subset
  <1>3. Cardinality(S) \in Nat
    BY <1>2, FS_CardinalityType
  <1> QED  BY <1>2, <1>3 DEF FromRecording, S

(* The uploader's half of the types; its place and its marker.             *)
ThreadOf ==
  /\ uploader \in {"down", "sleep", "scan", "start", "open", "chunk", "check", "end",
                   "removeBin", "removeDone"}
  /\ todo \subseteq Names
  /\ target \in 0..MaxSessions
  /\ fd \in 0..MaxSessions
  /\ chunks \in 0..MaxEntries

CloudOf ==
  /\ part \in [Names -> SUBSET Chunks]
  /\ saved \in [Sessions -> 0..MaxEntries]

(* The uploader's half of the types, and its markers.                      *)
LEMMA UploaderBaseStep ==
  ASSUME BaseInv, UploaderStep
  PROVE  FilesTypeOK' /\ UploaderTypeOK' /\ MarkInv'
  <1>0. Flags'
    BY FlagsStep DEF BaseInv, TypeOK, LoggerTypeOK, UploaderTypeOK, Flags, Next
  <1>1. FilesOf /\ DiskOf /\ ThreadOf /\ CloudOf /\ MarkInv
    BY Inodes, Zenon DEF BaseInv, TypeOK, FilesTypeOK, UploaderTypeOK, FilesOf, DiskOf,
         ThreadOf, CloudOf
  <1>2. DiskOf'
    BY <1>1, UploaderFrame DEF DiskOf
  <1> SUFFICES FilesOf' /\ ThreadOf' /\ CloudOf' /\ MarkInv'
    BY <1>0, <1>2, Inodes, Zenon DEF Flags, FilesTypeOK, UploaderTypeOK, FilesOf, DiskOf,
         ThreadOf, CloudOf
  <1> USE DEF FilesOf, ThreadOf, CloudOf, MarkInv, Uploading
  <1>3. CASE LinkNext \/ StopRequested \/ BridgeStart \/ BridgeExit
    BY <1>1, <1>3 DEF LinkNext, Open, SocketDies, Close, StopRequested, BridgeStart, BridgeExit,
         goto, fileVars, threadVars, cloudVars
  <1>4. CASE BridgeCrash \/ BeginPass \/ EndPass
    BY <1>1, <1>4, Bounds DEF BridgeCrash, BeginPass, EndPass, Forget, Listed, goto, fileVars,
         threadVars, cloudVars, NoFile, NoName
  <1>5. CASE \E n \in Names : ScanOrphan(n) \/ ScanMarked(n)
    <2>1. PICK n \in Names : ScanOrphan(n) \/ ScanMarked(n)
      BY <1>5
    <2>2. CASE ScanOrphan(n)
      BY <1>1, <2>2 DEF ScanOrphan, RemoveMarker, cloudVars
    <2>3. CASE ScanMarked(n)
      <3>1. n \in todo /\ n \in done /\ n \in 0..MaxSessions
        BY <1>1, <2>3, Bounds DEF ScanMarked, Sessions
      <3> QED  BY <1>1, <2>3, <3>1 DEF ScanMarked, goto, fileVars, cloudVars
    <2> QED  BY <2>1, <2>2, <2>3
  <1>6. CASE SendStart
    BY <1>1, <1>6 DEF SendStart, CloudStart, goto, fileVars
  <1>7. CASE OpenForReading \/ OpenFails
    BY <1>1, <1>7, Bounds DEF OpenForReading, OpenFails, Forget, goto, fileVars, cloudVars, NoFile,
         NoName
  <1>8. CASE SendChunk
    <2>0. uploader = "chunk" /\ ~(chunks >= disk[fd].count) /\ target \in Names
      BY <1>1, <1>8 DEF SendChunk, AtEnd
    <2>1. fd \in Sessions /\ chunks < disk[fd].count /\ uploader = "chunk"
      <3>1. fd \in Sessions
        BY <1>1, <2>0, Bounds DEF NoFile, Sessions
      <3>2. disk[fd].count \in Nat /\ chunks \in Nat
        BY <1>1, <3>1, Bounds DEF DiskOf
      <3> QED  BY <2>0, <3>1, <3>2
    <2>2. [index |-> chunks, owner |-> disk[fd].owner] \in Chunks /\ chunks + 1 \in 0..MaxEntries
      BY <1>1, <2>1, Bounds DEF DiskOf, Chunks
    <2>3. part' \in [Names -> SUBSET Chunks] /\ saved' = saved
      BY <1>1, <1>8, <2>2 DEF SendChunk, CloudChunk
    <2> QED  BY <1>1, <1>8, <2>2, <2>3 DEF SendChunk, goto, fileVars
  <1>9. CASE Check \/ EndOfFile
    BY <1>1, <1>9, Bounds DEF Check, EndOfFile, Forget, goto, fileVars, cloudVars, NoFile, NoName
  <1>10. CASE SendEnd
    <2>0. target \in Names
      BY <1>1, <1>10 DEF SendEnd
    <2>1. CloudOf'
      <3>1. CASE UNCHANGED cloudVars
        BY <1>1, <3>1 DEF cloudVars
      <3>2. CASE /\ saved' = [s \in Sessions |->
                                IF FromRecording(target, s) > saved[s]
                                THEN FromRecording(target, s) ELSE saved[s]]
                 /\ part' = [part EXCEPT ![target] = {}]
        <4>1. \A s \in Sessions : FromRecording(target, s) \in 0..MaxEntries
          <5> SUFFICES ASSUME NEW s \in Sessions PROVE FromRecording(target, s) \in 0..MaxEntries
            OBVIOUS
          <5>1. \A c \in part[target] : c.owner = s => c.index < MaxEntries
            BY <1>1, <2>0, Bounds DEF Chunks
          <5> QED  BY <1>1, <2>0, <5>1, FromRecordingBound, Bounds
        <4> QED  BY <1>1, <3>2, <4>1
      <3> QED  BY <1>10, <3>1, <3>2 DEF SendEnd, CloudEnd
    <2> QED  BY <1>1, <1>10, <2>1 DEF SendEnd, goto, fileVars
  <1>11. CASE RemoveBin \/ RemoveDone
    BY <1>1, <1>11, Bounds DEF RemoveBin, RemoveDone, Unlink, RemoveMarker, Forget, goto,
         cloudVars, NoFile, NoName
  <1> QED
    BY <1>3, <1>4, <1>5, <1>6, <1>7, <1>8, <1>9, <1>10, <1>11
       DEF UploaderStep, UploaderNext, ThreadNext

(* Both halves together: the logger only adds markers, so that the         *)
(* uploader keeps its own.                                                 *)
LEMMA BaseStep ==
  ASSUME BaseInv, [Next]_vars
  PROVE  BaseInv'
  <1>1. CASE LoggerStep
    <2>1. FilesTypeOK' /\ LoggerTypeOK' /\ LoggerInv' /\ ShownIsTrue'
      BY <1>1, LoggerBaseStep
    <2>2. UploaderTypeOK'
      BY <1>1, LoggerFrame DEF BaseInv, TypeOK, UploaderTypeOK
    <2>3. done \subseteq done'
      BY <1>1 DEF LoggerStep, LoggerNext, LoggerStart, PressButton, StartRecording,
         OpenForWriting, CloseFile, Flush, FlushBuffer, MarkDone, StopIdle, WriteEntry,
         LoggerCrash, fileVars
    <2>4. MarkInv'
      BY <1>1, <2>3, LoggerFrame DEF BaseInv, MarkInv, Uploading
    <2> QED  BY <2>1, <2>2, <2>4 DEF BaseInv, TypeOK
  <1>2. CASE UploaderStep
    <2>1. FilesTypeOK' /\ UploaderTypeOK' /\ MarkInv'
      BY <1>2, UploaderBaseStep
    <2>2. LoggerTypeOK' /\ ShownIsTrue'
      <3>1. UNCHANGED <<logger, toggle, handle, path, session, buffered, shown, written, named,
                      reused>>
        BY <1>2, UploaderFrame
      <3> QED  BY <3>1, Zenon DEF BaseInv, TypeOK, LoggerTypeOK, ShownIsTrue
    <2>3. LoggerInv'
      BY <1>2, UploaderFrame DEF BaseInv, LoggerInv, Finalizing
    <2> QED  BY <2>1, <2>2, <2>3 DEF BaseInv, TypeOK
  <1>3. CASE UNCHANGED vars
    <2> USE <1>3 DEF vars, fileVars, loggerVars, historyVars, uploaderVars, threadVars, linkVars,
               cloudVars
    <2>1. FilesTypeOK' /\ LoggerTypeOK'
      BY ZenonT(60) DEF BaseInv, TypeOK, FilesTypeOK, LoggerTypeOK
    <2>2. UploaderTypeOK' /\ ShownIsTrue'
      BY Zenon DEF BaseInv, TypeOK, UploaderTypeOK, ShownIsTrue
    <2>3. LoggerInv' /\ MarkInv'
      BY DEF BaseInv, LoggerInv, Finalizing, MarkInv, Uploading
    <2> QED  BY <2>1, <2>2, <2>3 DEF BaseInv, TypeOK
  <1> QED  BY <1>1, <1>2, <1>3 DEF Next

(* The part of the invariant that does not depend on the names.            *)
THEOREM BaseInvariance == Spec => []BaseInv
  BY BaseInit, BaseStep, PTL DEF Spec

(* Every variable of the logger, the directory, the uploader and the cloud *)
(* keeps its type: no recording outgrows its file, no chunk its recording. *)
THEOREM TypeCorrect == Spec => []TypeOK
  <1>1. BaseInv => TypeOK
    BY DEF BaseInv
  <1> QED  BY BaseInvariance, <1>1, PTL

(* The flag behind the recording LED says what the logger does whenever    *)
(* its loop runs, the first round after a crash included.                  *)
THEOREM LightCorrect == Spec => []ShownIsTrue
  <1>1. BaseInv => ShownIsTrue
    BY DEF BaseInv
  <1> QED  BY BaseInvariance, <1>1, PTL

(* The logger unlinks nothing, whatever name it opens.                     *)
LEMMA LoggerKeeps ==
  ASSUME BaseInv, LoggerStep, NEW n \in Names, bin[n] # NoFile
  PROVE  bin'[n] # NoFile
  <1>1. CASE StartRecording
    <2>1. \/ bin' = bin
          \/ \E m : session' = session + 1 /\ bin' = [bin EXCEPT ![m] = InodeFor(m, session')]
      BY <1>1 DEF StartRecording, OpenForWriting, fileVars
    <2>2. \A m : session' = session + 1 => InodeFor(m, session') # NoFile
      BY Bounds DEF InodeFor, BaseInv, TypeOK, LoggerTypeOK, NoFile
    <2> QED  BY <2>1, <2>2 DEF BaseInv, TypeOK, FilesTypeOK
  <1>2. CASE ~StartRecording
    BY <1>2 DEF LoggerStep, LoggerNext, LoggerStart, PressButton, CloseFile, Flush, FlushBuffer,
       MarkDone, StopIdle, WriteEntry, LoggerCrash, fileVars
  <1> QED  BY <1>1, <1>2

(* The uploader deletes only files with a marker: it is at a marker it     *)
(* found, and nobody else removes markers.                                 *)
THEOREM DeletionCorrect == Spec => OnlyMarkedFilesAreDeleted
  <1>1. BaseInv /\ [Next]_vars =>
          [\A n \in Names : (bin[n] # NoFile /\ bin'[n] = NoFile) => n \in done]_vars
    <2> SUFFICES ASSUME BaseInv, Next, NEW n \in Names, bin[n] # NoFile, bin'[n] = NoFile
                 PROVE  n \in done
      OBVIOUS
    <2>1. RemoveBin
      BY LoggerKeeps, UploaderFrame DEF Next
    <2>2. n = target
      BY <2>1 DEF RemoveBin, Unlink, BaseInv, TypeOK, FilesTypeOK
    <2> QED  BY <2>1, <2>2 DEF RemoveBin, BaseInv, MarkInv, Uploading
  <1> QED  BY BaseInvariance, <1>1, PTL DEF Spec, OnlyMarkedFilesAreDeleted

-----------------------------------------------------------------------------
(* What follows holds until a name is given a second time.                 *)

(* No file has a name at first.                                            *)
LEMMA FileInit == Init => FileInv
  BY Bounds DEF Init, FilesInit, LoggerInit, UploaderInit, FileInv, NameInv, CurrentInv, FinalInv,
     Finalizing, Sessions, Names, NoFile

(* A name that was given twice stays so.                                   *)
LEMMA ReusedForGood ==
  ASSUME [Next]_vars, ~reused'
  PROVE  ~reused
  <1>1. CASE LoggerStep
    BY <1>1, Zenon DEF LoggerStep, LoggerNext, LoggerStart, PressButton, StartRecording,
       CloseFile, MarkDone, StopIdle, WriteEntry, Flush, LoggerCrash, historyVars
  <1>2. CASE UploaderStep
    BY <1>2, UploaderFrame
  <1>3. CASE UNCHANGED vars
    BY <1>3, Zenon DEF vars, loggerVars, historyVars
  <1> QED  BY <1>1, <1>2, <1>3, Zenon DEF Next

(* A recording that begins under a new name gets an inode nobody had.      *)
LEMMA FreshStart ==
  ASSUME BaseInv, FileInv, ~reused', StartRecording, session' # session
  PROVE  /\ session' = session + 1 /\ session' \in Sessions /\ handle' = session'
         /\ handle = NoFile /\ logger = "loop" /\ logger' = "loop" /\ path' = session'
         /\ bin[session'] = NoFile /\ session' \notin done /\ session' \notin named
         /\ bin' = [bin EXCEPT ![session'] = session']
         /\ disk' = [disk EXCEPT ![session'] = [owner |-> session', count |-> 0]]
         /\ disk[session'] = [owner |-> session', count |-> 0]
         /\ named' = named \cup {session'} /\ UNCHANGED <<done, written>>
  <1>1. FilesOf /\ DiskOf /\ DataOf /\ LoggerInv
    BY Inodes, Zenon DEF BaseInv, TypeOK, FilesTypeOK, LoggerTypeOK, FilesOf, DiskOf, DataOf
  <1>2. PICK n \in named \cup {session'} :
          /\ session' = session + 1 /\ session < MaxSessions
          /\ handle' = InodeFor(n, session') /\ OpenForWriting(n, session')
          /\ handle = NoFile /\ logger = "loop" /\ logger' = "loop" /\ path' = n
          /\ named' = named \cup {n} /\ n \notin named /\ written' = written
    BY DEF StartRecording, make_log_path
  <1>3. n = session'
    BY <1>2
  <1>4. session' \in Sessions /\ session' > session
    BY <1>1, <1>2, Bounds DEF DataOf, Sessions
  <1>5. bin[session'] = NoFile /\ session' \notin done
    BY <1>2, <1>3, <1>4, Bounds DEF FileInv, NameInv
  <1>6. disk[session'] = [owner |-> session', count |-> 0]
    <2>1. disk[session'].owner = session' /\ disk[session'].count <= 0
      BY <1>1, <1>4 DEF FileInv, NameInv, LoggerInv
    <2> QED  BY <1>1, <1>4, <2>1, Bounds DEF DiskOf
  <1>7. InodeFor(session', session') = session'
    BY <1>5 DEF InodeFor
  <1> QED  BY <1>2, <1>3, <1>4, <1>5, <1>6, <1>7 DEF OpenForWriting

(* Every step of the logger is a recording that begins, or one of these.   *)
LEMMA LoggerMoves ==
  ASSUME BaseInv, LoggerStep, ~(StartRecording /\ session' # session)
  PROVE  /\ UNCHANGED <<bin, session, named>>
         /\ \/ /\ UNCHANGED <<done, disk, written>>
               /\ \/ UNCHANGED <<logger, handle, path>>
                  \/ handle' = NoFile /\ logger' \in {"loop", "down"}
            \/ /\ logger = "loop" /\ handle # NoFile
               /\ disk' = [disk EXCEPT ![handle].count = @ + buffered]
               /\ \/ handle' = NoFile /\ logger' \in {"marking", "exiting"}
                  \/ handle' = handle /\ logger' = logger
               /\ UNCHANGED <<done, path, written>>
            \/ /\ Finalizing /\ logger' \in {"loop", "down"}
               /\ done' \in {done, done \cup {path}}
               /\ UNCHANGED <<disk, handle, written>>
            \/ /\ logger = "loop" /\ handle # NoFile
               /\ written' = [written EXCEPT ![session] = @ + 1]
               /\ UNCHANGED <<done, disk, logger, handle, path>>
  <1>1. CASE PressButton
    BY <1>1 DEF PressButton, fileVars, historyVars
  <1>2. CASE LoggerStart \/ StopIdle \/ LoggerCrash
    BY <1>2 DEF LoggerStart, StopIdle, LoggerCrash, BaseInv, LoggerInv, fileVars, historyVars
  <1>3. CASE StartRecording
    <2>1. session + 1 # session
      BY Bounds DEF BaseInv, TypeOK, LoggerTypeOK
    <2> QED  BY <1>3, <2>1 DEF StartRecording, fileVars
  <1>4. CASE CloseFile \/ Flush
    BY <1>4 DEF CloseFile, Flush, FlushBuffer, historyVars
  <1>5. CASE MarkDone
    BY <1>5 DEF MarkDone, Finalizing, historyVars
  <1>6. CASE WriteEntry
    BY <1>6 DEF WriteEntry, fileVars
  <1> QED  BY <1>1, <1>2, <1>3, <1>4, <1>5, <1>6 DEF LoggerStep, LoggerNext

(* A name is one recording's for good, and the marker comes last.          *)
LEMMA FileStep ==
  ASSUME BaseInv, FileInv, [Next]_vars, ~reused'
  PROVE  FileInv'
  <1>1. FilesOf /\ DiskOf /\ DataOf /\ LoggerInv /\ MarkInv
    BY Inodes, Zenon DEF BaseInv, TypeOK, FilesTypeOK, LoggerTypeOK, FilesOf, DiskOf, DataOf
  <1>2. NameInv /\ CurrentInv /\ FinalInv
    BY DEF FileInv
  <1>3. CASE StartRecording /\ session' # session
    <2>1. /\ session' = session + 1 /\ session' \in Sessions /\ handle' = session'
          /\ logger' = "loop" /\ path' = session'
          /\ bin[session'] = NoFile /\ session' \notin done
          /\ bin' = [bin EXCEPT ![session'] = session']
          /\ disk' = disk /\ named' = named \cup {session'} /\ UNCHANGED <<done, written>>
      BY <1>1, <1>3, FreshStart DEF DiskOf
    <2>2. /\ session \in Nat /\ \A n \in named : n \in Nat
          /\ \A n \in Names : bin'[n] = IF n = session' THEN session' ELSE bin[n]
      BY <1>1, <2>1, Bounds DEF DataOf, FilesOf, Sessions
    <2>3. NameInv'
      BY <1>1, <1>2, <2>1, <2>2, Bounds DEF NameInv
    <2>4. CurrentInv'
      BY <2>1, <2>2, Bounds DEF CurrentInv, Finalizing
    <2>5. FinalInv'
      BY <1>1, <1>2, <2>1, <2>2 DEF FinalInv, FilesOf
    <2> QED  BY <2>3, <2>4, <2>5 DEF FileInv
  <1>4. CASE LoggerStep /\ ~(StartRecording /\ session' # session)
    <2>0. UNCHANGED <<bin, session, named>>
      BY <1>4, LoggerMoves
    <2>1. CASE /\ UNCHANGED <<done, disk, written>>
               /\ \/ UNCHANGED <<logger, handle, path>>
                  \/ handle' = NoFile /\ logger' \in {"loop", "down"}
      BY <1>2, <2>0, <2>1 DEF FileInv, NameInv, CurrentInv, FinalInv, Finalizing
    <2>2. CASE /\ logger = "loop" /\ handle # NoFile
               /\ disk' = [disk EXCEPT ![handle].count = @ + buffered]
               /\ \/ handle' = NoFile /\ logger' \in {"marking", "exiting"}
                  \/ handle' = handle /\ logger' = logger
               /\ UNCHANGED <<done, path, written>>
      <3>1. handle = session /\ session \in Sessions
        BY <1>1, <1>2, <2>2, Bounds DEF CurrentInv, DataOf, NoFile, Sessions
      <3>2. disk[handle].count + buffered = written[session]
        BY <1>1, <2>2 DEF LoggerInv
      <3>3. /\ \A i \in Sessions : disk'[i].owner = disk[i].owner
            /\ \A i \in Sessions : disk'[i].count = IF i = session THEN written[session]
                                                    ELSE disk[i].count
        BY <1>1, <2>2, <3>1, <3>2 DEF DiskOf
      <3>4. \A n \in done : bin[n] # NoFile => bin[n] # session
        BY <1>1, <1>2, <2>2, <3>1 DEF NameInv, CurrentInv, FilesOf
      <3>5. written[session] \in Nat
        BY <1>1, <3>1, Bounds DEF DataOf
      <3>6. NameInv'
        BY <1>2, <2>0, <2>2, <3>3, <3>5 DEF NameInv
      <3>7. CurrentInv'
        BY <1>2, <2>0, <2>2, <3>1, <3>3 DEF CurrentInv, Finalizing
      <3>8. FinalInv'
        <4> SUFFICES ASSUME NEW n \in done, bin[n] # NoFile
                     PROVE  disk'[bin[n]].count = written[bin[n]]
          BY <2>0, <2>2 DEF FinalInv
        <4>1. bin[n] \in Sessions
          BY <1>1, Bounds DEF FilesOf, Sessions, NoFile
        <4> QED  BY <1>2, <3>3, <3>4, <4>1 DEF FinalInv
      <3> QED  BY <3>6, <3>7, <3>8 DEF FileInv
    <2>3. CASE /\ Finalizing /\ logger' \in {"loop", "down"}
               /\ done' \in {done, done \cup {path}}
               /\ UNCHANGED <<disk, handle, written>>
      <3>1. handle = NoFile /\ session \in Sessions /\ path = session /\ bin[session] = session
            /\ disk[session].count = written[session]
        BY <1>1, <1>2, <2>3 DEF LoggerInv, CurrentInv, Finalizing, DataOf, Sessions
      <3>2. session \in named
        BY <1>2, <3>1, Bounds DEF NameInv
      <3>3. NameInv'
        BY <1>2, <2>0, <2>3, <3>1, <3>2 DEF NameInv
      <3>4. CurrentInv' /\ FinalInv'
        BY <1>2, <2>0, <2>3, <3>1 DEF CurrentInv, FinalInv, Finalizing
      <3> QED  BY <3>3, <3>4 DEF FileInv
    <2>4. CASE /\ logger = "loop" /\ handle # NoFile
               /\ written' = [written EXCEPT ![session] = @ + 1]
               /\ UNCHANGED <<done, disk, logger, handle, path>>
      <3>1. handle = session /\ session \in Sessions
        BY <1>1, <1>2, <2>4, Bounds DEF CurrentInv, DataOf, NoFile, Sessions
      <3>2. /\ \A i \in Sessions : i # session => written'[i] = written[i]
            /\ \A i \in Sessions : written'[i] >= written[i] /\ written'[i] \in Nat
        BY <1>1, <2>4, <3>1, Bounds DEF DataOf
      <3>3. \A n \in done : bin[n] # NoFile => bin[n] # session /\ bin[n] \in Sessions
        BY <1>1, <1>2, <2>4, <3>1, Bounds DEF NameInv, CurrentInv, FilesOf, Sessions, NoFile
      <3>4. NameInv'
        BY <1>1, <1>2, <2>0, <2>4, <3>2 DEF NameInv, DiskOf, DataOf
      <3>5. CurrentInv'
        BY <1>2, <2>0, <2>4 DEF CurrentInv, Finalizing
      <3>6. FinalInv'
        BY <1>2, <2>0, <2>4, <3>2, <3>3 DEF FinalInv
      <3> QED  BY <3>4, <3>5, <3>6 DEF FileInv
    <2> QED  BY <1>4, <2>1, <2>2, <2>3, <2>4, LoggerMoves
  <1>5. CASE UploaderStep
    <2>1. UNCHANGED <<logger, handle, path, session, named, written, disk>>
      BY <1>5, UploaderFrame
    <2>2. CASE UNCHANGED bin
      <3>1. done' \subseteq done
        BY <1>5 DEF UploaderStep, UploaderNext, LinkNext, ThreadNext, Open, SocketDies, Close,
          BridgeStart, StopRequested, BridgeExit, BridgeCrash, BeginPass, EndPass, OpenForReading,
          EndOfFile, SendChunk, ScanOrphan, ScanMarked, OpenFails, RemoveBin, Unlink, RemoveDone,
          Check, SendStart, SendEnd, RemoveMarker, fileVars
      <3> QED  BY <1>2, <2>1, <2>2, <3>1 DEF FileInv, NameInv, CurrentInv, FinalInv, Finalizing
    <2>3. CASE RemoveBin
      <3>1. target \in done /\ target \in Names /\ done' = done
            /\ bin' = [bin EXCEPT ![target] = NoFile]
        BY <1>1, <2>3 DEF RemoveBin, Unlink, MarkInv, Uploading, FilesOf
      <3>2. \A n \in Names : bin'[n] = IF n = target THEN NoFile ELSE bin[n]
        BY <1>1, <3>1 DEF FilesOf
      <3>3. session > 0 => session \in Names
        BY <1>1, Bounds DEF DataOf, Sessions
      <3>4. NameInv'
        BY <1>1, <1>2, <2>1, <3>1, <3>2 DEF NameInv, NoFile, FilesOf
      <3>5. CurrentInv'
        BY <1>2, <2>1, <3>1, <3>2, <3>3 DEF CurrentInv, Finalizing
      <3>6. FinalInv'
        BY <1>1, <1>2, <2>1, <3>1, <3>2 DEF FinalInv, FilesOf
      <3> QED  BY <3>4, <3>5, <3>6 DEF FileInv
    <2> QED  BY <1>5, <2>2, <2>3, UploaderFrame
  <1>6. CASE UNCHANGED vars
    BY <1>6 DEF vars, fileVars, loggerVars, historyVars, FileInv, NameInv, CurrentInv, FinalInv,
       Finalizing
  <1> QED  BY <1>3, <1>4, <1>5, <1>6 DEF Next, LoggerStep

(* Until a name is given twice a name is one recording's, the current      *)
(* one's has no marker, and a marked one is complete.                      *)
THEOREM FileInvariance == Spec => [](~reused => FileInv)
  <1>1. BaseInv /\ (~reused => FileInv) /\ [Next]_vars => (~reused' => FileInv')
    BY FileStep, ReusedForGood
  <1> QED  BY FileInit, BaseInvariance, <1>1, PTL DEF Spec

(* A file with a marker is not open for writing: the open one has the name *)
(* of the current recording alone, which has no marker yet.                *)
THEOREM MarkedCorrect == Spec => []MarkedIsFinal
  <1>1. BaseInv /\ (~reused => FileInv) => MarkedIsFinal
    BY Bounds DEF BaseInv, TypeOK, FilesTypeOK, LoggerTypeOK, FileInv, NameInv, CurrentInv,
       MarkedIsFinal, NoFile
  <1> QED  BY BaseInvariance, FileInvariance, <1>1, PTL

-----------------------------------------------------------------------------
(* The upload.                                                             *)

(* The cloud has nothing at first, and no upload runs.                     *)
LEMMA UploadInit == Init => UploadInv
  BY Bounds DEF Init, FilesInit, LoggerInit, UploaderInit, UploadInv, CloudInv, ReadInv, SentInv,
     Sessions

(* The logger leaves alone what carries a marker: its name, its inode, and *)
(* how much its recording has written.                                     *)
LEMMA Steady ==
  ASSUME BaseInv, FileInv, ~reused', LoggerStep
  PROVE  /\ \A s \in Sessions : written'[s] >= written[s]
         /\ \A n \in done :
              /\ bin'[n] = bin[n]
              /\ bin[n] # NoFile => /\ disk'[bin[n]] = disk[bin[n]]
                                    /\ written'[bin[n]] = written[bin[n]]
  <1>1. FilesOf /\ DiskOf /\ DataOf
    BY Inodes, Zenon DEF BaseInv, TypeOK, FilesTypeOK, LoggerTypeOK, FilesOf, DiskOf, DataOf
  <1>2. \A s \in Sessions : written[s] \in Nat
    BY <1>1, Bounds DEF DataOf
  <1>3. CASE StartRecording /\ session' # session
    <2>1. /\ session' \notin done /\ bin' = [bin EXCEPT ![session'] = session']
          /\ disk' = disk /\ written' = written
      BY <1>1, <1>3, FreshStart DEF DiskOf
    <2> QED  BY <1>1, <1>2, <2>1 DEF FilesOf
  <1>4. CASE UNCHANGED <<disk, written, bin>>
    BY <1>2, <1>4
  <1>5. CASE /\ handle # NoFile /\ bin' = bin
             /\ \/ /\ disk' = [disk EXCEPT ![handle].count = @ + buffered]
                   /\ written' = written
                \/ /\ written' = [written EXCEPT ![session] = @ + 1]
                   /\ disk' = disk
    <2>1. handle = session /\ bin[session] = session /\ session \notin done
      BY <1>1, <1>5 DEF FileInv, CurrentInv, DataOf
    <2>2. \A n \in done : bin[n] # NoFile => bin[n] # session /\ bin[n] \in Sessions
      BY <1>1, <2>1, Bounds DEF FileInv, NameInv, FilesOf, Sessions, NoFile
    <2> QED  BY <1>1, <1>2, <1>5, <2>1, <2>2 DEF DiskOf, DataOf
  <1> QED  BY <1>3, <1>4, <1>5, LoggerMoves

(* What the logger does meanwhile does not disturb an upload.              *)
LEMMA UploadLoggerStep ==
  ASSUME BaseInv, FileInv, UploadInv, ~reused', LoggerStep
  PROVE  UploadInv'
  <1>1. FilesOf /\ DataOf /\ ThreadOf /\ CloudOf /\ MarkInv
    BY Inodes, Zenon DEF BaseInv, TypeOK, FilesTypeOK, LoggerTypeOK, UploaderTypeOK, FilesOf,
         DataOf, ThreadOf, CloudOf
  <1>2. UNCHANGED <<uploader, target, fd, chunks, connected, alive, part, saved, disturbed>>
    BY LoggerFrame
  <1>3. \A s \in Sessions : written'[s] >= written[s]
    BY Steady
  <1>4. CloudInv'
    <2>1. \A s \in Sessions : written[s] \in Nat /\ written'[s] \in Nat
      BY <1>1, LoggerBaseStep, Bounds DEF DataOf, LoggerTypeOK
    <2>2. ASSUME NEW n \in Names, NEW c \in part[n]
          PROVE  c.index < written'[c.owner]
      <3>1. c.owner \in Sessions /\ c.index \in Nat
        BY <1>1, Bounds DEF CloudOf, Chunks
      <3> QED  BY <1>3, <2>1, <3>1 DEF UploadInv, CloudInv
    <2>3. ASSUME NEW s \in Sessions
          PROVE  saved[s] <= written'[s]
      BY <1>1, <1>3, <2>1, Bounds DEF UploadInv, CloudInv, CloudOf
    <2> QED  BY <1>2, <2>2, <2>3 DEF CloudInv
  <1>5. Uploading => /\ bin'[target] = bin[target]
                     /\ bin[target] # NoFile => /\ disk'[bin[target]] = disk[bin[target]]
                                                /\ written'[bin[target]] = written[bin[target]]
    BY <1>1, Steady DEF MarkInv
  <1>6. ReadInv'
    BY <1>1, <1>2, <1>5 DEF UploadInv, ReadInv, Uploading, MarkInv
  <1>7. SentInv'
    BY <1>2, <1>5 DEF UploadInv, SentInv, Uploading, Delivered
  <1> QED  BY <1>4, <1>6, <1>7 DEF UploadInv

(* A transfer closed on all its chunks saves their number for the          *)
(* recording they came from, and never more than was written.              *)
LEMMA EndSaves ==
  ASSUME BaseInv, CloudInv, target \in Names, CloudEnd(target, chunks)
  PROVE  /\ part' \in {part, [part EXCEPT ![target] = {}]}
         /\ \A s \in Sessions : saved'[s] \in 0..written[s]
         /\ \A s \in Sessions : saved'[s] >= saved[s]
         /\ \A s \in Sessions :
              Delivered /\ part[target] = Sent(s, chunks) => saved'[s] >= chunks
  <1>1. DataOf /\ ThreadOf /\ CloudOf
    BY Inodes, Zenon DEF BaseInv, TypeOK, LoggerTypeOK, UploaderTypeOK, DataOf, ThreadOf, CloudOf
  <1>2. \A s \in Sessions : written[s] \in Nat /\ saved[s] \in Nat /\ saved[s] <= written[s]
    BY <1>1, Bounds DEF DataOf, CloudOf, CloudInv
  <1>3. \A s \in Sessions : FromRecording(target, s) \in 0..written[s]
    <2> SUFFICES ASSUME NEW s \in Sessions PROVE FromRecording(target, s) \in 0..written[s]
      OBVIOUS
    <2>1. \A c \in part[target] : c.owner = s => c.index < written[s]
      BY DEF CloudInv
    <2> QED  BY <1>1, <1>2, <2>1, FromRecordingBound DEF CloudOf
  <1>4. ASSUME NEW s \in Sessions, part[target] = Sent(s, chunks)
        PROVE  /\ {c.index : c \in part[target]} = 0..(chunks - 1)
               /\ FromRecording(target, s) = chunks
    <2>1. chunks \in Nat
      BY <1>1, Bounds DEF ThreadOf
    <2>2. {c \in part[target] : c.owner = s} = Sent(s, chunks)
      BY <1>4 DEF Sent
    <2>3. FromRecording(target, s) = chunks
      BY <2>1, <2>2, SentCardinality DEF FromRecording
    <2>4. {c.index : c \in part[target]} = 0..(chunks - 1)
      <3>1. ASSUME NEW j \in 0..(chunks - 1)
            PROVE  \E c \in part[target] : c.index = j
        <4>1. [index |-> j, owner |-> s] \in part[target]
          BY <1>4 DEF Sent
        <4> QED  BY <4>1
      <3>2. \A c \in part[target] : c.index \in 0..(chunks - 1)
        BY <1>4 DEF Sent
      <3> QED  BY <3>1, <3>2
    <2> QED  BY <2>3, <2>4
  <1>5. CASE UNCHANGED cloudVars
             /\ ~(Delivered /\ {c.index : c \in part[target]} = 0..(chunks - 1))
    BY <1>2, <1>4, <1>5 DEF cloudVars
  <1>6. CASE /\ saved' = [s \in Sessions |->
                            IF FromRecording(target, s) > saved[s]
                            THEN FromRecording(target, s) ELSE saved[s]]
             /\ part' = [part EXCEPT ![target] = {}]
    <2>1. ASSUME NEW s \in Sessions
          PROVE  /\ saved'[s] \in 0..written[s] /\ saved'[s] >= saved[s]
                 /\ saved'[s] >= FromRecording(target, s)
      BY <1>2, <1>3, <1>6
    <2> QED  BY <1>4, <1>6, <2>1
  <1> QED  BY <1>5, <1>6 DEF CloudEnd

(* The name being uploaded is one.                                         *)
LEMMA TargetName == BaseInv /\ Uploading => target \in Names
  BY DEF BaseInv, TypeOK, FilesTypeOK, MarkInv

(* The uploader's own steps.                                               *)
LEMMA UploadUploaderStep ==
  ASSUME BaseInv, FileInv, UploadInv, UploaderStep
  PROVE  UploadInv'
  <1>1. FilesOf /\ DiskOf /\ DataOf /\ ThreadOf /\ CloudOf /\ MarkInv
    BY Inodes, Zenon DEF BaseInv, TypeOK, FilesTypeOK, LoggerTypeOK, UploaderTypeOK, FilesOf,
         DiskOf, DataOf, ThreadOf, CloudOf
  <1>2. disk' = disk /\ written' = written
    BY UploaderFrame
  <1>3. CloudInv /\ ReadInv /\ SentInv
    BY DEF UploadInv
  <1>4. CASE LinkNext \/ StopRequested
    <2>1. /\ UNCHANGED <<bin, uploader, target, fd, chunks, part, saved>>
          /\ disturbed' = disturbed \/ disturbed' = TRUE
      BY <1>4 DEF LinkNext, Open, SocketDies, Close, StopRequested, fileVars, threadVars,
         cloudVars
    <2>2. Delivered => disturbed' = TRUE \/ Delivered'
      BY <1>4 DEF LinkNext, Open, SocketDies, Close, StopRequested, linkVars, Delivered
    <2>3. CloudInv' /\ ReadInv'
      BY <1>2, <1>3, <2>1 DEF CloudInv, ReadInv
    <2>4. SentInv'
      BY <1>2, <1>3, <2>1, <2>2 DEF SentInv, Uploading
    <2> QED  BY <2>3, <2>4 DEF UploadInv
  <1>5. CASE \/ BridgeStart \/ BridgeExit \/ BridgeCrash \/ BeginPass \/ EndPass
             \/ OpenFails \/ RemoveDone \/ \E n \in Names : ScanOrphan(n) \/ ScanMarked(n)
    <2>1. /\ UNCHANGED <<part, saved>>
          /\ uploader' \in {"down", "sleep", "scan", "start"}
          /\ disturbed' = TRUE \/ (disturbed' = disturbed /\ ~Uploading)
      BY <1>5 DEF BridgeStart, BridgeExit, BridgeCrash, BeginPass, EndPass, OpenFails, RemoveDone,
         ScanOrphan, ScanMarked, Forget, goto, cloudVars, Uploading
    <2>2. CloudInv' /\ ReadInv'
      BY <1>2, <1>3, <2>1 DEF CloudInv, ReadInv
    <2>3. SentInv'
      BY <1>3, <2>1 DEF SentInv
    <2> QED  BY <2>2, <2>3 DEF UploadInv
  <1>6. CASE SendStart
    <2>1. /\ uploader' = "open" /\ saved' = saved /\ disturbed' = ~Delivered
          /\ part' = IF Delivered THEN [part EXCEPT ![target] = {}] ELSE part
          /\ UNCHANGED <<target, connected, alive>>
      BY <1>6 DEF SendStart, CloudStart, goto, linkVars
    <2>2. \A n \in Names : part'[n] \subseteq part[n]
      BY <1>1, <2>1 DEF ThreadOf, CloudOf
    <2>3. CloudInv' /\ ReadInv'
      BY <1>2, <1>3, <2>1, <2>2 DEF CloudInv, ReadInv
    <2>4. Delivered => part'[target] = {}
      BY <1>1, <1>6, <2>1, TargetName DEF SendStart, Uploading, CloudOf
    <2>5. SentInv'
      BY <2>1, <2>4 DEF SentInv, Uploading, Delivered
    <2> QED  BY <2>3, <2>5 DEF UploadInv
  <1>7. CASE OpenForReading
    <2>1. /\ uploader = "open" /\ uploader' = "chunk" /\ bin[target] # NoFile
          /\ fd' = bin[target] /\ chunks' = 0
          /\ UNCHANGED <<bin, target, part, saved, connected, alive, disturbed>>
      BY <1>7 DEF OpenForReading, goto, fileVars, cloudVars, linkVars
    <2>2. fd' \in Sessions
      BY <1>1, <2>1, TargetName, Bounds DEF FilesOf, Uploading, Sessions, NoFile
    <2>3. CloudInv' /\ ReadInv'
      BY <1>1, <1>2, <1>3, <2>1, <2>2, Bounds DEF CloudInv, ReadInv, DiskOf
    <2>4. Sent(bin[target], 0) = {}
      BY DEF Sent
    <2>5. SentInv'
      BY <1>3, <2>1, <2>4 DEF SentInv, Uploading, Delivered
    <2> QED  BY <2>3, <2>5 DEF UploadInv
  <1>8. CASE SendChunk
    <2> DEFINE chunk == [index |-> chunks, owner |-> disk[fd].owner]
    <2>1. /\ uploader = "chunk" /\ uploader' = "check" /\ ~(chunks >= disk[fd].count)
          /\ chunks' = chunks + 1 /\ saved' = saved
          /\ part' = IF Delivered THEN [part EXCEPT ![target] = @ \cup {chunk}] ELSE part
          /\ UNCHANGED <<bin, target, fd, connected, alive, disturbed>>
      BY <1>8 DEF SendChunk, CloudChunk, AtEnd, goto, fileVars, linkVars
    <2>2. fd = bin[target] /\ fd \in Sessions
      BY <1>1, <1>3, <2>1, Bounds DEF ReadInv, MarkInv, ThreadOf, Sessions, NoFile
    <2>3. chunks \in Nat /\ disk[fd].count \in Nat /\ written[fd] \in Nat
      BY <1>1, <2>2, Bounds DEF ThreadOf, DiskOf, DataOf
    <2>4. disk[fd].owner = fd /\ chunks < written[fd]
      BY <2>1, <2>2, <2>3 DEF FileInv, NameInv
    <2> HIDE DEF chunk
    <2>5. chunk.owner = fd /\ chunk.index = chunks
      BY <2>4 DEF chunk
    <2>6. \A n \in Names : part'[n] \subseteq part[n] \cup {chunk}
      BY <1>1, <2>1 DEF ThreadOf, CloudOf
    <2>7. CloudInv'
      BY <1>2, <1>3, <2>1, <2>4, <2>5, <2>6 DEF CloudInv
    <2>8. ReadInv'
      BY <1>2, <2>1, <2>2, <2>3 DEF ReadInv
    <2>9. Sent(fd, chunks + 1) = Sent(fd, chunks) \cup {chunk}
      <3>1. 0..((chunks + 1) - 1) = 0..(chunks - 1) \cup {chunks}
        BY <2>3
      <3> QED  BY <2>4, <3>1 DEF Sent, chunk
    <2>10. Delivered => part'[target] = part[target] \cup {chunk}
      BY <1>1, <2>1, TargetName DEF Uploading, CloudOf
    <2>11. SentInv'
      BY <1>3, <2>1, <2>2, <2>9, <2>10 DEF SentInv, Uploading, Delivered
    <2> QED  BY <2>7, <2>8, <2>11 DEF UploadInv
  <1>9. CASE Check \/ EndOfFile
    <2>1. /\ UNCHANGED <<bin, part, saved, connected, alive>>
          /\ \/ UNCHANGED <<target, fd, chunks, disturbed>> /\ uploader = "check"
                /\ uploader' = "chunk"
             \/ disturbed' = TRUE /\ uploader' = "scan"
             \/ UNCHANGED <<target, chunks, disturbed>> /\ uploader = "chunk"
                /\ uploader' = "end" /\ chunks >= disk[fd].count
      BY <1>9 DEF Check, EndOfFile, AtEnd, Forget, goto, fileVars, cloudVars, linkVars
    <2>2. uploader = "chunk" => /\ fd = bin[target] /\ fd \in Sessions
                                /\ disk[fd].count \in Nat /\ chunks \in Nat
      BY <1>1, <1>3, Bounds DEF ReadInv, MarkInv, ThreadOf, DiskOf, Sessions, NoFile
    <2>3. CloudInv'
      BY <1>2, <1>3, <2>1 DEF CloudInv
    <2>4. ReadInv'
      BY <1>2, <1>3, <2>1, <2>2 DEF ReadInv, Sessions, NoFile
    <2>5. SentInv'
      BY <1>3, <2>1 DEF SentInv, Uploading, Delivered
    <2> QED  BY <2>3, <2>4, <2>5 DEF UploadInv
  <1>10. CASE SendEnd
    <2>1. /\ uploader = "end" /\ uploader' = "removeBin" /\ CloudEnd(target, chunks)
          /\ UNCHANGED <<bin, target, connected, alive, disturbed>>
      BY <1>10 DEF SendEnd, goto, fileVars, linkVars
    <2>a. target \in Names
      BY <2>1, TargetName DEF Uploading
    <2>2. CloudInv'
      <3>1. part' \in {part, [part EXCEPT ![target] = {}]}
        BY <1>3, <2>1, <2>a, EndSaves
      <3>2. \A n \in Names : part'[n] \subseteq part[n]
        BY <1>1, <3>1 DEF ThreadOf, CloudOf
      <3>3. \A s \in Sessions : saved'[s] <= written[s]
        <4>1. \A s \in Sessions : written[s] \in Nat
          BY <1>1, Bounds DEF DataOf
        <4> QED  BY <1>3, <2>1, <2>a, <4>1, EndSaves
      <3> QED  BY <1>2, <1>3, <3>2, <3>3 DEF CloudInv
    <2>3. ReadInv'
      BY <2>1 DEF ReadInv
    <2>4. ASSUME ~disturbed
          PROVE  Delivered /\ saved'[bin[target]] = written[bin[target]]
      <3>1. Delivered /\ part[target] = Sent(bin[target], chunks)
        BY <1>3, <2>1, <2>4 DEF SentInv
      <3>2. bin[target] \in Sessions /\ chunks = disk[bin[target]].count
        BY <1>1, <1>3, <2>1, <2>a, Bounds DEF ReadInv, FilesOf, Sessions, NoFile
      <3>3. chunks = written[bin[target]]
        BY <1>1, <1>3, <2>1, <3>2 DEF FileInv, FinalInv, MarkInv, Uploading, ReadInv
      <3>4. saved'[bin[target]] >= chunks /\ saved'[bin[target]] \in 0..written[bin[target]]
        BY <1>3, <2>1, <2>a, <3>1, <3>2, EndSaves
      <3>5. written[bin[target]] \in Nat
        BY <1>1, <3>2, Bounds DEF DataOf
      <3> QED  BY <3>1, <3>3, <3>4, <3>5
    <2>5. SentInv'
      BY <1>2, <2>1, <2>4 DEF SentInv, Uploading, Delivered
    <2> QED  BY <2>2, <2>3, <2>5 DEF UploadInv
  <1>11. CASE RemoveBin
    <2>1. /\ uploader = "removeBin" /\ uploader' = "removeDone"
          /\ UNCHANGED <<part, saved, connected, alive, disturbed>>
      BY <1>11 DEF RemoveBin, goto, cloudVars, linkVars
    <2> QED
      BY <1>2, <1>3, <2>1 DEF UploadInv, CloudInv, ReadInv, SentInv, Uploading, Delivered
  <1> QED
    BY <1>4, <1>5, <1>6, <1>7, <1>8, <1>9, <1>10, <1>11 DEF UploaderStep, UploaderNext, ThreadNext

(* The thread reads the file of its marker to its end, and on a socket     *)
(* that lives the cloud has what it has read.                              *)
THEOREM UploadInvariance == Spec => [](~reused => UploadInv)
  <1>1. BaseInv /\ (~reused => FileInv) /\ (~reused => UploadInv) /\ [Next]_vars =>
          (~reused' => UploadInv')
    <2> SUFFICES ASSUME BaseInv, FileInv, UploadInv, [Next]_vars, ~reused'
                 PROVE  UploadInv'
      BY ReusedForGood
    <2>1. CASE UNCHANGED vars
      BY <2>1 DEF vars, fileVars, loggerVars, historyVars, uploaderVars, threadVars, linkVars,
         cloudVars, UploadInv, CloudInv, ReadInv, SentInv, Uploading, Delivered
    <2> QED  BY <2>1, UploadLoggerStep, UploadUploaderStep DEF Next
  <1> QED  BY UploadInit, BaseInvariance, FileInvariance, <1>1, PTL DEF Spec

(* When the socket lived from the start message to the deletion, the cloud *)
(* has every entry of the deleted recording, however many there are.       *)
THEOREM DeletedCorrect == Spec => DeletedWhenSaved
  <1>1. BaseInv /\ (~reused => FileInv) /\ (~reused => UploadInv) /\ [Next]_vars =>
          [\A n \in Names :
             (bin[n] # NoFile /\ bin'[n] = NoFile /\ ~disturbed /\ ~reused) =>
                 LET s == disk[bin[n]].owner IN saved[s] = written[s]]_vars
    <2> SUFFICES ASSUME BaseInv, FileInv, UploadInv, Next, NEW n \in Names,
                        bin[n] # NoFile, bin'[n] = NoFile, ~disturbed
                 PROVE  saved[disk[bin[n]].owner] = written[disk[bin[n]].owner]
      BY DEF vars
    <2>1. FilesOf /\ DataOf /\ MarkInv
      BY Inodes, Zenon DEF BaseInv, TypeOK, FilesTypeOK, LoggerTypeOK, FilesOf, DataOf
    <2>2. RemoveBin
      BY LoggerKeeps, UploaderFrame DEF Next
    <2>3. uploader = "removeBin" /\ n = target
      BY <2>1, <2>2 DEF RemoveBin, Unlink, FilesOf
    <2>4. saved[bin[n]] = written[bin[n]]
      BY <2>3 DEF UploadInv, SentInv
    <2>5. disk[bin[n]].owner = bin[n]
      BY <2>1, Bounds DEF FilesOf, Sessions, NoFile, FileInv, NameInv
    <2> QED  BY <2>4, <2>5
  <1> QED
    BY BaseInvariance, FileInvariance, UploadInvariance, <1>1, PTL DEF Spec, DeletedWhenSaved

-----------------------------------------------------------------------------
(* The pipeline implements RecordingArchive.                               *)

(* A transfer has entries of one recording at most, the one that has its   *)
(* name; and a marker outlives its file only for one step.                 *)
OwnerInv ==
  /\ \A n \in Names : part[n] # {} => n \in named
  /\ \A n \in Names : bin[n] # NoFile => \A c \in part[n] : c.owner = bin[n]
  /\ uploader = "removeDone" => bin[target] = NoFile

(* No transfer has begun at first.                                         *)
LEMMA OwnerInit == Init => OwnerInv
  BY DEF Init, UploaderInit, OwnerInv

(* The logger opens a name nobody ever sent.                               *)
LEMMA OwnerLoggerStep ==
  ASSUME BaseInv, FileInv, OwnerInv, ~reused', LoggerStep
  PROVE  OwnerInv'
  <1>1. FilesOf /\ MarkInv
    BY Inodes, Zenon DEF BaseInv, TypeOK, FilesTypeOK, FilesOf
  <1>2. UNCHANGED <<uploader, target, part>>
    BY LoggerFrame
  <1>3. CASE StartRecording /\ session' # session
    <2>1. /\ session' \in Names /\ session' \notin done /\ session' \notin named
          /\ bin' = [bin EXCEPT ![session'] = session'] /\ named' = named \cup {session'}
      BY <1>3, FreshStart, Bounds
    <2>2. part[session'] = {}
      BY <2>1 DEF OwnerInv
    <2>3. \A n \in Names : bin'[n] = IF n = session' THEN session' ELSE bin[n]
      BY <1>1, <2>1 DEF FilesOf
    <2>4. ASSUME NEW n \in Names, bin'[n] # NoFile, NEW c \in part'[n]
          PROVE  c.owner = bin'[n]
      BY <1>2, <2>2, <2>3, <2>4 DEF OwnerInv
    <2>5. uploader' = "removeDone" => bin'[target'] = NoFile
      BY <1>1, <1>2, <2>1, <2>3 DEF OwnerInv, MarkInv, Uploading
    <2>6. \A n \in Names : part'[n] # {} => n \in named'
      BY <1>2, <2>1 DEF OwnerInv
    <2> QED  BY <2>4, <2>5, <2>6 DEF OwnerInv
  <1>4. CASE ~(StartRecording /\ session' # session)
    BY <1>2, <1>4, LoggerMoves DEF OwnerInv
  <1> QED  BY <1>3, <1>4

(* The thread sends what it reads, and reads the file of its marker.       *)
LEMMA OwnerUploaderStep ==
  ASSUME BaseInv, FileInv, UploadInv, OwnerInv, UploaderStep
  PROVE  OwnerInv'
  <1>1. FilesOf /\ DiskOf /\ DataOf /\ ThreadOf /\ CloudOf /\ MarkInv /\ NameInv /\ ReadInv
    BY Inodes, Zenon DEF BaseInv, TypeOK, FilesTypeOK, LoggerTypeOK, UploaderTypeOK, FilesOf,
         DiskOf, DataOf, ThreadOf, CloudOf, FileInv, UploadInv
  <1>2. named' = named
    BY UploaderFrame
  <1>3. CASE SendChunk
    <2> DEFINE chunk == [index |-> chunks, owner |-> disk[fd].owner]
    <2>1. /\ uploader = "chunk" /\ uploader' = "check" /\ UNCHANGED <<bin, target>>
          /\ part' = IF Delivered THEN [part EXCEPT ![target] = @ \cup {chunk}] ELSE part
      BY <1>3 DEF SendChunk, CloudChunk, goto, fileVars
    <2>2. fd = bin[target] /\ fd \in Sessions /\ target \in done /\ target \in Names
      BY <1>1, <2>1, TargetName, Bounds DEF ReadInv, MarkInv, ThreadOf, Sessions, NoFile, Uploading
    <2>3. chunk.owner = bin[target] /\ target \in named
      BY <1>1, <2>2 DEF NameInv
    <2> HIDE DEF chunk
    <2>4. \A n \in Names : part'[n] \in {part[n], IF n = target THEN part[n] \cup {chunk}
                                                  ELSE part[n]}
      BY <1>1, <2>1, <2>2 DEF CloudOf
    <2>5. ASSUME NEW n \in Names, part'[n] # {}
          PROVE  n \in named'
      BY <1>2, <2>3, <2>4, <2>5 DEF OwnerInv
    <2>6. ASSUME NEW n \in Names, bin'[n] # NoFile, NEW c \in part'[n]
          PROVE  c.owner = bin'[n]
      BY <2>1, <2>3, <2>4, <2>6 DEF OwnerInv
    <2> QED  BY <2>1, <2>5, <2>6 DEF OwnerInv
  <1>4. CASE RemoveBin
    <2>1. bin' = [bin EXCEPT ![target] = NoFile] /\ part' = part /\ target' = target
      BY <1>4 DEF RemoveBin, Unlink, cloudVars
    <2>2. \A n \in Names : bin'[n] = IF n = target THEN NoFile ELSE bin[n]
      BY <1>1, <2>1 DEF FilesOf
    <2>3. target \in Names
      BY <1>4, TargetName DEF RemoveBin, Uploading
    <2> QED  BY <1>1, <1>2, <2>1, <2>2, <2>3 DEF OwnerInv
  <1>5. CASE ~SendChunk /\ ~RemoveBin
    <2>1. bin' = bin
      BY <1>5, UploaderFrame
    <2>2. uploader' = "removeDone" => uploader = "removeDone" /\ target' = target
      BY <1>5 DEF UploaderStep, UploaderNext, LinkNext, ThreadNext, Open, SocketDies, Close,
         BridgeStart, StopRequested, BridgeExit, BridgeCrash, BeginPass, EndPass, OpenForReading,
         EndOfFile, ScanOrphan, ScanMarked, OpenFails, RemoveDone, Check, SendStart, SendEnd,
         goto, threadVars
    <2>3. part' = part \/ part' = [part EXCEPT ![target] = {}]
      BY <1>5 DEF UploaderStep, UploaderNext, LinkNext, ThreadNext, Open, SocketDies, Close,
         BridgeStart, StopRequested, BridgeExit, BridgeCrash, BeginPass, EndPass, OpenForReading,
         EndOfFile, ScanOrphan, ScanMarked, OpenFails, RemoveDone, Check, SendStart, SendEnd,
         CloudStart, CloudEnd, cloudVars
    <2>4. \A n \in Names : part'[n] \in {part[n], {}}
      BY <1>1, <2>3 DEF CloudOf
    <2> QED  BY <1>2, <2>1, <2>2, <2>4 DEF OwnerInv
  <1> QED  BY <1>3, <1>4, <1>5

(* The transfers under a name are of one recording, and no file comes back *)
(* before its marker is gone.                                              *)
LEMMA OwnerStep ==
  ASSUME BaseInv, FileInv, UploadInv, OwnerInv, [Next]_vars, ~reused'
  PROVE  OwnerInv'
  <1>1. CASE UNCHANGED vars
    BY <1>1 DEF vars, fileVars, loggerVars, historyVars, uploaderVars, threadVars, cloudVars,
       OwnerInv
  <1> QED  BY <1>1, OwnerLoggerStep, OwnerUploaderStep DEF Next

(* What an abstract step does to the recordings, in terms of the files.    *)
Counts == [s \in Sessions |-> disk[s].count]
OpenIs(s) == s = session /\ (handle # NoFile \/ Finalizing)

(* The cases of Stage.                                                     *)
LEMMA Stages ==
  /\ Stage = [s \in Sessions |-> Stage[s]]
  /\ \A s \in Sessions :
       /\ s > session => Stage[s] = "unused"
       /\ ~(s > session) /\ OpenIs(s) => Stage[s] = "open"
       /\ ~(s > session) /\ ~OpenIs(s) /\ (\E n \in done : bin[n] = s) => Stage[s] = "finished"
       /\ ~(s > session) /\ ~OpenIs(s) /\ ~(\E n \in done : bin[n] = s) =>
            /\ (\E n \in Names : bin[n] = s) => Stage[s] = "left"
            /\ ~(\E n \in Names : bin[n] = s) => Stage[s] = "deleted"
  <1>1. Stage = [s \in Sessions |-> Stage[s]]
    BY Zenon DEF Stage
  <1> SUFFICES ASSUME NEW s \in Sessions
               PROVE  /\ s > session => Stage[s] = "unused"
                      /\ ~(s > session) /\ OpenIs(s) => Stage[s] = "open"
                      /\ ~(s > session) /\ ~OpenIs(s) /\ (\E n \in done : bin[n] = s) =>
                           Stage[s] = "finished"
                      /\ ~(s > session) /\ ~OpenIs(s) /\ ~(\E n \in done : bin[n] = s) =>
                           /\ (\E n \in Names : bin[n] = s) => Stage[s] = "left"
                           /\ ~(\E n \in Names : bin[n] = s) => Stage[s] = "deleted"
    BY <1>1
  <1>2. Stage[s] = IF s > session THEN "unused"
                   ELSE IF OpenIs(s) THEN "open"
                   ELSE IF \E n \in done : bin[n] = s THEN "finished"
                   ELSE IF \E n \in Names : bin[n] = s THEN "left"
                   ELSE "deleted"
    BY DEF Stage, OpenIs, Finalizing
  <1> QED  BY <1>2

(* The same after a step.                                                  *)
LEMMA StagesNext ==
  /\ Stage' = [s \in Sessions |-> Stage'[s]]
  /\ \A s \in Sessions :
       /\ s > session' => Stage'[s] = "unused"
       /\ ~(s > session') /\ OpenIs(s)' => Stage'[s] = "open"
       /\ ~(s > session') /\ ~OpenIs(s)' /\ (\E n \in done' : bin'[n] = s) =>
            Stage'[s] = "finished"
       /\ ~(s > session') /\ ~OpenIs(s)' /\ ~(\E n \in done' : bin'[n] = s) =>
            /\ (\E n \in Names : bin'[n] = s) => Stage'[s] = "left"
            /\ ~(\E n \in Names : bin'[n] = s) => Stage'[s] = "deleted"
  <1>1. Stage' = [s \in Sessions |-> Stage'[s]]
    BY Zenon DEF Stage
  <1> SUFFICES ASSUME NEW s \in Sessions
               PROVE  /\ s > session' => Stage'[s] = "unused"
                      /\ ~(s > session') /\ OpenIs(s)' => Stage'[s] = "open"
                      /\ ~(s > session') /\ ~OpenIs(s)' /\ (\E n \in done' : bin'[n] = s) =>
                           Stage'[s] = "finished"
                      /\ ~(s > session') /\ ~OpenIs(s)' /\ ~(\E n \in done' : bin'[n] = s) =>
                           /\ (\E n \in Names : bin'[n] = s) => Stage'[s] = "left"
                           /\ ~(\E n \in Names : bin'[n] = s) => Stage'[s] = "deleted"
    BY <1>1
  <1>2. Stage'[s] = IF s > session' THEN "unused"
                   ELSE IF OpenIs(s)' THEN "open"
                   ELSE IF \E n \in done' : bin'[n] = s THEN "finished"
                   ELSE IF \E n \in Names : bin'[n] = s THEN "left"
                   ELSE "deleted"
    BY DEF Stage, OpenIs, Finalizing
  <1> QED  BY <1>2

(* A recording is where it was if its file, its marker and its being open  *)
(* are as they were.                                                       *)
LEMMA SameStage ==
  ASSUME session' = session, NEW s \in Sessions, OpenIs(s)' <=> OpenIs(s),
         (\E n \in done' : bin'[n] = s) <=> (\E n \in done : bin[n] = s),
         (\E n \in Names : bin'[n] = s) <=> (\E n \in Names : bin[n] = s)
  PROVE  Stage'[s] = Stage[s]
  <1>1. /\ s > session => Stage[s] = "unused" /\ Stage'[s] = "unused"
        /\ ~(s > session) /\ OpenIs(s) => Stage[s] = "open" /\ Stage'[s] = "open"
    BY Stages, StagesNext
  <1>2. CASE ~(s > session) /\ ~OpenIs(s)
    BY <1>2, Stages, StagesNext
  <1> QED  BY <1>1, <1>2

(* One recording changes its stage.                                        *)
LEMMA OneStage ==
  ASSUME NEW r \in Sessions, NEW x, Stage'[r] = x,
         \A s \in Sessions : s # r => Stage'[s] = Stage[s]
  PROVE  Stage' = [Stage EXCEPT ![r] = x]
  <1>1. \A s \in Sessions : Stage'[s] = IF s = r THEN x ELSE Stage[s]
    OBVIOUS
  <1>2. Stage = [s \in Sessions |-> Stage[s]] /\ Stage' = [s \in Sessions |-> Stage'[s]]
    BY Stages, StagesNext, Zenon
  <1> QED  BY <1>1, <1>2

(* No recording changes its stage.                                         *)
LEMMA NoStage ==
  ASSUME \A s \in Sessions : Stage'[s] = Stage[s]
  PROVE  Stage' = Stage
  <1>1. Stage = [s \in Sessions |-> Stage[s]] /\ Stage' = [s \in Sessions |-> Stage'[s]]
    BY Stages, StagesNext, Zenon
  <1> QED  BY <1>1

(* A step of the logger begins, writes, keeps, finishes or leaves one      *)
(* recording, or does nothing to any.                                      *)
LEMMA LoggerArchives ==
  ASSUME BaseInv, FileInv, ~reused', LoggerStep
  PROVE  [Archive!Next]_(Archive!archiveVars)
  <1>1. FilesOf /\ DiskOf /\ DataOf /\ LoggerInv /\ NameInv /\ CurrentInv
    BY Inodes, Zenon DEF BaseInv, TypeOK, FilesTypeOK, LoggerTypeOK, FilesOf, DiskOf, DataOf,
         FileInv
  <1>2. UNCHANGED <<saved, disturbed>>
    BY LoggerFrame
  <1>3. session \in Nat /\ \A s \in Sessions : s \in Nat /\ s # NoFile
    BY <1>1, Bounds DEF DataOf, Sessions
  <1>4. CASE StartRecording /\ session' # session
    <2>a. /\ session' = session + 1 /\ session' \in Sessions /\ handle' = session'
          /\ handle = NoFile /\ logger = "loop"
          /\ bin[session'] = NoFile /\ session' \notin done
          /\ bin' = [bin EXCEPT ![session'] = session']
          /\ disk' = disk /\ UNCHANGED <<done, written>>
      BY <1>1, <1>4, FreshStart DEF DiskOf
    <2>b. PICK r \in Sessions : r = session'
      BY <2>a
    <2>1. /\ session' = session + 1 /\ r = session' /\ handle' = r /\ r \in Names
          /\ handle = NoFile /\ logger = "loop"
          /\ bin[r] = NoFile /\ r \notin done
          /\ bin' = [bin EXCEPT ![r] = r]
          /\ disk' = disk /\ UNCHANGED <<done, written>>
      BY <2>a, <2>b, Bounds
    <2>2. \A s \in Sessions : ~OpenIs(s)
      BY <2>1, Zenon DEF OpenIs, Finalizing
    <2>3. Stage[r] = "unused"
      BY <1>3, <2>1, Stages
    <2>4. \A s \in Sessions : Stage[s] # "open"
      BY <2>2, Stages
    <2>5. Stage'[r] = "open"
      <3>1. OpenIs(r)' /\ ~(r > session')
        BY <1>3, <2>1 DEF OpenIs
      <3> QED  BY <2>1, <3>1, StagesNext
    <2>6. \A n \in Names : bin'[n] = IF n = r THEN r ELSE bin[n]
      BY <1>1, <2>1 DEF FilesOf
    <2>7. ASSUME NEW s \in Sessions, s # r
          PROVE  Stage'[s] = Stage[s]
      <3>1. (s > session' <=> s > session) /\ ~OpenIs(s)'
        BY <1>3, <2>1, <2>7 DEF OpenIs
      <3>2. (\E n \in done' : bin'[n] = s) <=> (\E n \in done : bin[n] = s)
        BY <1>1, <2>1, <2>6 DEF FilesOf
      <3>3. (\E n \in Names : bin'[n] = s) <=> (\E n \in Names : bin[n] = s)
        BY <1>3, <2>1, <2>6, <2>7
      <3>4. s > session => Stage[s] = "unused" /\ Stage'[s] = "unused"
        BY <3>1, Stages, StagesNext
      <3>5. CASE ~(s > session)
        BY <2>2, <3>1, <3>2, <3>3, <3>5, Stages, StagesNext
      <3> QED  BY <3>4, <3>5
    <2>8. Stage' = [Stage EXCEPT ![r] = "open"]
      BY <2>1, <2>5, <2>7, OneStage
    <2>9. Archive!Begin(r)
      BY <1>2, <2>1, <2>3, <2>4, <2>8 DEF Archive!Begin
    <2> QED  BY <2>1, <2>9 DEF Archive!Next
  <1>5. CASE WriteEntry
    <2>1. /\ handle # NoFile /\ UNCHANGED <<bin, done, disk, handle, logger, session>>
          /\ written' = [written EXCEPT ![session] = @ + 1]
      BY <1>5 DEF WriteEntry, fileVars
    <2>2. session \in Sessions /\ OpenIs(session)
      BY <1>1, <1>3, <2>1 DEF LoggerInv, DataOf, OpenIs, Sessions
    <2>3. Stage[session] = "open"
      BY <1>3, <2>2, Stages
    <2>4. Stage' = Stage
      BY <2>1 DEF Stage
    <2>5. Archive!Write(session)
      BY <1>2, <2>1, <2>3, <2>4 DEF Archive!Write
    <2> QED  BY <2>2, <2>5 DEF Archive!Next
  <1>6. CASE CloseFile \/ Flush
    <2>1. /\ handle # NoFile /\ UNCHANGED <<bin, done, session, written>>
          /\ disk' = [disk EXCEPT ![handle].count = @ + buffered]
          /\ handle' # NoFile \/ Finalizing'
      BY <1>6 DEF CloseFile, Flush, FlushBuffer, Finalizing, historyVars
    <2>2. session \in Sessions /\ handle = session /\ OpenIs(session)
      BY <1>1, <1>3, <2>1 DEF LoggerInv, CurrentInv, DataOf, OpenIs, Sessions
    <2>3. Stage[session] = "open"
      BY <1>3, <2>2, Stages
    <2>4. Stage' = Stage
      <3>1. \A s \in Sessions : OpenIs(s)' <=> OpenIs(s)
        BY <2>1, Zenon DEF OpenIs
      <3>2. \A s \in Sessions : Stage'[s] = Stage[s]
        BY <2>1, <3>1, SameStage
      <3> QED  BY <3>2, NoStage
    <2>5. Counts' = [Counts EXCEPT ![session] = written[session]]
      <3>1. disk[session].count + buffered = written[session]
        BY <1>1, <2>1, <2>2 DEF LoggerInv
      <3>2. \A s \in Sessions : disk'[s].count = IF s = session THEN written[session]
                                                 ELSE disk[s].count
        BY <1>1, <2>1, <2>2, <3>1 DEF DiskOf
      <3> QED  BY <2>2, <3>2 DEF Counts
    <2>6. PICK r \in Sessions : r = session
      BY <2>2
    <2>7. Archive!Keep(r)
      BY <1>2, <2>1, <2>3, <2>4, <2>5, <2>6 DEF Archive!Keep, Counts
    <2> QED  BY <2>7, Zenon DEF Archive!Next
  <1>7. CASE MarkDone
    <2>1. /\ Finalizing /\ ~Finalizing' /\ done' \in {done, done \cup {path}}
          /\ UNCHANGED <<bin, disk, handle, session, written>>
      BY <1>7 DEF MarkDone, Finalizing, historyVars
    <2>2. /\ session \in Sessions /\ handle = NoFile /\ path = session /\ bin[session] = session
          /\ session \notin done /\ disk[session].count = written[session] /\ OpenIs(session)
      BY <1>1, <1>3, <2>1 DEF LoggerInv, CurrentInv, DataOf, OpenIs, Sessions, Finalizing
    <2>3. Stage[session] = "open"
      BY <1>3, <2>2, Stages
    <2>4. \A s \in Sessions : ~OpenIs(s)' /\ (s # session => ~OpenIs(s))
      BY <2>1, <2>2, Zenon DEF OpenIs
    <2>5. ASSUME NEW s \in Sessions, s # session
          PROVE  Stage'[s] = Stage[s]
      <3>1. (\E n \in done' : bin'[n] = s) <=> (\E n \in done : bin[n] = s)
        BY <2>1, <2>2, <2>5
      <3> QED  BY <2>1, <2>4, <2>5, <3>1, SameStage
    <2>6. CASE done' = done \cup {path}
      <3>1. Stage'[session] = "finished"
        BY <1>3, <2>1, <2>2, <2>4, <2>6, StagesNext
      <3>2. Stage' = [Stage EXCEPT ![session] = "finished"]
        BY <2>2, <2>5, <3>1, OneStage
      <3>3. Archive!Finish(session)
        BY <1>2, <2>1, <2>2, <2>3, <3>2 DEF Archive!Finish
      <3> QED  BY <2>2, <3>3 DEF Archive!Next
    <2>7. CASE done' = done
      <3>1. ~\E n \in done : bin[n] = session
        BY <1>1, <2>2, Bounds DEF NameInv, FilesOf, Sessions
      <3>2. Stage'[session] = "left"
        BY <1>3, <2>1, <2>2, <2>4, <2>7, <3>1, StagesNext, Bounds
      <3>3. Stage' = [Stage EXCEPT ![session] = "left"]
        BY <2>2, <2>5, <3>2, OneStage
      <3>4. Archive!Leave(session)
        BY <1>2, <2>1, <2>3, <3>3 DEF Archive!Leave
      <3> QED  BY <2>2, <3>4 DEF Archive!Next
    <2> QED  BY <2>1, <2>6, <2>7
  <1>8. CASE LoggerCrash /\ (handle # NoFile \/ Finalizing)
    <2>1. /\ handle' = NoFile /\ ~Finalizing'
          /\ UNCHANGED <<bin, done, disk, session, written>>
      BY <1>8 DEF LoggerCrash, Finalizing, fileVars, historyVars
    <2>2. /\ session \in Sessions /\ bin[session] = session /\ session \notin done
          /\ OpenIs(session)
      BY <1>1, <1>3, <1>8 DEF CurrentInv, DataOf, OpenIs, Sessions
    <2>3. Stage[session] = "open"
      BY <1>3, <2>2, Stages
    <2>4. \A s \in Sessions : ~OpenIs(s)' /\ (s # session => ~OpenIs(s))
      BY <2>1, Zenon DEF OpenIs
    <2>5. \A s \in Sessions : s # session => Stage'[s] = Stage[s]
      BY <2>1, <2>4, SameStage
    <2>6. ~\E n \in done : bin[n] = session
      BY <1>1, <2>2, Bounds DEF NameInv, FilesOf, Sessions
    <2>7. Stage'[session] = "left"
      BY <1>3, <2>1, <2>2, <2>4, <2>6, StagesNext, Bounds
    <2>8. Stage' = [Stage EXCEPT ![session] = "left"]
      BY <2>2, <2>5, <2>7, OneStage
    <2>9. Archive!Leave(session)
      BY <1>2, <2>1, <2>3, <2>8 DEF Archive!Leave
    <2> QED  BY <2>2, <2>9 DEF Archive!Next
  <1>9. CASE \/ LoggerStart \/ PressButton \/ StopIdle
             \/ (StartRecording /\ session' = session)
             \/ (LoggerCrash /\ ~(handle # NoFile \/ Finalizing))
    <2>1. UNCHANGED <<bin, done, disk, session, written, handle>> /\ (Finalizing' <=> Finalizing)
      <3>1. CASE PressButton \/ LoggerStart \/ StopIdle
        BY <3>1 DEF PressButton, LoggerStart, StopIdle, Finalizing, fileVars, historyVars
      <3>2. CASE StartRecording /\ session' = session
        BY <1>3, <3>2 DEF StartRecording, Finalizing, fileVars
      <3>3. CASE LoggerCrash /\ ~(handle # NoFile \/ Finalizing)
        BY <3>3 DEF LoggerCrash, Finalizing, fileVars, historyVars
      <3> QED  BY <1>9, <3>1, <3>2, <3>3
    <2>2. \A s \in Sessions : OpenIs(s)' <=> OpenIs(s)
      BY <2>1, Zenon DEF OpenIs
    <2>3. \A s \in Sessions : Stage'[s] = Stage[s]
      BY <2>1, <2>2, SameStage
    <2>4. Stage' = Stage
      BY <2>3, NoStage
    <2> QED  BY <1>2, <2>1, <2>4 DEF Archive!archiveVars
  <1> QED
    BY <1>4, <1>5, <1>6, <1>7, <1>8, <1>9, Zenon DEF LoggerStep, LoggerNext

(* A transfer whose chunks are all of one recording and fill the indices   *)
(* below k is that recording's first k entries, as many as they are.       *)
LEMMA WholeTransfer ==
  ASSUME NEW n \in Names, NEW r, NEW k \in Nat
  PROVE  /\ part[n] \subseteq Chunks /\ (\A c \in part[n] : c.owner = r)
            /\ {c.index : c \in part[n]} = 0..(k - 1)
              => part[n] = Sent(r, k)
         /\ part[n] = Sent(r, k) => FromRecording(n, r) = k
  <1>1. ASSUME part[n] \subseteq Chunks, \A c \in part[n] : c.owner = r,
               {c.index : c \in part[n]} = 0..(k - 1)
        PROVE  part[n] = Sent(r, k)
    <2>1. ASSUME NEW c \in part[n]
          PROVE  c \in Sent(r, k)
      <3>1. c = [index |-> c.index, owner |-> r] /\ c.index \in 0..(k - 1)
        BY <1>1 DEF Chunks
      <3> QED  BY <3>1 DEF Sent
    <2>2. ASSUME NEW j \in 0..(k - 1)
          PROVE  [index |-> j, owner |-> r] \in part[n]
      <3>1. PICK c \in part[n] : c.index = j
        BY <1>1
      <3>2. c = [index |-> j, owner |-> r]
        BY <1>1, <3>1 DEF Chunks
      <3> QED  BY <3>2
    <2> QED  BY <2>1, <2>2 DEF Sent
  <1>2. ASSUME part[n] = Sent(r, k)
        PROVE  FromRecording(n, r) = k
    <2>1. {c \in part[n] : c.owner = r} = Sent(r, k)
      BY <1>2 DEF Sent
    <2> QED  BY <2>1, SentCardinality DEF FromRecording
  <1> QED  BY <1>1, <1>2

(* And there is nothing in it of any other.                                *)
LEMMA OtherRecordings ==
  ASSUME NEW n \in Names, NEW r, \A c \in part[n] : c.owner = r, NEW s, s # r
  PROVE  FromRecording(n, s) = 0
  <1>1. {c \in part[n] : c.owner = s} = {}
    OBVIOUS
  <1> QED  BY <1>1, FS_EmptySet DEF FromRecording

(* A step of the thread saves or deletes one recording, or does nothing to *)
(* any.                                                                    *)
LEMMA UploaderArchives ==
  ASSUME BaseInv, FileInv, UploadInv, OwnerInv, UploaderStep
  PROVE  [Archive!Next]_(Archive!archiveVars)
  <1>1. FilesOf /\ DiskOf /\ DataOf /\ ThreadOf /\ CloudOf /\ MarkInv /\ NameInv /\ CurrentInv
        /\ FinalInv /\ ReadInv /\ SentInv
    BY Inodes, Zenon DEF BaseInv, TypeOK, FilesTypeOK, LoggerTypeOK, UploaderTypeOK, FilesOf,
         DiskOf, DataOf, ThreadOf, CloudOf, FileInv, UploadInv
  <1>2. UNCHANGED <<logger, handle, path, session, written, disk>>
    BY UploaderFrame
  <1>3. \A s \in Sessions : OpenIs(s)' <=> OpenIs(s)
    BY <1>2, Zenon DEF OpenIs, Finalizing
  <1>4. \A n \in Names : bin[n] # NoFile => bin[n] \in Sessions /\ ~(bin[n] > session)
    BY <1>1, Bounds DEF FilesOf, DataOf, NameInv, Sessions, NoFile
  <1>5. ASSUME NEW n \in done, bin[n] # NoFile
        PROVE  ~OpenIs(bin[n]) /\ Stage[bin[n]] = "finished"
    <2>1. n \in Names
      BY <1>1 DEF FilesOf
    <2>2. ~OpenIs(bin[n])
      BY <1>1, <1>5, <2>1 DEF OpenIs, CurrentInv, NameInv, DataOf
    <2> QED  BY <1>4, <1>5, <2>1, <2>2, Stages
  <1>6. CASE SendEnd
    <2>1. /\ uploader = "end" /\ CloudEnd(target, chunks) /\ UNCHANGED <<bin, done, disturbed>>
      BY <1>6 DEF SendEnd, fileVars
    <2>2. Stage' = Stage
      BY <1>2, <2>1 DEF Stage
    <2>3. CASE saved' = saved
      BY <1>2, <2>1, <2>2, <2>3 DEF Archive!archiveVars
    <2>4. CASE saved' # saved
      <3> DEFINE r == bin[target]
      <3>1. /\ target \in done /\ target \in Names /\ r \in Sessions /\ r # NoFile
            /\ chunks = disk[r].count /\ disk[r].count = written[r]
        BY <1>1, <1>4, <2>1, TargetName DEF MarkInv, ReadInv, FinalInv, Uploading
      <3>2. /\ {c.index : c \in part[target]} = 0..(chunks - 1)
            /\ saved' = [s \in Sessions |-> IF FromRecording(target, s) > saved[s]
                                            THEN FromRecording(target, s) ELSE saved[s]]
        BY <2>1, <2>4 DEF CloudEnd, cloudVars
      <3>3. \A c \in part[target] : c.owner = r
        BY <3>1 DEF OwnerInv
      <3>a. chunks \in Nat
        BY <1>1, Bounds DEF ThreadOf
      <3> HIDE DEF r
      <3>4. part[target] = Sent(r, chunks)
        <4>1. part[target] \subseteq Chunks
          BY <1>1, <3>1 DEF CloudOf
        <4>2. target \in Names /\ {c.index : c \in part[target]} = 0..(chunks - 1)
          BY <3>1, <3>2
        <4> QED  BY <3>3, <3>a, <4>1, <4>2, WholeTransfer, ZenonT(60)
      <3>5. FromRecording(target, r) = written[r]
        <4>1. FromRecording(target, r) = chunks
          BY <3>1, <3>4, <3>a, WholeTransfer
        <4> QED  BY <3>1, <4>1
      <3>6. ASSUME NEW s \in Sessions, s # r
            PROVE  FromRecording(target, s) = 0
        BY <3>1, <3>3, <3>6, OtherRecordings, Zenon
      <3>7. saved' = [saved EXCEPT ![r] = written[r]]
        <4>1. \A s \in Sessions : saved[s] \in Nat /\ written[s] \in Nat /\ saved[s] <= written[s]
          BY <1>1, Bounds DEF CloudOf, DataOf, UploadInv, CloudInv
        <4>2. \A s \in Sessions : saved'[s] = IF s = r THEN written[r] ELSE saved[s]
          BY <3>1, <3>2, <3>5, <3>6, <4>1
        <4> QED  BY <1>1, <3>2, <4>2 DEF CloudOf
      <3>8. Stage[r] = "finished"
        BY <1>5, <3>1 DEF r
      <3>9. Archive!Save(r)
        BY <1>2, <2>1, <2>2, <3>7, <3>8 DEF Archive!Save
      <3>10. Archive!Next
        BY <3>1, <3>9, Zenon DEF Archive!Next
      <3> QED  BY <3>10
    <2> QED  BY <2>3, <2>4
  <1>7. CASE RemoveBin /\ bin[target] # NoFile
    <2>1. /\ uploader = "removeBin" /\ bin' = [bin EXCEPT ![target] = NoFile] /\ done' = done
          /\ UNCHANGED <<saved, disturbed>>
      BY <1>7 DEF RemoveBin, Unlink, cloudVars
    <2>b. target \in Names
      BY <1>7, TargetName DEF RemoveBin, Uploading
    <2>a. PICK r \in Sessions : r = bin[target]
      BY <1>4, <1>7, <2>b
    <2>2. target \in done /\ target \in Names /\ r \in Sessions /\ ~(r > session) /\ r # NoFile
      BY <1>1, <1>4, <1>7, <2>1, <2>a, <2>b DEF MarkInv, Uploading
    <2>3. ~OpenIs(r) /\ Stage[r] = "finished"
      BY <1>5, <1>7, <2>2, <2>a
    <2>4. \A n \in Names : bin'[n] = IF n = target THEN NoFile ELSE bin[n]
      BY <1>1, <2>1 DEF FilesOf
    <2>5. ~\E n \in Names : bin'[n] = r
      BY <1>1, <2>2, <2>4, <2>a DEF NameInv
    <2>6. Stage'[r] = "deleted"
      <3>1. ~\E n \in done' : bin'[n] = r
        BY <1>1, <2>1, <2>5 DEF FilesOf
      <3>2. ~OpenIs(r)' /\ ~(r > session')
        BY <1>2, <1>3, <2>2, <2>3
      <3> QED  BY <2>5, <3>1, <3>2, StagesNext
    <2>7. ASSUME NEW s \in Sessions, s # r
          PROVE  Stage'[s] = Stage[s]
      <3>1. s # NoFile
        BY Bounds
      <3>2. \A n \in Names : bin'[n] = s <=> bin[n] = s
        BY <2>4, <2>7, <2>a, <3>1
      <3>3. (\E n \in done' : bin'[n] = s) <=> (\E n \in done : bin[n] = s)
        BY <1>1, <2>1, <3>2 DEF FilesOf
      <3>4. (\E n \in Names : bin'[n] = s) <=> (\E n \in Names : bin[n] = s)
        BY <3>2
      <3> QED  BY <1>2, <1>3, <3>3, <3>4, SameStage
    <2>8. Stage' = [Stage EXCEPT ![r] = "deleted"]
      BY <2>6, <2>7, OneStage
    <2>9. ~disturbed => saved[r] = written[r]
      BY <1>1, <1>7, <2>1, <2>a DEF SentInv
    <2>10. Archive!Delete(r)
      BY <1>2, <2>1, <2>3, <2>8, <2>9 DEF Archive!Delete
    <2>11. Archive!Next
      BY <2>10, Zenon DEF Archive!Next
    <2> QED  BY <2>11
  <1>8. CASE ~SendEnd /\ ~(RemoveBin /\ bin[target] # NoFile)
    <2>1. bin' = bin
      <3>1. CASE RemoveBin
        BY <1>1, <1>8, <3>1, TargetName DEF RemoveBin, Unlink, FilesOf, Uploading
      <3> QED  BY <3>1, UploaderFrame
    <2>2. saved' = saved
      BY <1>8 DEF UploaderStep, UploaderNext, LinkNext, ThreadNext, Open, SocketDies, Close,
         BridgeStart, StopRequested, BridgeExit, BridgeCrash, BeginPass, EndPass, OpenForReading,
         EndOfFile, ScanOrphan, ScanMarked, OpenFails, RemoveBin, RemoveDone, Check, SendStart,
         SendChunk, CloudStart, CloudChunk, cloudVars
    <2>3. done' = done \/ \E n \in Names : bin[n] = NoFile /\ done' = done \ {n}
      <3>1. CASE RemoveDone
        BY <3>1, TargetName DEF RemoveDone, RemoveMarker, OwnerInv, Uploading
      <3>2. CASE \E n \in Names : ScanOrphan(n)
        BY <3>2 DEF ScanOrphan, RemoveMarker
      <3>3. CASE ~RemoveDone /\ ~\E n \in Names : ScanOrphan(n)
        BY <1>8, <3>3 DEF UploaderStep, UploaderNext, LinkNext, ThreadNext, Open, SocketDies,
           Close, BridgeStart, StopRequested, BridgeExit, BridgeCrash, BeginPass, EndPass,
           OpenForReading, EndOfFile, ScanMarked, OpenFails, RemoveBin, Unlink, Check, SendStart,
           SendChunk, fileVars
      <3> QED  BY <3>1, <3>2, <3>3
    <2>4. Stage' = Stage
      <3>1. ASSUME NEW s \in Sessions
            PROVE  (\E n \in done' : bin'[n] = s) <=> (\E n \in done : bin[n] = s)
        BY <2>1, <2>3, Bounds
      <3>2. \A s \in Sessions : Stage'[s] = Stage[s]
        BY <1>2, <1>3, <2>1, <3>1, SameStage
      <3> QED  BY <3>2, NoStage
    <2>5. disturbed \in BOOLEAN /\ disturbed' \in BOOLEAN
      BY UploaderBaseStep, Zenon DEF BaseInv, TypeOK, UploaderTypeOK
    <2>6. CASE disturbed' = disturbed
      BY <1>2, <2>2, <2>4, <2>6 DEF Archive!archiveVars
    <2>7. CASE disturbed' # disturbed
      <3>1. ~disturbed' <=> ~~disturbed
        BY <2>5, <2>7, Zenon
      <3>2. (~disturbed') = (~~disturbed)
        BY <3>1
      <3>3. Archive!Link
        BY <1>2, <2>2, <2>4, <3>2 DEF Archive!Link
      <3>4. Archive!Next
        BY <3>3, Zenon DEF Archive!Next
      <3> QED  BY <3>4
    <2> QED  BY <2>6, <2>7
  <1> QED  BY <1>6, <1>7, <1>8

(* The pipeline keeps every promise of RecordingArchive, for any number of *)
(* recordings and entries, until a name is given twice: each step of the   *)
(* logger or the uploader does one thing to one recording, as a whole, or  *)
(* nothing.                                                                *)
THEOREM PipelineImplementsArchive == Spec => ImplementsArchive
  <1>1. Init => Archive!Init
    <2> SUFFICES ASSUME Init PROVE Archive!Init
      OBVIOUS
    <2>1. Stage = [s \in Sessions |-> "unused"]
      <3>1. \A s \in Sessions : s > session
        BY Bounds DEF Init, LoggerInit, Sessions
      <3>2. \A s \in Sessions : Stage[s] = "unused"
        BY <3>1, Stages
      <3> QED  BY <3>2, Stages
    <2>2. Counts = [s \in Sessions |-> 0]
      BY DEF Counts, Init, FilesInit
    <2>3. /\ written = [s \in Sessions |-> 0] /\ saved = [s \in Sessions |-> 0]
          /\ disturbed = TRUE
      BY DEF Init, LoggerInit, UploaderInit
    <2> QED  BY <2>1, <2>2, <2>3 DEF Archive!Init, Counts
  <1>2. BaseInv /\ (~reused => FileInv /\ UploadInv /\ OwnerInv) /\ [Next]_vars =>
          [~reused' => [Archive!Next]_(Archive!archiveVars)]_vars
    <2> SUFFICES ASSUME BaseInv, FileInv, UploadInv, OwnerInv, Next, ~reused'
                 PROVE  [Archive!Next]_(Archive!archiveVars)
      BY ReusedForGood
    <2> QED  BY LoggerArchives, UploaderArchives DEF Next
  <1>3. BaseInv /\ (~reused => FileInv) /\ (~reused => UploadInv) /\ (~reused => OwnerInv)
        /\ [Next]_vars => (~reused' => OwnerInv')
    BY OwnerStep, ReusedForGood
  <1>4. Spec => [](~reused => OwnerInv)
    BY OwnerInit, <1>3, BaseInvariance, FileInvariance, UploadInvariance, PTL DEF Spec
  <1> QED
    BY <1>1, <1>2, <1>4, BaseInvariance, FileInvariance, UploadInvariance, PTL
       DEF Spec, ImplementsArchive
=============================================================================
