---------------------------- MODULE LogPipeline ----------------------------
(***************************************************************************)
(* The path of a recording from the record button to the cloud: the data   *)
(* logger and the uploader meet only in the log directory, where the       *)
(* .done marker is all that keeps the uploader off an open file.           *)
(***************************************************************************)
EXTENDS DataLogger, LogUploader

vars == <<fileVars, loggerVars, uploaderVars>>

Init == FilesInit /\ LoggerInit /\ UploaderInit

LoggerStep   == LoggerNext /\ UNCHANGED uploaderVars
UploaderStep == UploaderNext /\ UNCHANGED loggerVars

Next == LoggerStep \/ UploaderStep

Spec == Init /\ [][Next]_vars

TypeOK == FilesTypeOK /\ LoggerTypeOK /\ UploaderTypeOK

-----------------------------------------------------------------------------
(* "write marker so cloud-bridge knows this file is finalized"            *)
(* (log_writer.cpp): a file with a marker is not open for writing, as long *)
(* as no two recordings were given one name.                               *)
MarkedIsFinal ==
    ~reused => \A n \in done : bin[n] # NoFile => bin[n] # handle

(* "Only delete after log_upload_end is sent" (log_uploader.cpp).          *)
DeletedAfterEndSent ==
    uploader = "removeDone" => endSent

(* When the socket lived from the start message to the deletion, the      *)
(* cloud has every entry the logger ever wrote to the deleted recording,  *)
(* whatever the logger was doing meanwhile, as long as it gave no name     *)
(* twice.                                                                  *)
DeletedWhenSaved ==
    [][\A n \in Names :
          (bin[n] # NoFile /\ bin'[n] = NoFile /\ ~disturbed /\ ~reused) =>
              LET s == disk[bin[n]].owner IN saved[s] = written[s]]_vars

(* The uploader deletes nothing that carries no marker: a recording whose *)
(* logger died before the marker stays where it is, also under a name that *)
(* was given before.                                                       *)
OnlyMarkedFilesAreDeleted ==
    [][\A n \in Names :
          (bin[n] # NoFile /\ bin'[n] = NoFile) => n \in done]_vars

(* What has become of each recording.  As long as no name was given twice *)
(* the inode of recording s is s.  While its marker is pending it is still *)
(* open.                                                                   *)
Stage ==
    [s \in Sessions |->
        IF s > session THEN "unused"
        ELSE IF s = session /\ (handle # NoFile \/ logger \in {"marking", "exiting"}) THEN "open"
        ELSE IF \E n \in done : bin[n] = s THEN "finished"
        ELSE IF \E n \in Names : bin[n] = s THEN "left"
        ELSE "deleted"]

Archive == INSTANCE RecordingArchive WITH
             Recordings <- Sessions,
             stage      <- Stage,
             kept       <- [s \in Sessions |-> disk[s].count],
             steady     <- ~disturbed

(* Logger and uploader, which share nothing but a directory, keep the      *)
(* promises of RecordingArchive: over crashes, restarts and lost messages  *)
(* a recording goes from open to finished or left behind, and what is      *)
(* finished is uploaded and deleted as one whole, whatever is recorded     *)
(* meanwhile.  They do so up to the step that gives a name a second time.  *)
ImplementsArchive ==
    Archive!Init /\ [][~reused' => [Archive!Next]_(Archive!archiveVars)]_vars

(* The flag behind the recording LED says what the logger does whenever    *)
(* its loop runs, the round after a crash included.                        *)
ShownIsTrue ==
    logger = "loop" => (shown <=> handle # NoFile)

(* The upload thread never blocks for good: its only wait is the 5 second  *)
(* sleep.  fopen does not fail for ever on a file that is there.           *)
Fairness ==
    /\ WF_vars(ThreadNext /\ UNCHANGED loggerVars)
    /\ SF_vars(OpenForReading /\ UNCHANGED loggerVars)

FairSpec == Spec /\ Fairness

(* Once the connection stays up, every marker goes away: no aborted        *)
(* upload, orphan marker or crash of either side leaves one behind.        *)
MarkersAreWorkedOff ==
    <>[](connected /\ running) =>
        \A n \in Names : []<>(n \notin done)
=============================================================================
