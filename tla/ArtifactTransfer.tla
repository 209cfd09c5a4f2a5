-------------------------- MODULE ArtifactTransfer --------------------------
(***************************************************************************)
(* One output artifact of a DAG node and the node that takes it:           *)
(* UploadFile and DownloadFile of src/workflow/store over a LocalStore.    *)
(* A file is copied into place.  A directory is archived by a goroutine    *)
(* that writes to a pipe while Upload reads from it.  Both sides of a DAG  *)
(* call them as local activities: an attempt that is no longer waited for  *)
(* goes on, and LocalStore does not look at its context, so that it may    *)
(* even empty the file after its retry has filled it.  When the upload has *)
(* failed for good the DAG goes on, and so may the consumer.               *)
(*                                                                         *)
(* Data is counted in chunks.  An archive ends with a trailer (tar and     *)
(* gzip end marks), which ArchiveDirectory may write, from its deferred    *)
(* Close calls, also when it fails.  The pipe has no buffer, so that its   *)
(* writer is where its reader is.                                          *)
(***************************************************************************)
EXTENDS Integers, Sequences, FiniteSets

CONSTANTS
  MaxSize,       \* bound: chunks of data in the source
  Limit,         \* MaxUploadSize, in chunks
  MaxAttempts,   \* bound: attempts of the upload
  MaxFaults      \* bound: failures, lost attempts and crashes

Attempts == 1 .. MaxAttempts

ASSUME BoundsAssumption ==
  /\ MaxSize \in Nat \ {0}
  /\ Limit \in Nat \ {0}
  /\ MaxAttempts \in Nat \ {0}
  /\ MaxFaults \in Nat

VARIABLES
  kind,        \* input: FileTypeFile, or FileTypeDirectory (an archive)
  size,        \* input: chunks of data in the source
  exists,      \* the key is in the store
  content,     \* what is stored under it
  emptiedBy,   \* ghost: the attempt that truncated it last, 0 before
  attempt,     \* the attempt the workflow waits for, 0 before the first
  upload,      \* each attempt: none, starting, copying, probing, ok or error
  offset,      \* chunks it has read from its source
  archiver,    \* its goroutine: none, writing, sealing, ended, closed
  archiveErr,  \* nil, source, or pipe (ErrClosedPipe)
  readErr,     \* the error of its extra Read, which it drops
  settled,     \* the upload's result for the workflow: none, ok, failed
  download,    \* the consumer: idle, reading, ok, failed
  got,         \* what it has read
  faults

inputVars == <<kind, size>>

fileVars == <<exists, content, emptiedBy>>

attemptVars == <<upload, offset, archiver, archiveErr, readErr>>

downloadVars == <<download, got>>

vars == <<inputVars, fileVars, attempt, attemptVars, settled, downloadVars, faults>>

Chunks == {"data", "trailer", "hole"}

TypeOK ==
  /\ kind \in {"file", "archive"}
  /\ size \in 1 .. MaxSize
  /\ exists \in BOOLEAN
  /\ content \in Seq(Chunks) /\ Len(content) <= Limit
  /\ emptiedBy \in 0 .. MaxAttempts
  /\ attempt \in 0 .. MaxAttempts
  /\ upload \in [Attempts -> {"none", "starting", "copying", "probing", "ok", "error"}]
  /\ offset \in [Attempts -> 0 .. Limit]
  /\ archiver \in [Attempts -> {"none", "writing", "sealing", "ended", "closed"}]
  /\ archiveErr \in [Attempts -> {"nil", "source", "pipe"}]
  /\ readErr \in [Attempts -> BOOLEAN]
  /\ settled \in {"none", "ok", "failed"}
  /\ download \in {"idle", "reading", "ok", "failed"}
  /\ got \in Seq(Chunks)
  /\ faults \in 0 .. MaxFaults

(* What a complete upload stores. *)
Stream ==
  IF kind = "file" THEN [i \in 1 .. size |-> "data"]
                   ELSE [i \in 1 .. size |-> "data"] \o <<"trailer">>

Init ==
  /\ kind \in {"file", "archive"}
  /\ size \in 1 .. MaxSize
  /\ exists = FALSE
  /\ content = <<>>
  /\ emptiedBy = 0
  /\ attempt = 0
  /\ upload = [u \in Attempts |-> "none"]
  /\ offset = [u \in Attempts |-> 0]
  /\ archiver = [u \in Attempts |-> "none"]
  /\ archiveErr = [u \in Attempts |-> "nil"]
  /\ readErr = [u \in Attempts |-> FALSE]
  /\ settled = "none"
  /\ download = "idle"
  /\ got = <<>>
  /\ faults = 0

Fault ==
  /\ faults < MaxFaults
  /\ faults' = faults + 1

-----------------------------------------------------------------------------
(* The workflow *)

(* The next attempt starts, and with it the goroutine of an archive. *)
Launch ==
  /\ attempt < MaxAttempts
  /\ attempt' = attempt + 1
  /\ archiver' = [archiver EXCEPT ![attempt + 1] =
                    IF kind = "archive" THEN "writing" ELSE "none"]
  /\ upload' = [upload EXCEPT ![attempt + 1] = "starting"]
  /\ UNCHANGED <<fileVars, offset, archiveErr, readErr, settled>>

GiveUp ==
  /\ settled' = "failed"
  /\ UNCHANGED <<fileVars, attempt, attemptVars>>

FirstAttempt ==
  /\ attempt = 0
  /\ Launch
  /\ UNCHANGED <<inputVars, downloadVars, faults>>

Awaited(u) == settled = "none" /\ attempt = u

Running(u) == upload[u] \in {"starting", "copying", "probing"}

(* An attempt that failed is retried, until its time is over. *)
AttemptFailed(u) ==
  /\ Awaited(u)
  /\ upload[u] = "error"
  /\ Launch \/ GiveUp
  /\ UNCHANGED <<inputVars, downloadVars, faults>>

AttemptSucceeded(u) ==
  /\ Awaited(u)
  /\ upload[u] = "ok"
  /\ settled' = "ok"
  /\ UNCHANGED <<inputVars, fileVars, attempt, attemptVars, downloadVars, faults>>

(* The attempt times out, or its worker loses the workflow to another one, *)
(* and goes on unobserved.                                                 *)
AttemptLost(u) ==
  /\ Awaited(u)
  /\ Running(u)
  /\ Fault
  /\ Launch \/ GiveUp
  /\ UNCHANGED <<inputVars, downloadVars>>

(* The worker dies with the attempt. *)
Crash(u) ==
  /\ Running(u)
  /\ Fault
  /\ upload' = [upload EXCEPT ![u] = "error"]
  /\ archiver' = [archiver EXCEPT ![u] = IF kind = "archive" THEN "closed" ELSE "none"]
  /\ UNCHANGED <<inputVars, fileVars, attempt, offset, archiveErr, readErr, settled, downloadVars>>
-----------------------------------------------------------------------------
(* LocalStore.Upload, and uploadDirectoryArchive around it *)

(* The file is created or truncated, whatever other attempts have written. *)
OpenFile(u) ==
  /\ upload[u] = "starting"
  /\ upload' = [upload EXCEPT ![u] = "copying"]
  /\ exists' = TRUE
  /\ content' = <<>>
  /\ emptiedBy' = u
  /\ UNCHANGED <<offset, archiver, archiveErr, readErr>>

(* The next chunk of the source, if one is offered. *)
Offered(u) ==
  CASE kind = "file"                           -> {"data" : i \in offset[u] + 1 .. size}
    [] archiver[u] = "writing"                 -> {Stream[i] : i \in {offset[u] + 1} \cap DOMAIN Stream}
    [] archiver[u] = "sealing"                 -> {"trailer"}
    [] archiver[u] \in {"ended", "closed"}     -> {}
    [] kind = "archive" /\ archiver[u] = "none" -> {}

SourceEnded(u) ==
  Offered(u) = {} /\ (kind = "archive" => archiver[u] = "closed")

(* Write v at position i: the bytes skipped over read as zeros.            *)
Put(s, i, v) ==
  [j \in 1 .. (IF i > Len(s) THEN i ELSE Len(s)) |->
     IF j = i THEN v ELSE IF j <= Len(s) THEN s[j] ELSE "hole"]

(* io.Copy from the LimitReader. *)
WithinLimit(u) == offset[u] < Limit

CopyChunk(u) ==
  /\ upload[u] = "copying"
  /\ WithinLimit(u)
  /\ \E v \in Offered(u) : content' = Put(content, offset[u] + 1, v)
  /\ offset' = [offset EXCEPT ![u] = @ + 1]
  /\ IF archiver[u] = "sealing"
       THEN /\ archiver' = [archiver EXCEPT ![u] = "ended"]
            /\ archiveErr' = [archiveErr EXCEPT ![u] = "source"]
       ELSE UNCHANGED <<archiver, archiveErr>>
  /\ UNCHANGED <<exists, emptiedBy, upload, readErr>>

CopyEnds(u) ==
  /\ upload[u] = "copying"
  /\ WithinLimit(u) => SourceEnded(u) /\ archiveErr[u] = "nil"
  /\ upload' = [upload EXCEPT ![u] = "probing"]
  /\ UNCHANGED <<fileVars, offset, archiver, archiveErr, readErr>>

(* The pipe returns the archiver's error. *)
CopyFails(u) ==
  /\ upload[u] = "copying"
  /\ WithinLimit(u) /\ SourceEnded(u) /\ archiveErr[u] # "nil"
  /\ upload' = [upload EXCEPT ![u] = "error"]
  /\ UNCHANGED <<fileVars, offset, archiver, archiveErr, readErr>>

(* One more Read: data means that the limit is exceeded.  After a          *)
(* successful Upload the archiver's error is looked at.                    *)
VerdictIgnoringExcess(u) == IF archiveErr[u] = "nil" THEN "ok" ELSE "error"

Verdict(u) == IF Offered(u) = {} /\ archiveErr[u] = "nil" THEN "ok" ELSE "error"

Probe(u) ==
  /\ upload[u] = "probing"
  /\ Offered(u) # {} \/ SourceEnded(u)
  /\ upload' = [upload EXCEPT ![u] = Verdict(u)]
  /\ UNCHANGED <<fileVars, offset, archiver, archiveErr, readErr>>

UploadStep(u) ==
  /\ OpenFile(u) \/ CopyChunk(u) \/ CopyEnds(u) \/ CopyFails(u) \/ Probe(u)
  /\ UNCHANGED <<inputVars, attempt, settled, downloadVars, faults>>

(* The source cannot be opened or read, or the file cannot be opened or    *)
(* written.                                                                *)
CopyError(u) ==
  /\ upload[u] = "starting" \/ (upload[u] = "copying" /\ Offered(u) # {})
  /\ Fault
  /\ upload' = [upload EXCEPT ![u] = "error"]
  /\ UNCHANGED <<inputVars, fileVars, attempt, offset, archiver, archiveErr, readErr,
                 settled, downloadVars>>

(* The extra Read of a file fails: it has read nothing, its error is       *)
(* dropped, and what is beyond the limit goes unnoticed.  The error of a   *)
(* pipe is the archiver's.                                                 *)
ProbeFails(u) ==
  /\ upload[u] = "probing"
  /\ kind = "file" /\ Offered(u) # {}
  /\ Fault
  /\ upload' = [upload EXCEPT ![u] = "ok"]
  /\ readErr' = [readErr EXCEPT ![u] = TRUE]
  /\ UNCHANGED <<inputVars, fileVars, attempt, offset, archiver, archiveErr, settled, downloadVars>>
-----------------------------------------------------------------------------
(* The goroutine: ArchiveDirectory, then CloseWithError *)

ArchiveEnds(u) ==
  /\ archiver[u] = "writing"
  /\ offset[u] = Len(Stream)
  /\ archiver' = [archiver EXCEPT ![u] = "ended"]
  /\ UNCHANGED archiveErr

(* pr.Close has been called: the write that is pending, or the next one,   *)
(* returns an error.                                                       *)
PipeStaysOpen(u) == FALSE

PipeClosed(u) == upload[u] = "error"

WriteFails(u) ==
  /\ archiver[u] \in {"writing", "sealing"}
  /\ Offered(u) # {}
  /\ PipeClosed(u)
  /\ archiver' = [archiver EXCEPT ![u] = "ended"]
  /\ archiveErr' = [archiveErr EXCEPT ![u] = "pipe"]

ClosePipe(u) ==
  /\ archiver[u] = "ended"
  /\ archiver' = [archiver EXCEPT ![u] = "closed"]
  /\ UNCHANGED archiveErr

ArchiverStep(u) ==
  /\ ArchiveEnds(u) \/ WriteFails(u) \/ ClosePipe(u)
  /\ UNCHANGED <<inputVars, fileVars, attempt, upload, offset, readErr, settled, downloadVars, faults>>

(* A file cannot be read: the trailer is still written, unless the failure *)
(* left a header without its data.                                         *)
ArchiveFails(u) ==
  /\ archiver[u] = "writing"
  /\ offset[u] <= size
  /\ Fault
  /\ \/ /\ archiver' = [archiver EXCEPT ![u] = "sealing"]
        /\ UNCHANGED archiveErr
     \/ /\ archiver' = [archiver EXCEPT ![u] = "ended"]
        /\ archiveErr' = [archiveErr EXCEPT ![u] = "source"]
  /\ UNCHANGED <<inputVars, fileVars, attempt, upload, offset, readErr, settled, downloadVars>>
-----------------------------------------------------------------------------
(* DownloadFile *)

(* The consumer starts, or retries, whatever became of the upload. *)
Open ==
  /\ settled # "none"
  /\ download \in {"idle", "failed"}
  /\ download' = IF exists THEN "reading" ELSE "failed"
  /\ got' = <<>>
  /\ UNCHANGED <<inputVars, fileVars, attempt, attemptVars, settled, faults>>

(* io.Copy ends at the end of the file, ExtractArchive at the trailer; the *)
(* latter finds out when the archive is cut short or has been zeroed.      *)
AfterReadUnchecked(s, atEnd) == IF atEnd THEN "ok" ELSE "reading"

AfterRead(s, atEnd) ==
  IF kind = "file"
    THEN IF atEnd THEN "ok" ELSE "reading"
    ELSE CASE s # <<>> /\ s[Len(s)] = "trailer" -> "ok"
           [] s # <<>> /\ s[Len(s)] = "hole"    -> "failed"
           [] s = <<>> \/ s[Len(s)] = "data"    -> IF atEnd THEN "failed" ELSE "reading"

ReadChunk ==
  /\ download = "reading"
  /\ LET atEnd == Len(got) >= Len(content)
     IN  /\ got' = IF atEnd THEN got ELSE Append(got, content[Len(got) + 1])
         /\ download' = AfterRead(got', atEnd)
  /\ UNCHANGED <<inputVars, fileVars, attempt, attemptVars, settled, faults>>

Next ==
  \/ FirstAttempt
  \/ \E u \in Attempts :
       \/ AttemptFailed(u) \/ AttemptSucceeded(u) \/ AttemptLost(u)
       \/ UploadStep(u) \/ ArchiverStep(u)
       \/ Crash(u) \/ CopyError(u) \/ ProbeFails(u) \/ ArchiveFails(u)
  \/ Open
  \/ ReadChunk

Spec == Init /\ [][Next]_vars

(* The goroutines of an attempt are scheduled. *)
FairSpec ==
  /\ Spec
  /\ \A u \in Attempts : WF_vars(UploadStep(u)) /\ WF_vars(ArchiverStep(u))
-----------------------------------------------------------------------------
SourceFailed(u) == archiveErr[u] = "source"

(* What an attempt that succeeds leaves is all of its source: none of it   *)
(* was cut off at the limit (local.go:109) and no error of its archiver is *)
(* lost, while attempts that are no longer waited for write to the same    *)
(* file.  It may itself be one of these, come late and empty the file of   *)
(* its retry.  Excepted is what it stored before another one did that, a   *)
(* file whose extra Read failed, and the trailer of a failed archive.      *)
UploadedIsWhole ==
  \A u \in Attempts :
    /\ upload[u] = "ok" /\ emptiedBy = u /\ ~ readErr[u]
    /\ \A o \in Attempts \ {u} : ~ SourceFailed(o)
    => content = Stream

(* A consumer that gets an artifact gets all of it: an archive even after  *)
(* a failed upload, and while attempts still write to it or empty it,      *)
(* unless its source failed; a file when the upload was reported as done,  *)
(* its extra Read has not failed, and no attempt that was given up has     *)
(* emptied the file since.                                                 *)
DeliveredWhole ==
  /\ download = "ok"
  /\ \A u \in Attempts : ~ SourceFailed(u)
  /\ kind = "file" => settled = "ok" /\ emptiedBy = attempt /\ ~ readErr[attempt]
  => got = Stream

(* No upload that is reported as done was truncated ("Check if data was    *)
(* truncated by attempting to read one more byte", local.go:109).          *)
TruncationFound == settled = "ok" => offset[attempt] = Len(Stream)

(* The two ends of a pipe do not wait for each other for ever: an upload   *)
(* returns, and its goroutine ends, whichever side fails first.            *)
PipeEnds ==
  \A u \in Attempts :
    upload[u] # "none" ~>
      upload[u] \in {"ok", "error"} /\ archiver[u] \in {"none", "closed"}
=============================================================================
