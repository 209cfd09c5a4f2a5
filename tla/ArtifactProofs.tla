--------------------------- MODULE ArtifactProofs ---------------------------
(***************************************************************************)
(* Proofs about the transfer of an artifact: an upload that succeeds has   *)
(* stored all of its source, although attempts that were given up still    *)
(* write to the same file, until one of them empties it, and a consumer    *)
(* that gets the artifact gets all of it.  For every size of the source,   *)
(* limit, number of attempts and number of faults.                         *)
(***************************************************************************)
EXTENDS ArtifactTransfer, TLAPS

-----------------------------------------------------------------------------
(* The inductive invariant *)

(* Attempts that have not been launched have no goroutine and have done    *)
(* nothing.                                                                *)
Fresh ==
  \A u \in Attempts : u > attempt =>
    /\ upload[u] = "none" /\ offset[u] = 0 /\ archiver[u] = "none" /\ archiveErr[u] = "nil"
    /\ ~ readErr[u]

(* The two ends of the pipe of attempt u: there is an archiver for a       *)
(* directory only, it ends without an error at the end of the stream, and  *)
(* the upload succeeds only there, or where the extra Read of a file has   *)
(* failed.                                                                 *)
EndsAgree(u) ==
  /\ archiver[u] = "none" <=> kind = "file" \/ upload[u] = "none"
  /\ archiveErr[u] # "nil" => archiver[u] \in {"ended", "closed"}
  /\ offset[u] <= Len(Stream)
  /\ archiver[u] = "sealing" => offset[u] <= size
  /\ archiver[u] \in {"ended", "closed"} /\ archiveErr[u] = "nil" /\ upload[u] # "error"
       => offset[u] = Len(Stream)
  /\ upload[u] \in {"none", "starting"} => offset[u] = 0
  /\ readErr[u] => kind = "file"
  /\ upload[u] = "ok" => archiveErr[u] = "nil" /\ (readErr[u] \/ offset[u] = Len(Stream))

Piped == \A u \in Attempts : EndsAgree(u)

(* No attempt has written the trailer of a failed archive.                 *)
Clean == \A u \in Attempts : ~ SourceFailed(u)

(* Every attempt writes the same chunk at the same place.                  *)
Stored ==
  Clean => \A j \in DOMAIN content : j \in DOMAIN Stream /\ content[j] \in {Stream[j], "hole"}

(* Behind the attempt that has emptied the file there is no hole.          *)
Written ==
  Clean /\ emptiedBy \in Attempts /\ upload[emptiedBy] \in {"copying", "probing", "ok"}
    => \A j \in 1 .. offset[emptiedBy] : j \in DOMAIN content /\ content[j] = Stream[j]

(* The workflow took the result of the attempt it waited for, and the      *)
(* consumer starts after that.                                             *)
ResultTaken ==
  /\ settled # "none" => attempt \in Attempts
  /\ settled = "ok" => upload[attempt] = "ok"
  /\ settled = "none" => download = "idle"

IsPrefix(s) == \A j \in DOMAIN s : j \in DOMAIN Stream /\ s[j] = Stream[j]

(* The upload was reported as done, with nothing cut off, and nobody has   *)
(* emptied the file since.                                                 *)
Undisturbed == settled = "ok" /\ emptiedBy = attempt /\ ~ readErr[attempt]

(* What the consumer has read is a beginning of the source.                *)
Fetched ==
  Clean /\ download \in {"reading", "ok"} /\ (kind = "file" => Undisturbed)
    => IsPrefix(got) /\ (download = "ok" => Len(got) = Len(Stream))

TransferInv ==
  TypeOK /\ Fresh /\ Piped /\ Stored /\ Written /\ ResultTaken /\ Fetched
-----------------------------------------------------------------------------
(* Chunks *)

(* The stream is the data, and for an archive its trailer.                 *)
LEMMA StreamFacts ==
  ASSUME size \in Nat, kind \in {"file", "archive"}
  PROVE  /\ Stream \in Seq(Chunks)
         /\ DOMAIN Stream = 1 .. Len(Stream) /\ Len(Stream) \in Nat
         /\ kind = "file" => Len(Stream) = size
         /\ kind = "archive" => Len(Stream) = size + 1
         /\ \A i \in 1 .. size : Stream[i] = "data"
         /\ kind = "archive" => Stream[size + 1] = "trailer"
<1> DEFINE data == [i \in 1 .. size |-> "data"]
<1>0. "data" \in Chunks /\ "trailer" \in Chunks
  BY DEF Chunks
<1>1. data \in Seq(Chunks) /\ Len(data) = size
  BY <1>0
<1>2. <<"trailer">> \in Seq(Chunks) /\ Len(<<"trailer">>) = 1 /\ <<"trailer">>[1] = "trailer"
  BY <1>0
<1>3. \A i \in 1 .. size : data[i] = "data"
  OBVIOUS
<1>4. CASE kind = "file"
  <2>1. Stream = data
    BY <1>4 DEF Stream
  <2> HIDE DEF data
  <2> QED BY <1>1, <1>3, <1>4, <2>1
<1>5. CASE kind = "archive"
  <2>1. Stream = data \o <<"trailer">>
    BY <1>5 DEF Stream
  <2> HIDE DEF data
  <2>2. Stream \in Seq(Chunks) /\ Len(Stream) = size + 1
    BY <1>1, <1>2, <2>1
  <2>3. \A i \in 1 .. size : Stream[i] = data[i]
    BY <1>1, <1>2, <2>1
  <2>4. Stream[size + 1] = "trailer"
    BY <1>1, <1>2, <2>1
  <2> QED BY <1>3, <1>5, <2>2, <2>3, <2>4
<1> QED BY <1>4, <1>5

(* t is s with v written at i, behind holes where s was shorter.           *)
Overwritten(t, s, i, v) ==
  /\ t \in Seq(Chunks)
  /\ Len(t) = (IF i > Len(s) THEN i ELSE Len(s))
  /\ i \in DOMAIN t /\ t[i] = v
  /\ \A j \in DOMAIN s : j \in DOMAIN t /\ (j # i => t[j] = s[j])
  /\ \A j \in DOMAIN t : j # i => (j \in DOMAIN s /\ t[j] = s[j]) \/ t[j] = "hole"

(* Writing at a position changes it alone, or appends a hole up to it.     *)
LEMMA PutOverwrites ==
  ASSUME NEW s \in Seq(Chunks), NEW i \in Nat \ {0}, NEW v \in Chunks
  PROVE  Overwritten(Put(s, i, v), s, i, v)
<1> DEFINE n == IF i > Len(s) THEN i ELSE Len(s)
<1>1. Len(s) \in Nat /\ DOMAIN s = 1 .. Len(s) /\ \A j \in 1 .. Len(s) : s[j] \in Chunks
  OBVIOUS
<1>2. n \in Nat /\ i \in 1 .. n /\ 1 .. Len(s) \subseteq 1 .. n
  BY <1>1
<1>3. Put(s, i, v) = [j \in 1 .. n |->
                        IF j = i THEN v ELSE IF j <= Len(s) THEN s[j] ELSE "hole"]
  BY DEF Put
<1> HIDE DEF n
<1>4. \A j \in 1 .. n : j \in Nat /\ 1 <= j /\ (j <= Len(s) => j \in DOMAIN s)
  BY <1>1, <1>2
<1>5. "hole" \in Chunks
  BY DEF Chunks
<1>6. \A j \in 1 .. n : Put(s, i, v)[j] \in Chunks
  BY <1>1, <1>3, <1>4, <1>5
<1>7. Put(s, i, v) \in Seq(Chunks) /\ Len(Put(s, i, v)) = n
  BY <1>2, <1>3, <1>6
<1>8. DOMAIN Put(s, i, v) = 1 .. n
  BY <1>3
<1>9. Put(s, i, v)[i] = v
  BY <1>2, <1>3
<1>10. ASSUME NEW j \in DOMAIN s PROVE j \in 1 .. n /\ (j # i => Put(s, i, v)[j] = s[j])
  <2>1. j \in 1 .. n /\ j <= Len(s)
    BY <1>1, <1>2
  <2> QED BY <1>3, <2>1
<1>11. ASSUME NEW j \in 1 .. n, j # i
       PROVE  (j \in DOMAIN s /\ Put(s, i, v)[j] = s[j]) \/ Put(s, i, v)[j] = "hole"
  <2>1. CASE j <= Len(s)
    BY <1>3, <1>4, <1>11, <2>1
  <2>2. CASE ~ (j <= Len(s))
    BY <1>3, <1>11, <2>2
  <2> QED BY <2>1, <2>2
<1>12. Len(Put(s, i, v)) = (IF i > Len(s) THEN i ELSE Len(s))
  BY <1>7 DEF n
<1>13. i \in DOMAIN Put(s, i, v)
  BY <1>2, <1>8
<1> QED BY <1>7, <1>8, <1>9, <1>10, <1>11, <1>12, <1>13 DEF Overwritten

(* Appending a chunk.                                                      *)
LEMMA AppendFacts ==
  ASSUME NEW s \in Seq(Chunks), NEW v \in Chunks
  PROVE  /\ Append(s, v) \in Seq(Chunks)
         /\ Len(Append(s, v)) = Len(s) + 1 /\ Len(s) \in Nat
         /\ DOMAIN s = 1 .. Len(s)
         /\ DOMAIN Append(s, v) = 1 .. Len(s) + 1
         /\ \A j \in 1 .. Len(s) : Append(s, v)[j] = s[j]
         /\ Append(s, v)[Len(s) + 1] = v
OBVIOUS

(* What is offered is the next chunk of the stream, or the trailer of an   *)
(* archive that failed; a file that offers nothing is at its end.          *)
LEMMA OfferedFacts ==
  ASSUME TypeOK, NEW u \in Attempts, EndsAgree(u)
  PROVE  /\ \A v \in Offered(u) :
              /\ v \in Chunks /\ offset[u] + 1 \in 1 .. Len(Stream)
              /\ archiver[u] # "sealing" => v = Stream[offset[u] + 1]
         /\ Offered(u) = {} /\ kind = "file" => offset[u] = Len(Stream)
         /\ archiver[u] \in {"ended", "closed"} => Offered(u) = {}
<1> DEFINE k == offset[u]
<1>1. /\ size \in Nat /\ kind \in {"file", "archive"} /\ k \in Nat
      /\ archiver[u] \in {"none", "writing", "sealing", "ended", "closed"}
  BY BoundsAssumption DEF TypeOK
<1>2. "data" \in Chunks /\ "trailer" \in Chunks
  BY DEF Chunks
<1>3. kind = "file" => archiver[u] = "none"
  BY DEF EndsAgree
<1>4. /\ Stream \in Seq(Chunks)
      /\ DOMAIN Stream = 1 .. Len(Stream) /\ Len(Stream) \in Nat
      /\ kind = "file" => Len(Stream) = size
      /\ kind = "archive" => Len(Stream) = size + 1
      /\ \A i \in 1 .. size : Stream[i] = "data"
  BY <1>1, StreamFacts
<1>5. k <= Len(Stream) /\ (archiver[u] = "sealing" => k <= size)
  BY DEF EndsAgree
<1> HIDE DEF k
<1>6. CASE kind = "file"
  <2>1. Offered(u) = {"data" : i \in k + 1 .. size}
    BY <1>3, <1>6 DEF Offered, k
  <2>2. CASE k < size
    <3>1. k + 1 \in 1 .. size /\ k + 1 \in k + 1 .. size /\ size = Len(Stream)
      BY <1>1, <1>4, <1>6, <2>2
    <3>2. Offered(u) = {"data"} /\ Stream[k + 1] = "data"
      BY <1>4, <2>1, <3>1
    <3> QED BY <1>2, <1>3, <1>6, <3>1, <3>2 DEF k
  <2>3. CASE ~ (k < size)
    <3>1. k + 1 .. size = {} /\ k = Len(Stream)
      BY <1>1, <1>4, <1>5, <1>6, <2>3
    <3>2. Offered(u) = {}
      BY <2>1, <3>1
    <3> QED BY <3>1, <3>2 DEF k
  <2> QED BY <2>2, <2>3
<1>7. CASE kind = "archive"
  <2>1. CASE archiver[u] = "writing"
    <3>1. Offered(u) = {Stream[i] : i \in {k + 1} \cap DOMAIN Stream}
      BY <1>7, <2>1 DEF Offered, k
    <3>2. \A v \in Offered(u) : k + 1 \in DOMAIN Stream /\ v = Stream[k + 1]
      BY <3>1
    <3>3. \A i \in DOMAIN Stream : Stream[i] \in Chunks
      BY <1>4
    <3> QED BY <1>4, <1>7, <2>1, <3>2, <3>3 DEF k
  <2>2. CASE archiver[u] = "sealing"
    <3>1. Offered(u) = {"trailer"}
      BY <1>7, <2>2 DEF Offered
    <3>2. k + 1 \in 1 .. Len(Stream)
      BY <1>1, <1>4, <1>5, <1>7, <2>2
    <3> QED BY <1>2, <1>7, <2>2, <3>1, <3>2 DEF k
  <2>3. CASE archiver[u] \in {"ended", "closed"}
    <3>1. Offered(u) = {}
      BY <1>7, <2>3 DEF Offered
    <3> QED BY <1>7, <3>1
  <2>4. CASE archiver[u] = "none"
    <3>1. Offered(u) = {}
      BY <1>7, <2>4 DEF Offered
    <3> QED BY <1>7, <3>1
  <2> QED BY <1>1, <2>1, <2>2, <2>3, <2>4
<1> QED BY <1>1, <1>6, <1>7
-----------------------------------------------------------------------------
(* Types *)

LEMMA TypeInit == Init => TypeOK
<1> SUFFICES ASSUME Init PROVE TypeOK
  OBVIOUS
<1>1. 0 \in 0 .. Limit /\ 0 \in 0 .. MaxAttempts /\ 0 \in 0 .. MaxFaults /\ 0 <= Limit
  BY BoundsAssumption
<1>2. <<>> \in Seq(Chunks) /\ Len(<<>>) = 0
  OBVIOUS
<1>3. content \in Seq(Chunks) /\ Len(content) <= Limit /\ got \in Seq(Chunks)
  BY <1>1, <1>2 DEF Init
<1>4. /\ upload \in [Attempts -> {"none", "starting", "copying", "probing", "ok", "error"}]
      /\ offset \in [Attempts -> 0 .. Limit]
      /\ archiver \in [Attempts -> {"none", "writing", "sealing", "ended", "closed"}]
      /\ archiveErr \in [Attempts -> {"nil", "source", "pipe"}]
      /\ readErr \in [Attempts -> BOOLEAN]
  BY <1>1 DEF Init
<1> QED BY <1>1, <1>3, <1>4 DEF Init, TypeOK

LEMMA FaultType == TypeOK /\ Fault => faults' \in 0 .. MaxFaults
BY BoundsAssumption DEF TypeOK, Fault

(* The fields an attempt has of its own.                                   *)
AttemptTypes ==
  /\ upload \in [Attempts -> {"none", "starting", "copying", "probing", "ok", "error"}]
  /\ offset \in [Attempts -> 0 .. Limit]
  /\ archiver \in [Attempts -> {"none", "writing", "sealing", "ended", "closed"}]
  /\ archiveErr \in [Attempts -> {"nil", "source", "pipe"}]
  /\ readErr \in [Attempts -> BOOLEAN]

ContentTypes ==
  /\ exists \in BOOLEAN
  /\ content \in Seq(Chunks) /\ Len(content) <= Limit
  /\ emptiedBy \in 0 .. MaxAttempts

LEMMA LaunchType ==
  ASSUME TypeOK, Launch
  PROVE  AttemptTypes' /\ ContentTypes' /\ attempt' \in 0 .. MaxAttempts /\ settled' = settled
<1>1. attempt + 1 \in Attempts /\ attempt' \in 0 .. MaxAttempts
  BY BoundsAssumption DEF TypeOK, Launch, Attempts
<1>2. AttemptTypes'
  BY <1>1 DEF TypeOK, Launch, AttemptTypes
<1>3. ContentTypes'
  BY DEF TypeOK, Launch, ContentTypes, fileVars
<1> QED BY <1>1, <1>2, <1>3 DEF Launch

LEMMA OpenType ==
  ASSUME TypeOK, NEW u \in Attempts, OpenFile(u)
  PROVE  AttemptTypes' /\ ContentTypes'
<1>1. <<>> \in Seq(Chunks) /\ Len(<<>>) = 0 /\ 0 <= Limit
  BY BoundsAssumption
<1>2. u \in 0 .. MaxAttempts
  BY DEF Attempts
<1>3. ContentTypes'
  BY <1>1, <1>2 DEF OpenFile, ContentTypes
<1> QED BY <1>3 DEF TypeOK, OpenFile, AttemptTypes

LEMMA CopyType ==
  ASSUME TypeOK, Piped, NEW u \in Attempts, CopyChunk(u)
  PROVE  ContentTypes' /\ AttemptTypes'
<1>1. PICK v \in Offered(u) : content' = Put(content, offset[u] + 1, v)
  BY DEF CopyChunk
<1>2. v \in Chunks
  BY <1>1, OfferedFacts DEF Piped
<1>3. offset[u] + 1 \in Nat \ {0} /\ offset[u] + 1 <= Limit /\ offset[u] + 1 \in 0 .. Limit
  BY BoundsAssumption DEF TypeOK, CopyChunk, WithinLimit
<1>4. content \in Seq(Chunks) /\ Len(content) <= Limit
  BY DEF TypeOK
<1>5. /\ content' \in Seq(Chunks)
      /\ Len(content') = (IF offset[u] + 1 > Len(content) THEN offset[u] + 1 ELSE Len(content))
  <2>1. PICK i \in Nat \ {0} : i = offset[u] + 1
    BY <1>3
  <2>2. Overwritten(Put(content, i, v), content, i, v)
    BY <1>2, <1>4, PutOverwrites
  <2> QED BY <1>1, <2>1, <2>2 DEF Overwritten
<1>6. ContentTypes'
  BY <1>3, <1>4, <1>5 DEF ContentTypes, CopyChunk, TypeOK
<1>7. offset' \in [Attempts -> 0 .. Limit]
  BY <1>3 DEF TypeOK, CopyChunk
<1>8. /\ upload' \in [Attempts -> {"none", "starting", "copying", "probing", "ok", "error"}]
      /\ archiver' \in [Attempts -> {"none", "writing", "sealing", "ended", "closed"}]
      /\ archiveErr' \in [Attempts -> {"nil", "source", "pipe"}]
      /\ readErr' \in [Attempts -> BOOLEAN]
  BY DEF TypeOK, CopyChunk
<1> QED BY <1>6, <1>7, <1>8 DEF AttemptTypes

(* Steps of one attempt alone.                                             *)
LEMMA OwnStepType ==
  ASSUME TypeOK, NEW u \in Attempts,
         \/ CopyEnds(u) \/ CopyFails(u) \/ Probe(u) \/ CopyError(u) \/ ProbeFails(u) \/ Crash(u)
         \/ ArchiveEnds(u) /\ UNCHANGED <<upload, offset, readErr, fileVars>>
         \/ WriteFails(u) /\ UNCHANGED <<upload, offset, readErr, fileVars>>
         \/ ClosePipe(u) /\ UNCHANGED <<upload, offset, readErr, fileVars>>
         \/ ArchiveFails(u)
  PROVE  AttemptTypes' /\ ContentTypes'
<1>1. UNCHANGED <<offset, exists, content, emptiedBy>> /\ readErr' \in [Attempts -> BOOLEAN]
  BY DEF TypeOK, CopyEnds, CopyFails, Probe, CopyError, ProbeFails, Crash, ArchiveFails, fileVars
<1>2. upload' \in [Attempts -> {"none", "starting", "copying", "probing", "ok", "error"}]
  BY DEF TypeOK, CopyEnds, CopyFails, Probe, Verdict, CopyError, ProbeFails, Crash, ArchiveFails
<1>3. archiver' \in [Attempts -> {"none", "writing", "sealing", "ended", "closed"}]
  <2>1. CASE CopyEnds(u) \/ CopyFails(u) \/ Probe(u) \/ CopyError(u) \/ ProbeFails(u) \/ Crash(u)
    BY <2>1 DEF TypeOK, CopyEnds, CopyFails, Probe, CopyError, ProbeFails, Crash
  <2>2. CASE ArchiveEnds(u) \/ WriteFails(u) \/ ClosePipe(u) \/ ArchiveFails(u)
    <3>1. PICK v \in {"sealing", "ended", "closed"} : archiver' = [archiver EXCEPT ![u] = v]
      BY <2>2 DEF ArchiveEnds, WriteFails, ClosePipe, ArchiveFails
    <3> QED BY <3>1 DEF TypeOK
  <2> QED BY <2>1, <2>2
<1>4. archiveErr' \in [Attempts -> {"nil", "source", "pipe"}]
  BY DEF TypeOK, CopyEnds, CopyFails, Probe, CopyError, ProbeFails, Crash, ArchiveEnds,
         WriteFails, ClosePipe, ArchiveFails
<1> QED BY <1>1, <1>2, <1>3, <1>4 DEF TypeOK, AttemptTypes, ContentTypes

LEMMA ReadType ==
  ASSUME TypeOK, ReadChunk
  PROVE  got' \in Seq(Chunks) /\ download' \in {"idle", "reading", "ok", "failed"}
<1>1. content \in Seq(Chunks) /\ got \in Seq(Chunks) /\ Len(content) \in Nat /\ Len(got) \in Nat
  BY DEF TypeOK
<1>2. ASSUME Len(got) >= Len(content) PROVE got' \in Seq(Chunks)
  BY <1>1, <1>2 DEF ReadChunk
<1>3. ASSUME ~ (Len(got) >= Len(content)) PROVE got' \in Seq(Chunks)
  <2>1. Len(got) + 1 \in 1 .. Len(content)
    BY <1>1, <1>3
  <2>2. content[Len(got) + 1] \in Chunks
    BY <1>1, <2>1
  <2>3. got' = Append(got, content[Len(got) + 1])
    BY <1>3 DEF ReadChunk
  <2> QED BY <1>1, <2>2, <2>3
<1>4. got' \in Seq(Chunks)
  BY <1>2, <1>3
<1>5. got' \in Seq(Chunks) => got' = <<>> \/ got'[Len(got')] \in Chunks
  <2>1. \A s \in Seq(Chunks) : s = <<>> \/ (Len(s) \in 1 .. Len(s) /\ s[Len(s)] \in Chunks)
    OBVIOUS
  <2> QED BY <2>1
<1>6. \A s, b : (s = <<>> \/ s[Len(s)] \in Chunks) => AfterRead(s, b) \in {"reading", "ok", "failed"}
  BY DEF AfterRead, Chunks
<1> QED BY <1>4, <1>5, <1>6 DEF ReadChunk

LEMMA TypeStep == TypeOK /\ Piped /\ [Next]_vars => TypeOK'
<1> SUFFICES ASSUME TypeOK, Piped, [Next]_vars PROVE TypeOK'
  OBVIOUS
<1>1. ASSUME AttemptTypes', ContentTypes', attempt' \in 0 .. MaxAttempts,
             settled' \in {"none", "ok", "failed"}, faults' \in 0 .. MaxFaults,
             UNCHANGED <<inputVars, downloadVars>>
      PROVE  TypeOK'
  BY <1>1 DEF TypeOK, AttemptTypes, ContentTypes, inputVars, downloadVars
<1>2. ASSUME UNCHANGED <<fileVars, attemptVars>> PROVE AttemptTypes' /\ ContentTypes'
  BY <1>2 DEF TypeOK, AttemptTypes, ContentTypes, fileVars, attemptVars
<1>3. /\ attempt \in 0 .. MaxAttempts /\ faults \in 0 .. MaxFaults
      /\ settled \in {"none", "ok", "failed"}
  BY DEF TypeOK
<1>4. ASSUME Launch, faults' \in 0 .. MaxFaults, UNCHANGED <<inputVars, downloadVars>>
      PROVE  TypeOK'
  BY <1>1, <1>3, <1>4, LaunchType
<1>5. ASSUME GiveUp, faults' \in 0 .. MaxFaults, UNCHANGED <<inputVars, downloadVars>>
      PROVE  TypeOK'
  <2>1. /\ UNCHANGED <<fileVars, attemptVars>> /\ attempt' = attempt
        /\ settled' \in {"none", "ok", "failed"}
    BY <1>5 DEF GiveUp
  <2> QED BY <1>1, <1>2, <1>3, <1>5, <2>1
<1>6. CASE FirstAttempt
  BY <1>3, <1>4, <1>6 DEF FirstAttempt
<1>7. ASSUME NEW u \in Attempts, AttemptFailed(u) PROVE TypeOK'
  BY <1>3, <1>4, <1>5, <1>7 DEF AttemptFailed
<1>8. ASSUME NEW u \in Attempts, AttemptSucceeded(u) PROVE TypeOK'
  <2>1. /\ UNCHANGED <<fileVars, attemptVars, attempt, faults, inputVars, downloadVars>>
        /\ settled' \in {"none", "ok", "failed"}
    BY <1>8 DEF AttemptSucceeded
  <2> QED BY <1>1, <1>2, <1>3, <2>1
<1>9. ASSUME NEW u \in Attempts, AttemptLost(u) PROVE TypeOK'
  BY <1>4, <1>5, <1>9, FaultType DEF AttemptLost
<1>10. ASSUME NEW u \in Attempts, UploadStep(u) PROVE TypeOK'
  <2>1. UNCHANGED <<inputVars, attempt, settled, downloadVars, faults>>
    BY <1>10 DEF UploadStep
  <2>2. AttemptTypes' /\ ContentTypes'
    BY <1>10, OpenType, CopyType, OwnStepType DEF UploadStep
  <2> QED BY <1>1, <1>3, <2>1, <2>2
<1>11. ASSUME NEW u \in Attempts, ArchiverStep(u) PROVE TypeOK'
  <2>1. UNCHANGED <<inputVars, fileVars, attempt, upload, offset, readErr, settled, downloadVars,
                    faults>>
    BY <1>11 DEF ArchiverStep
  <2>2. AttemptTypes' /\ ContentTypes'
    BY <1>11, <2>1, OwnStepType DEF ArchiverStep
  <2> QED BY <1>1, <1>3, <2>1, <2>2
<1>12. ASSUME NEW u \in Attempts, Crash(u) \/ CopyError(u) \/ ProbeFails(u) \/ ArchiveFails(u) PROVE TypeOK'
  <2>1. UNCHANGED <<inputVars, attempt, settled, downloadVars>> /\ Fault
    BY <1>12 DEF Crash, CopyError, ProbeFails, ArchiveFails
  <2>2. AttemptTypes' /\ ContentTypes'
    BY <1>12, OwnStepType
  <2> QED BY <1>1, <1>3, <2>1, <2>2, FaultType
<1>13. CASE Open \/ ReadChunk
  <2>1. UNCHANGED <<inputVars, fileVars, attempt, attemptVars, settled, faults>>
    BY <1>13 DEF Open, ReadChunk
  <2>2. got' \in Seq(Chunks) /\ download' \in {"idle", "reading", "ok", "failed"}
    <3>1. <<>> \in Seq(Chunks)
      OBVIOUS
    <3>2. CASE Open
      BY <3>1, <3>2 DEF Open
    <3> QED BY <1>13, <3>2, ReadType
  <2> QED BY <2>1, <2>2 DEF TypeOK, inputVars, fileVars, attemptVars
<1>14. CASE UNCHANGED vars
  BY <1>14 DEF vars, inputVars, fileVars, attemptVars, downloadVars, TypeOK
<1> QED BY <1>6, <1>7, <1>8, <1>9, <1>10, <1>11, <1>12, <1>13, <1>14 DEF Next
-----------------------------------------------------------------------------
(* The two ends of a pipe *)

LEMMA SizeFacts ==
  ASSUME TypeOK
  PROVE  /\ Stream \in Seq(Chunks)
         /\ DOMAIN Stream = 1 .. Len(Stream) /\ Len(Stream) \in Nat /\ size \in Nat
         /\ kind = "file" => Len(Stream) = size
         /\ kind = "archive" => Len(Stream) = size + 1
         /\ \A i \in 1 .. size : Stream[i] = "data"
         /\ kind = "archive" => Stream[size + 1] = "trailer"
<1>1. size \in Nat /\ kind \in {"file", "archive"}
  BY BoundsAssumption DEF TypeOK
<1> QED BY <1>1, StreamFacts

LEMMA AttemptsOthers ==
  ASSUME TypeOK, NEW u \in Attempts,
         \/ UploadStep(u) \/ ArchiverStep(u) \/ Crash(u) \/ CopyError(u) \/ ProbeFails(u) \/ ArchiveFails(u)
  PROVE  \A o \in Attempts \ {u} :
           /\ upload'[o] = upload[o] /\ offset'[o] = offset[o]
           /\ archiver'[o] = archiver[o] /\ archiveErr'[o] = archiveErr[o] /\ readErr'[o] = readErr[o]
<1>1. CASE UploadStep(u)
  BY <1>1 DEF UploadStep, OpenFile, CopyChunk, CopyEnds, CopyFails, Probe, TypeOK, fileVars
<1>2. CASE ArchiverStep(u)
  BY <1>2 DEF ArchiverStep, ArchiveEnds, WriteFails, ClosePipe, TypeOK
<1>3. CASE Crash(u) \/ CopyError(u) \/ ProbeFails(u) \/ ArchiveFails(u)
  BY <1>3 DEF Crash, CopyError, ProbeFails, ArchiveFails, TypeOK
<1> QED BY <1>1, <1>2, <1>3

LEMMA AgreeStays ==
  ASSUME NEW o \in Attempts, EndsAgree(o), UNCHANGED <<kind, size>>,
         upload'[o] = upload[o], offset'[o] = offset[o],
         archiver'[o] = archiver[o], archiveErr'[o] = archiveErr[o], readErr'[o] = readErr[o]
  PROVE  EndsAgree(o)'
<1>1. Stream' = Stream
  BY DEF Stream
<1> QED BY <1>1 DEF EndsAgree

(* The attempt that is launched starts at the beginning.                   *)
LEMMA LaunchAgrees ==
  ASSUME TypeOK, Fresh, Piped, Launch, UNCHANGED <<kind, size>>
  PROVE  Fresh' /\ Piped'
<1>0. attempt + 1 \in Attempts
  BY BoundsAssumption DEF TypeOK, Launch, Attempts
<1> SUFFICES ASSUME NEW n \in Attempts, n = attempt + 1 PROVE Fresh' /\ Piped'
  BY <1>0
<1>1. attempt \in Nat /\ n > attempt /\ \A u \in Attempts : u \in Nat
  BY BoundsAssumption DEF TypeOK, Attempts
<1>2. /\ upload[n] = "none" /\ offset[n] = 0 /\ archiver[n] = "none" /\ archiveErr[n] = "nil"
      /\ ~ readErr[n]
  BY <1>1 DEF Fresh
<1>3. /\ attempt' = n /\ upload'[n] = "starting" /\ offset'[n] = 0 /\ ~ readErr'[n]
      /\ archiver'[n] = (IF kind = "archive" THEN "writing" ELSE "none")
      /\ archiveErr'[n] = "nil"
  BY <1>1, <1>2 DEF Launch, TypeOK
<1>4. \A o \in Attempts \ {n} :
        /\ upload'[o] = upload[o] /\ offset'[o] = offset[o]
        /\ archiver'[o] = archiver[o] /\ archiveErr'[o] = archiveErr[o] /\ readErr'[o] = readErr[o]
  BY DEF Launch, TypeOK
<1>5. Fresh'
  <2> SUFFICES ASSUME NEW o \in Attempts, o > attempt'
               PROVE  /\ upload'[o] = "none" /\ offset'[o] = 0
                      /\ archiver'[o] = "none" /\ archiveErr'[o] = "nil" /\ ~ readErr'[o]
    BY DEF Fresh
  <2>1. o # n /\ o > attempt
    BY <1>1, <1>3
  <2>2. /\ upload[o] = "none" /\ offset[o] = 0 /\ archiver[o] = "none" /\ archiveErr[o] = "nil"
        /\ ~ readErr[o]
    BY <2>1 DEF Fresh
  <2> QED BY <1>4, <2>1, <2>2
<1>6. EndsAgree(n)'
  <2>1. Stream' = Stream /\ 0 <= Len(Stream) /\ kind \in {"file", "archive"} /\ 0 <= size
    BY SizeFacts DEF Stream, TypeOK
  <2> QED BY <1>3, <2>1 DEF EndsAgree
<1>7. Piped'
  <2> SUFFICES ASSUME NEW o \in Attempts PROVE EndsAgree(o)'
    BY DEF Piped
  <2>1. CASE o = n
    BY <1>6, <2>1
  <2>2. CASE o # n
    <3>1. EndsAgree(o)
      BY DEF Piped
    <3> QED BY <1>4, <2>2, <3>1, AgreeStays
  <2> QED BY <2>1, <2>2
<1> QED BY <1>5, <1>7

(* A chunk goes from one end to the other.                                 *)
LEMMA CopyAgrees ==
  ASSUME TypeOK, Piped, NEW u \in Attempts, CopyChunk(u), UNCHANGED <<kind, size>>
  PROVE  EndsAgree(u)'
<1>1. EndsAgree(u) /\ upload[u] = "copying"
  BY DEF Piped, CopyChunk
<1>2. PICK v \in Offered(u) : TRUE
  BY DEF CopyChunk
<1>3. /\ offset[u] + 1 \in 1 .. Len(Stream)
      /\ archiver[u] \notin {"ended", "closed"}
  BY <1>1, <1>2, OfferedFacts
<1>4. offset[u] \in Nat /\ Len(Stream) \in Nat /\ size \in Nat
  BY SizeFacts, BoundsAssumption DEF TypeOK
<1>5. offset'[u] = offset[u] + 1 /\ upload'[u] = "copying" /\ offset'[u] <= Len(Stream)
  BY <1>1, <1>3, <1>4 DEF CopyChunk, TypeOK
<1>6. Stream' = Stream /\ kind' = kind /\ readErr' = readErr
  BY DEF Stream, CopyChunk
<1>7. CASE archiver[u] = "sealing"
  <2>1. archiver'[u] = "ended" /\ archiveErr'[u] = "source"
    BY <1>7 DEF CopyChunk, TypeOK
  <2> QED BY <1>1, <1>5, <1>6, <1>7, <2>1 DEF EndsAgree
<1>8. CASE archiver[u] # "sealing"
  <2>1. archiver'[u] = archiver[u] /\ archiveErr'[u] = archiveErr[u]
    BY <1>8 DEF CopyChunk
  <2> QED BY <1>1, <1>3, <1>5, <1>6, <1>8, <2>1 DEF EndsAgree
<1> QED BY <1>7, <1>8

(* The verdict is "ok" only where the stream ends without an error.        *)
LEMMA ProbeAgrees ==
  ASSUME TypeOK, Piped, NEW u \in Attempts, Probe(u), UNCHANGED <<kind, size>>
  PROVE  EndsAgree(u)'
<1>1. EndsAgree(u) /\ upload[u] = "probing" /\ upload'[u] = Verdict(u)
  BY DEF Piped, Probe, TypeOK
<1>2. UNCHANGED <<offset, archiver, archiveErr, readErr>> /\ Stream' = Stream /\ kind' = kind
  BY DEF Probe, Stream
<1>3. CASE Verdict(u) = "error"
  BY <1>1, <1>2, <1>3 DEF EndsAgree
<1>4. CASE Verdict(u) = "ok"
  <2>1. Offered(u) = {} /\ archiveErr[u] = "nil" /\ SourceEnded(u)
    BY <1>4 DEF Verdict, Probe
  <2>2. CASE kind = "file"
    <3>1. offset[u] = Len(Stream)
      BY <1>1, <2>1, <2>2, OfferedFacts
    <3> QED BY <1>1, <1>2, <1>4, <2>1, <3>1 DEF EndsAgree
  <2>3. CASE kind = "archive"
    <3>1. archiver[u] = "closed"
      BY <2>1, <2>3 DEF SourceEnded
    <3>2. offset[u] = Len(Stream)
      BY <1>1, <2>1, <3>1 DEF EndsAgree
    <3> QED BY <1>1, <1>2, <1>4, <2>1, <3>2 DEF EndsAgree
  <2> QED BY <2>2, <2>3 DEF TypeOK
<1> QED BY <1>3, <1>4 DEF Verdict

LEMMA OwnAgrees ==
  ASSUME TypeOK, Piped, NEW u \in Attempts, UNCHANGED <<kind, size>>,
         \/ OpenFile(u) \/ CopyEnds(u) \/ CopyFails(u) \/ CopyError(u) \/ ProbeFails(u)
         \/ Crash(u) \/ ArchiverStep(u) \/ ArchiveFails(u)
  PROVE  EndsAgree(u)'
<1>0. EndsAgree(u) /\ Stream' = Stream /\ kind' = kind /\ size' = size
  BY DEF Piped, Stream
<1>1. /\ kind \in {"file", "archive"} /\ offset'[u] = offset[u]
      /\ ~ ProbeFails(u) => readErr'[u] = readErr[u]
  BY DEF TypeOK, OpenFile, CopyEnds, CopyFails, CopyError, ProbeFails, Crash, ArchiverStep,
         ArchiveFails
<1>2. CASE OpenFile(u) \/ CopyEnds(u) \/ CopyFails(u) \/ CopyError(u)
  <2>1. /\ upload[u] \in {"starting", "copying"} /\ upload'[u] \in {"copying", "probing", "error"}
        /\ archiver'[u] = archiver[u] /\ archiveErr'[u] = archiveErr[u] /\ readErr'[u] = readErr[u]
    BY <1>2 DEF OpenFile, CopyEnds, CopyFails, CopyError, TypeOK
  <2> QED BY <1>0, <1>1, <2>1 DEF EndsAgree
<1>3. CASE Crash(u)
  <2>1. /\ upload[u] \in {"starting", "copying", "probing"} /\ upload'[u] = "error"
        /\ archiver'[u] = (IF kind = "archive" THEN "closed" ELSE "none")
        /\ archiveErr'[u] = archiveErr[u] /\ readErr'[u] = readErr[u]
    BY <1>3 DEF Crash, Running, TypeOK
  <2> QED BY <1>0, <1>1, <2>1 DEF EndsAgree
<1>4. CASE ArchiverStep(u)
  <2>0. upload'[u] = upload[u] /\ readErr'[u] = readErr[u]
    BY <1>4 DEF ArchiverStep
  <2>1. CASE ArchiveEnds(u)
    <3>1. /\ archiver[u] = "writing" /\ archiver'[u] = "ended" /\ archiveErr'[u] = archiveErr[u]
          /\ offset[u] = Len(Stream)
      BY <2>1 DEF ArchiveEnds, TypeOK
    <3> QED BY <1>0, <1>1, <2>0, <3>1 DEF EndsAgree
  <2>2. CASE WriteFails(u)
    <3>1. /\ archiver[u] \in {"writing", "sealing"} /\ archiver'[u] = "ended"
          /\ archiveErr'[u] = "pipe" /\ upload[u] = "error"
      BY <2>2 DEF WriteFails, PipeClosed, TypeOK
    <3> QED BY <1>0, <1>1, <2>0, <3>1 DEF EndsAgree
  <2>3. CASE ClosePipe(u)
    <3>1. archiver[u] = "ended" /\ archiver'[u] = "closed" /\ archiveErr'[u] = archiveErr[u]
      BY <2>3 DEF ClosePipe, TypeOK
    <3> QED BY <1>0, <1>1, <2>0, <3>1 DEF EndsAgree
  <2> QED BY <1>4, <2>1, <2>2, <2>3 DEF ArchiverStep
<1>5. CASE ArchiveFails(u)
  <2>1. /\ archiver[u] = "writing" /\ upload'[u] = upload[u] /\ offset[u] <= size
        /\ readErr'[u] = readErr[u]
        /\ \/ archiver'[u] = "sealing" /\ archiveErr'[u] = archiveErr[u]
           \/ archiver'[u] = "ended" /\ archiveErr'[u] = "source"
    BY <1>5 DEF ArchiveFails, TypeOK
  <2>2. archiveErr[u] = "nil" /\ upload[u] # "ok"
    <3>1. offset[u] \in Nat /\ Len(Stream) \in Nat
      BY SizeFacts, BoundsAssumption DEF TypeOK
    <3>2. archiver[u] # "none" /\ kind = "archive" /\ Len(Stream) = size + 1 /\ size \in Nat
      BY <1>0, <1>1, <2>1, SizeFacts DEF EndsAgree
    <3> QED BY <1>0, <2>1, <3>1, <3>2 DEF EndsAgree
  <2> QED BY <1>0, <1>1, <2>1, <2>2 DEF EndsAgree
<1>6. CASE ProbeFails(u)
  <2>1. /\ upload[u] = "probing" /\ kind = "file" /\ upload'[u] = "ok" /\ readErr'[u]
        /\ archiver'[u] = archiver[u] /\ archiveErr'[u] = archiveErr[u]
    BY <1>6 DEF ProbeFails, TypeOK
  <2> QED BY <1>0, <1>1, <2>1 DEF EndsAgree
<1> QED BY <1>2, <1>3, <1>4, <1>5, <1>6

(* Launching, or anything that leaves the attempts alone.                  *)
LEMMA PipesStay ==
  ASSUME Fresh, Piped, UNCHANGED <<kind, size, attempt, attemptVars>>
  PROVE  Fresh' /\ Piped'
<1>1. Fresh'
  BY DEF Fresh, attemptVars
<1>2. \A o \in Attempts : EndsAgree(o)'
  BY AgreeStays DEF Piped, attemptVars
<1> QED BY <1>1, <1>2 DEF Piped

LEMMA PipesMove ==
  ASSUME TypeOK, Fresh, Piped, NEW u \in Attempts,
         \/ UploadStep(u) \/ ArchiverStep(u) \/ Crash(u) \/ CopyError(u) \/ ProbeFails(u) \/ ArchiveFails(u)
  PROVE  Fresh' /\ Piped'
<1>1. UNCHANGED <<kind, size, attempt>>
  BY DEF UploadStep, ArchiverStep, Crash, CopyError, ProbeFails, ArchiveFails, inputVars
<1>2. upload[u] # "none" \/ archiver[u] # "none"
  BY DEF UploadStep, OpenFile, CopyChunk, CopyEnds, CopyFails, Probe, ArchiverStep, ArchiveEnds,
         WriteFails, ClosePipe, Crash, Running, CopyError, ProbeFails, ArchiveFails
<1>3. ~ (u > attempt)
  BY <1>2 DEF Fresh
<1>4. Fresh'
  BY <1>1, <1>3, AttemptsOthers DEF Fresh
<1>5. EndsAgree(u)'
  BY <1>1, CopyAgrees, ProbeAgrees, OwnAgrees DEF UploadStep
<1>6. Piped'
  <2> SUFFICES ASSUME NEW o \in Attempts, o # u PROVE EndsAgree(o)'
    BY <1>5 DEF Piped
  <2>1. EndsAgree(o)
    BY DEF Piped
  <2> QED BY <1>1, <2>1, AttemptsOthers, AgreeStays
<1> QED BY <1>4, <1>6
-----------------------------------------------------------------------------
(* What is in the store *)

(* What an archiver's error is stays so.                                   *)
LEMMA CleanBack == TypeOK /\ Piped /\ [Next]_vars /\ Clean' => Clean
<1> SUFFICES ASSUME TypeOK, Piped, [Next]_vars, Clean', NEW o \in Attempts, archiveErr[o] = "source"
             PROVE  FALSE
  BY DEF Clean, SourceFailed
<1>1. archiveErr'[o] # "source"
  BY DEF Clean, SourceFailed
<1>2. archiver[o] \notin {"writing", "sealing"}
  BY DEF Piped, EndsAgree
<1>3. archiveErr' # archiveErr
  BY <1>1
<1>4. ASSUME NEW u \in Attempts,
             UploadStep(u) \/ ArchiverStep(u) \/ Crash(u) \/ CopyError(u) \/ ProbeFails(u) \/ ArchiveFails(u)
      PROVE  FALSE
  <2>1. CASE u # o
    BY <1>1, <1>4, <2>1, AttemptsOthers
  <2>2. CASE u = o
    <3>1. CASE UploadStep(o)
      BY <1>2, <1>3, <3>1 DEF UploadStep, OpenFile, CopyChunk, CopyEnds, CopyFails, Probe
    <3>2. CASE ArchiverStep(o)
      BY <1>2, <1>3, <3>2 DEF ArchiverStep, ArchiveEnds, WriteFails, ClosePipe
    <3>3. CASE Crash(o) \/ CopyError(o) \/ ProbeFails(o) \/ ArchiveFails(o)
      BY <1>2, <1>3, <3>3 DEF Crash, CopyError, ProbeFails, ArchiveFails
    <3> QED BY <1>4, <2>2, <3>1, <3>2, <3>3
  <2> QED BY <2>1, <2>2
<1>5. CASE FirstAttempt \/ Open \/ ReadChunk \/ UNCHANGED vars
  BY <1>3, <1>5 DEF FirstAttempt, Launch, Open, ReadChunk, vars, attemptVars
<1>6. ASSUME NEW u \in Attempts, AttemptFailed(u) \/ AttemptSucceeded(u) \/ AttemptLost(u)
      PROVE  FALSE
  BY <1>3, <1>6 DEF AttemptFailed, AttemptSucceeded, AttemptLost, Launch,
         GiveUp, attemptVars
<1> QED BY <1>4, <1>5, <1>6 DEF Next

(* An attempt whose archive has not failed copies the next chunk of the    *)
(* stream to its place.                                                    *)
LEMMA CopiedFacts ==
  ASSUME TypeOK, Piped, NEW u \in Attempts, CopyChunk(u), Clean'
  PROVE  \E i \in DOMAIN Stream :
           i = offset[u] + 1 /\ i \in Nat /\ Overwritten(content', content, i, Stream[i])
<1>1. archiver[u] # "sealing"
  BY DEF CopyChunk, Clean, SourceFailed, TypeOK
<1>2. PICK v \in Offered(u) : content' = Put(content, offset[u] + 1, v)
  BY DEF CopyChunk
<1>3. v \in Chunks /\ offset[u] + 1 \in 1 .. Len(Stream) /\ v = Stream[offset[u] + 1]
  BY <1>1, <1>2, OfferedFacts DEF Piped
<1>4. DOMAIN Stream = 1 .. Len(Stream) /\ Len(Stream) \in Nat
  BY SizeFacts
<1>5. PICK i \in Nat \ {0} : i = offset[u] + 1 /\ i \in DOMAIN Stream
  BY <1>3, <1>4
<1>6. PICK w \in Chunks : w = Stream[i] /\ content' = Put(content, i, w)
  BY <1>2, <1>3, <1>5
<1>7. content \in Seq(Chunks)
  BY DEF TypeOK
<1>8. Overwritten(Put(content, i, w), content, i, w)
  BY <1>7, PutOverwrites
<1> QED BY <1>5, <1>6, <1>8

LEMMA StoredStays ==
  ASSUME Stored, Clean' => Clean, UNCHANGED <<kind, size>>, content' \in {content, <<>>}
  PROVE  Stored'
<1>1. Stream' = Stream
  BY DEF Stream
<1>2. CASE content' = content
  BY <1>1, <1>2 DEF Stored
<1>3. CASE content' = <<>>
  BY <1>3 DEF Stored
<1> QED BY <1>2, <1>3

LEMMA StoredCopies ==
  ASSUME TypeOK, Piped, Stored, NEW u \in Attempts, CopyChunk(u), Clean' => Clean,
         UNCHANGED <<kind, size>>
  PROVE  Stored'
<1> SUFFICES ASSUME Clean', NEW j \in DOMAIN content'
             PROVE  j \in DOMAIN Stream /\ content'[j] \in {Stream[j], "hole"}
  BY DEF Stored, Stream
<1>1. PICK i \in DOMAIN Stream :
        /\ i = offset[u] + 1 /\ i \in Nat /\ content'[i] = Stream[i]
        /\ content' \in Seq(Chunks)
        /\ Len(content') = (IF i > Len(content) THEN i ELSE Len(content))
        /\ \A k \in DOMAIN content' :
             k # i => (k \in DOMAIN content /\ content'[k] = content[k]) \/ content'[k] = "hole"
  BY CopiedFacts DEF Overwritten
<1>2. content \in Seq(Chunks)
  BY DEF TypeOK
<1>3. \A k \in DOMAIN content : k \in DOMAIN Stream /\ content[k] \in {Stream[k], "hole"}
  BY DEF Stored
<1>5. j \in DOMAIN Stream
  <2>1. /\ DOMAIN Stream = 1 .. Len(Stream) /\ Len(Stream) \in Nat
        /\ DOMAIN content = 1 .. Len(content) /\ Len(content) \in Nat
        /\ DOMAIN content' = 1 .. Len(content')
    BY <1>1, <1>2, SizeFacts
  <2>2. Len(content) <= Len(Stream)
    <3>1. CASE Len(content) = 0
      BY <2>1, <3>1
    <3>2. CASE Len(content) # 0
      <4>1. Len(content) \in DOMAIN content
        BY <2>1, <3>2
      <4>2. Len(content) \in DOMAIN Stream
        BY <1>3, <4>1
      <4> QED BY <2>1, <4>2
    <3> QED BY <3>1, <3>2
  <2>3. i <= Len(Stream) /\ i \in Nat
    BY <1>1, <2>1
  <2>4. j \in 1 .. Len(content')
    BY <2>1
  <2> QED BY <1>1, <2>1, <2>2, <2>3, <2>4
<1> QED BY <1>1, <1>3, <1>5

(* The attempt that emptied the file has its beginning of it: what others  *)
(* write over it is the same.                                              *)
LEMMA WrittenCopies ==
  ASSUME TypeOK, Piped, Written, NEW u \in Attempts, CopyChunk(u), Clean' => Clean,
         UNCHANGED <<kind, size, emptiedBy>>
  PROVE  Written'
<1> SUFFICES ASSUME Clean', emptiedBy \in Attempts, upload'[emptiedBy] \in {"copying", "probing", "ok"},
                    NEW j \in 1 .. offset'[emptiedBy]
             PROVE  j \in DOMAIN content' /\ content'[j] = Stream[j]
  BY DEF Written, Stream
<1>1. PICK i \in DOMAIN Stream :
        /\ i = offset[u] + 1 /\ i \in DOMAIN content' /\ content'[i] = Stream[i]
        /\ \A k \in DOMAIN content : k \in DOMAIN content' /\ (k # i => content'[k] = content[k])
  BY CopiedFacts DEF Overwritten
<1>2. content \in Seq(Chunks)
  BY DEF TypeOK
<1>3. upload' = upload
  BY DEF CopyChunk
<1>4. \A k \in 1 .. offset[emptiedBy] : k \in DOMAIN content /\ content[k] = Stream[k]
  BY <1>3 DEF Written
<1>5. j = i \/ j \in 1 .. offset[emptiedBy]
  <2>0. offset[emptiedBy] \in Nat
    BY BoundsAssumption DEF TypeOK
  <2>1. CASE emptiedBy = u
    <3>1. offset'[emptiedBy] = offset[emptiedBy] + 1
      BY <2>1 DEF CopyChunk, TypeOK
    <3> QED BY <1>1, <2>0, <2>1, <3>1
  <2>2. CASE emptiedBy # u
    <3>1. offset'[emptiedBy] = offset[emptiedBy]
      BY <2>2 DEF CopyChunk, TypeOK
    <3> QED BY <3>1
  <2> QED BY <2>1, <2>2
<1> QED BY <1>1, <1>4, <1>5

LEMMA WrittenStays ==
  ASSUME Written, Clean' => Clean, UNCHANGED <<kind, size, emptiedBy, content, offset>>,
         emptiedBy \in Attempts /\ upload'[emptiedBy] \in {"copying", "probing", "ok"}
           => upload[emptiedBy] \in {"copying", "probing", "ok"}
  PROVE  Written'
<1>1. Stream' = Stream
  BY DEF Stream
<1> QED BY <1>1 DEF Written

LEMMA WrittenLaunched ==
  ASSUME TypeOK, Fresh, Written, Clean' => Clean, Launch, UNCHANGED <<kind, size>>
  PROVE  Written'
<1>1. attempt + 1 \in Attempts
  BY BoundsAssumption DEF TypeOK, Launch, Attempts
<1>2. UNCHANGED <<emptiedBy, content, offset>>
  BY DEF Launch, fileVars
<1>3. \A o \in Attempts : upload'[o] \in {"copying", "probing", "ok"} => upload'[o] = upload[o]
  BY <1>1 DEF Launch, TypeOK
<1> QED BY <1>2, <1>3, WrittenStays

(* The file is empty when an attempt begins to copy.                       *)
LEMMA WrittenOpened ==
  ASSUME TypeOK, Piped, NEW u \in Attempts, OpenFile(u), offset[u] = 0
  PROVE  Written'
<1>1. emptiedBy' = u /\ offset'[u] = 0
  BY DEF OpenFile
<1>2. ASSUME NEW j \in 1 .. offset'[u] PROVE FALSE
  BY <1>1, <1>2
<1> QED BY <1>1, <1>2 DEF Written

(* An attempt begins to copy when it opens the file, and a success stays.  *)
LEMMA UploadOrder ==
  ASSUME TypeOK, NEW u \in Attempts, NEW o \in Attempts,
         UploadStep(u) \/ ArchiverStep(u) \/ Crash(u) \/ CopyError(u) \/ ProbeFails(u) \/ ArchiveFails(u)
  PROVE  /\ upload'[o] \in {"copying", "probing", "ok"} /\ ~ OpenFile(u)
              => upload[o] \in {"copying", "probing", "ok"}
         /\ upload[o] = "ok" => upload'[o] = "ok"
<1>1. CASE o # u
  BY <1>1, AttemptsOthers
<1>2. CASE o = u
  <2>1. CASE UploadStep(u)
    BY <1>2, <2>1 DEF UploadStep, OpenFile, CopyChunk, CopyEnds, CopyFails, Probe, TypeOK
  <2>2. CASE ArchiverStep(u) \/ ArchiveFails(u)
    BY <2>2 DEF ArchiverStep, ArchiveFails
  <2>3. CASE Crash(u) \/ CopyError(u) \/ ProbeFails(u)
    BY <1>2, <2>3 DEF Crash, CopyError, ProbeFails, Running, TypeOK
  <2> QED BY <2>1, <2>2, <2>3
<1> QED BY <1>1, <1>2

(* An upload that succeeds has stored the stream, if it was the last to    *)
(* empty the file.                                                         *)
LEMMA WholeStored ==
  ASSUME TypeOK, Piped, Stored, Written, Clean, NEW u \in Attempts,
         upload[u] = "ok", emptiedBy = u, ~ readErr[u]
  PROVE  content = Stream
<1>2. offset[u] = Len(Stream)
  BY DEF Piped, EndsAgree
<1>3. \A j \in 1 .. Len(Stream) : j \in DOMAIN content /\ content[j] = Stream[j]
  BY <1>2 DEF Written
<1>4. \A j \in DOMAIN content : j \in DOMAIN Stream
  BY DEF Stored
<1>5. /\ DOMAIN Stream = 1 .. Len(Stream) /\ Stream \in Seq(Chunks) /\ Len(Stream) \in Nat
      /\ content \in Seq(Chunks)
  BY SizeFacts DEF TypeOK
<1>6. DOMAIN content = DOMAIN Stream
  BY <1>3, <1>4, <1>5
<1>7. Len(content) = Len(Stream)
  BY <1>5, <1>6
<1> QED BY <1>3, <1>5, <1>7
-----------------------------------------------------------------------------
(* What the consumer reads *)

(* A file is read to its end, an archive to its trailer; a hole is found.  *)
LEMMA AfterReadFacts ==
  ASSUME kind \in {"file", "archive"}, NEW s \in Seq(Chunks), NEW atEnd \in BOOLEAN
  PROVE  /\ kind = "file" => AfterRead(s, atEnd) = IF atEnd THEN "ok" ELSE "reading"
         /\ kind = "archive" /\ AfterRead(s, atEnd) = "ok"
              => s # <<>> /\ s[Len(s)] = "trailer"
         /\ kind = "archive" /\ AfterRead(s, atEnd) \in {"reading", "ok"} /\ s # <<>>
              => s[Len(s)] # "hole"
<1>1. CASE kind = "file"
  BY <1>1 DEF AfterRead
<1>2. CASE kind = "archive" /\ s = <<>>
  <2>1. AfterRead(s, atEnd) = IF atEnd THEN "failed" ELSE "reading"
    BY <1>2 DEF AfterRead
  <2> QED BY <1>2, <2>1
<1>3. CASE kind = "archive" /\ s # <<>>
  <2>1. Len(s) \in 1 .. Len(s) /\ s[Len(s)] \in Chunks
    BY <1>3
  <2>2. s[Len(s)] \in {"data", "trailer", "hole"}
    BY <2>1 DEF Chunks
  <2>3. AfterRead(s, atEnd) =
          CASE s[Len(s)] = "trailer" -> "ok"
            [] s[Len(s)] = "hole"    -> "failed"
            [] s[Len(s)] = "data"    -> IF atEnd THEN "failed" ELSE "reading"
    BY <1>3, <2>2 DEF AfterRead
  <2> QED BY <1>3, <2>2, <2>3
<1> QED BY <1>1, <1>2, <1>3

LEMMA ReadFetches ==
  ASSUME TypeOK, Piped, Stored, Written, ResultTaken, Fetched, ReadChunk, Clean' => Clean
  PROVE  Fetched'
<1>0. /\ UNCHANGED <<kind, size, content, emptiedBy, attempt, readErr, settled>>
      /\ download = "reading"
  BY DEF ReadChunk, inputVars, fileVars, attemptVars
<1>1. Stream' = Stream
  BY <1>0 DEF Stream
<1> SUFFICES ASSUME Clean, download' \in {"reading", "ok"}, kind = "file" => Undisturbed
             PROVE  IsPrefix(got') /\ (download' = "ok" => Len(got') = Len(Stream))
  BY <1>0, <1>1 DEF Fetched, Undisturbed, IsPrefix
<1>w. kind = "file" => content = Stream
  BY WholeStored DEF ResultTaken, Undisturbed
<1>2. IsPrefix(got)
  BY <1>0 DEF Fetched
<1>3. /\ content \in Seq(Chunks) /\ got \in Seq(Chunks) /\ Len(content) \in Nat /\ Len(got) \in Nat
      /\ DOMAIN content = 1 .. Len(content) /\ DOMAIN got = 1 .. Len(got)
      /\ kind \in {"file", "archive"}
  BY DEF TypeOK
<1>4. /\ DOMAIN Stream = 1 .. Len(Stream) /\ Len(Stream) \in Nat /\ size \in Nat
      /\ kind = "archive" => Len(Stream) = size + 1
      /\ \A i \in 1 .. size : Stream[i] = "data"
  BY SizeFacts
<1>5. \A j \in DOMAIN content : j \in DOMAIN Stream /\ content[j] \in {Stream[j], "hole"}
  BY DEF Stored
<1> DEFINE g == Len(got)
           l == Len(Stream)
<1>b. g \in Nat /\ l \in Nat /\ (kind = "archive" => l = size + 1)
  BY <1>3, <1>4
<1>a. g <= l /\ (g # 0 => g \in 1 .. l)
  <2>1. ASSUME g # 0 PROVE g \in 1 .. l
    <3>1. g \in DOMAIN got
      BY <1>3, <2>1
    <3> QED BY <1>2, <1>4, <3>1 DEF IsPrefix
  <2> HIDE DEF g, l
  <2> QED BY <1>b, <2>1
<1>6. CASE Len(got) >= Len(content)
  <2>0. (Len(got) >= Len(content)) = TRUE
    BY <1>6
  <2>1. got' = got /\ download' = AfterRead(got, TRUE)
    BY <2>0 DEF ReadChunk
  <2>2. ASSUME download' = "ok" PROVE Len(got) = Len(Stream)
    <3>1. CASE kind = "file"
      <4>1. Len(content) = l
        BY <1>w, <3>1
      <4>2. g >= l
        BY <1>6, <4>1
      <4>3. g = l
        <5> HIDE DEF g, l
        <5> QED BY <1>a, <1>b, <4>2
      <4> QED BY <4>3
    <3>2. CASE kind = "archive"
      <4>1. got # <<>> /\ got[Len(got)] = "trailer"
        BY <1>3, <2>1, <2>2, <3>2, AfterReadFacts
      <4>2. Len(got) \in DOMAIN got /\ Len(got) # 0
        BY <1>3, <4>1
      <4>3. Stream[Len(got)] = "trailer"
        BY <1>2, <4>1, <4>2 DEF IsPrefix
      <4>4. g # 0 /\ g \notin 1 .. size
        BY <1>4, <4>2, <4>3
      <4>5. g = l
        <5> HIDE DEF g, l
        <5> QED BY <1>4, <1>a, <1>b, <3>2, <4>4
      <4> QED BY <4>5
    <3> QED BY <1>3, <3>1, <3>2
  <2> QED BY <1>2, <2>1, <2>2
<1>7. CASE ~ (Len(got) >= Len(content))
  <2> DEFINE i == Len(got) + 1
  <2>1. i \in DOMAIN content /\ i \in DOMAIN Stream /\ content[i] \in {Stream[i], "hole"}
    <3>1. i \in 1 .. Len(content)
      BY <1>3, <1>7
    <3> QED BY <1>3, <1>5, <3>1
  <2>0. (Len(got) >= Len(content)) = FALSE
    BY <1>7
  <2>2. got' = Append(got, content[i]) /\ download' = AfterRead(got', FALSE)
    BY <2>0 DEF ReadChunk
  <2>3. content[i] \in Chunks
    BY <1>3, <2>1
  <2>4. /\ Len(got') = i /\ DOMAIN got' = 1 .. i /\ got'[i] = content[i]
        /\ \A j \in 1 .. Len(got) : got'[j] = got[j]
    BY <1>3, <2>2, <2>3, AppendFacts
  <2>5. got' # <<>> /\ got' \in Seq(Chunks)
    BY <1>3, <2>2, <2>3
  <2>6. content[i] = Stream[i]
    <3>1. CASE kind = "file"
      BY <1>w, <2>1, <3>1
    <3>2. CASE kind = "archive"
      <4>1. content[i] # "hole"
        BY <2>2, <2>4, <2>5, <3>2, AfterReadFacts
      <4> QED BY <2>1, <4>1
    <3> QED BY <1>3, <3>1, <3>2
  <2>7. IsPrefix(got')
    <3> SUFFICES ASSUME NEW j \in 1 .. i PROVE j \in DOMAIN Stream /\ got'[j] = Stream[j]
      BY <2>4 DEF IsPrefix
    <3>1. CASE j = i
      BY <2>1, <2>4, <2>6, <3>1
    <3>2. CASE j # i
      <4>1. j \in 1 .. Len(got)
        BY <1>3, <3>2
      <4> QED BY <1>2, <1>3, <2>4, <4>1 DEF IsPrefix
    <3> QED BY <3>1, <3>2
  <2>8. ASSUME download' = "ok" PROVE i = Len(Stream)
    <3>1. kind = "archive" /\ got'[Len(got')] = "trailer"
      BY <1>3, <2>2, <2>5, <2>8, AfterReadFacts
    <3>2. Stream[i] = "trailer"
      BY <2>4, <2>6, <3>1
    <3>3. i \notin 1 .. size /\ i \in 1 .. Len(Stream)
      BY <1>4, <2>1, <3>2
    <3> HIDE DEF i
    <3> QED BY <1>4, <3>1, <3>3
  <2> QED BY <2>4, <2>7, <2>8
<1> QED BY <1>6, <1>7
-----------------------------------------------------------------------------
(* The invariant is inductive *)

LEMMA TransferInit == Init => TransferInv
<1> SUFFICES ASSUME Init PROVE TransferInv
  OBVIOUS
<1>1. TypeOK
  BY TypeInit
<1>2. attempt = 0 /\ emptiedBy = 0 /\ 0 \notin Attempts /\ \A u \in Attempts : u > 0
  BY DEF Init, Attempts
<1>3. Fresh
  BY DEF Init, Fresh
<1>4. Piped
  <2> SUFFICES ASSUME NEW u \in Attempts PROVE EndsAgree(u)
    BY DEF Piped
  <2>1. /\ upload[u] = "none" /\ offset[u] = 0 /\ archiver[u] = "none" /\ archiveErr[u] = "nil"
        /\ ~ readErr[u]
    BY DEF Init
  <2>2. Len(Stream) \in Nat
    BY <1>1, SizeFacts
  <2> QED BY <2>1, <2>2 DEF EndsAgree
<1>5. Stored
  BY DEF Init, Stored
<1>6. Written
  BY <1>2 DEF Written
<1>7. ResultTaken /\ Fetched
  BY DEF Init, ResultTaken, Fetched
<1> QED BY <1>1, <1>3, <1>4, <1>5, <1>6, <1>7 DEF TransferInv

(* Steps of the uploading side leave the consumer alone, and the workflow  *)
(* takes its result before the consumer starts.                            *)
LEMMA FetchedStays ==
  ASSUME Fetched, ResultTaken, Clean' => Clean, UNCHANGED <<kind, size, downloadVars>>,
         settled = "none" \/ (settled' = settled /\ (Undisturbed' => Undisturbed))
  PROVE  Fetched'
<1>1. Stream' = Stream /\ got' = got /\ download' = download /\ kind' = kind
  BY DEF Stream, downloadVars
<1>2. CASE settled' = settled /\ (Undisturbed' => Undisturbed)
  BY <1>1, <1>2 DEF Fetched, IsPrefix
<1>3. CASE settled = "none"
  BY <1>1, <1>3 DEF Fetched, ResultTaken
<1> QED BY <1>2, <1>3

(* The attempt whose result the workflow took is at its end, and does not  *)
(* empty the file again.                                                   *)
LEMMA UndisturbedBack ==
  ASSUME TypeOK, ResultTaken, NEW u \in Attempts,
         \/ UploadStep(u) \/ ArchiverStep(u) \/ Crash(u) \/ CopyError(u) \/ ProbeFails(u) \/ ArchiveFails(u),
         Undisturbed'
  PROVE  Undisturbed
<1>1. UNCHANGED <<attempt, settled>>
  BY DEF UploadStep, ArchiverStep, Crash, CopyError, ProbeFails, ArchiveFails
<1>2. attempt \in Attempts /\ upload[attempt] = "ok"
  BY <1>1 DEF ResultTaken, Undisturbed
<1>3. emptiedBy = attempt
  <2>1. CASE OpenFile(u)
    BY <1>1, <1>2, <2>1 DEF OpenFile, Undisturbed
  <2>2. CASE ~ OpenFile(u)
    <3>1. emptiedBy' = emptiedBy
      BY <2>2 DEF UploadStep, CopyChunk, CopyEnds, CopyFails, Probe, ArchiverStep, Crash, CopyError,
             ProbeFails, ArchiveFails, fileVars
    <3> QED BY <1>1, <3>1 DEF Undisturbed
  <2> QED BY <2>1, <2>2
<1>4. ~ readErr[attempt]
  <2>1. CASE ProbeFails(u)
    <3>1. attempt # u
      BY <1>2, <2>1 DEF ProbeFails
    <3> QED BY <1>1, <1>2, <2>1, <3>1 DEF ProbeFails, Undisturbed, TypeOK
  <2>2. CASE ~ ProbeFails(u)
    <3>1. readErr' = readErr
      BY <2>2 DEF UploadStep, OpenFile, CopyChunk, CopyEnds, CopyFails, Probe, ArchiverStep, Crash,
             CopyError, ArchiveFails
    <3> QED BY <1>1, <3>1 DEF Undisturbed
  <2> QED BY <2>1, <2>2
<1> QED BY <1>1, <1>3, <1>4 DEF Undisturbed

LEMMA LaunchStep ==
  ASSUME TransferInv, [Next]_vars, Launch, settled = "none",
         UNCHANGED <<inputVars, downloadVars>>
  PROVE  TransferInv'
<1>0. TypeOK /\ Fresh /\ Piped /\ Stored /\ Written /\ ResultTaken /\ Fetched
  BY DEF TransferInv
<1>1. UNCHANGED <<kind, size, content, settled, download>>
  BY DEF inputVars, fileVars, Launch, downloadVars
<1>2. TypeOK' /\ (Clean' => Clean)
  BY <1>0, TypeStep, CleanBack
<1>3. Fresh' /\ Piped'
  BY <1>0, <1>1, LaunchAgrees
<1>4. Stored' /\ Written' /\ Fetched'
  BY <1>0, <1>1, <1>2, StoredStays, WrittenLaunched, FetchedStays
<1>5. ResultTaken'
  BY <1>0, <1>1 DEF ResultTaken
<1> QED BY <1>2, <1>3, <1>4, <1>5 DEF TransferInv

(* The workflow takes a result or gives up.                                *)
LEMMA TakeStep ==
  ASSUME TransferInv, [Next]_vars, settled = "none",
         UNCHANGED <<inputVars, fileVars, attempt, attemptVars, downloadVars>>,
         attempt \in Attempts, settled' = "ok" => upload[attempt] = "ok", settled' # "none"
  PROVE  TransferInv'
<1>0. TypeOK /\ Fresh /\ Piped /\ Stored /\ Written /\ ResultTaken /\ Fetched
  BY DEF TransferInv
<1>1. UNCHANGED <<kind, size, content, emptiedBy, attempt, upload, offset>>
  BY DEF inputVars, fileVars, attemptVars
<1>2. TypeOK' /\ (Clean' => Clean)
  BY <1>0, TypeStep, CleanBack
<1>3. Fresh' /\ Piped'
  BY <1>0, <1>1, PipesStay
<1>4. Stored' /\ Written' /\ Fetched'
  BY <1>0, <1>1, <1>2, StoredStays, WrittenStays, FetchedStays
<1>5. ResultTaken'
  BY <1>1 DEF ResultTaken
<1> QED BY <1>2, <1>3, <1>4, <1>5 DEF TransferInv

(* An attempt or its goroutine moves, whether it is waited for or not.     *)
LEMMA WorkStep ==
  ASSUME TransferInv, [Next]_vars, NEW u \in Attempts,
         UploadStep(u) \/ ArchiverStep(u) \/ Crash(u) \/ CopyError(u) \/ ProbeFails(u) \/ ArchiveFails(u)
  PROVE  TransferInv'
<1>0. TypeOK /\ Fresh /\ Piped /\ Stored /\ Written /\ ResultTaken /\ Fetched
  BY DEF TransferInv
<1>1. UNCHANGED <<kind, size, attempt, settled, downloadVars, download>>
  BY DEF UploadStep, ArchiverStep, Crash, CopyError, ProbeFails, ArchiveFails, inputVars, downloadVars
<1>2. TypeOK' /\ (Clean' => Clean)
  BY <1>0, TypeStep, CleanBack
<1>3. Fresh' /\ Piped'
  BY <1>0, PipesMove
<1>4. Fetched'
  BY <1>0, <1>1, <1>2, FetchedStays, UndisturbedBack
<1>5. ResultTaken'
  BY <1>0, <1>1, UploadOrder DEF ResultTaken
<1>6. Stored' /\ Written'
  <2>1. CASE CopyChunk(u)
    <3>1. emptiedBy' = emptiedBy
      BY <2>1 DEF CopyChunk
    <3> QED BY <1>0, <1>1, <1>2, <2>1, <3>1, StoredCopies, WrittenCopies
  <2>2. CASE OpenFile(u)
    <3>1. content' = <<>> /\ offset[u] = 0
      BY <1>0, <2>2 DEF OpenFile, Piped, EndsAgree
    <3> QED BY <1>0, <1>1, <1>2, <2>2, <3>1, StoredStays, WrittenOpened
  <2>3. CASE ~ CopyChunk(u) /\ ~ OpenFile(u)
    <3>1. UNCHANGED <<content, emptiedBy, offset>>
      BY <2>3 DEF UploadStep, CopyEnds, CopyFails, Probe, ArchiverStep, Crash, CopyError, ProbeFails,
             ArchiveFails, fileVars
    <3>2. emptiedBy \in Attempts /\ upload'[emptiedBy] \in {"copying", "probing", "ok"}
            => upload[emptiedBy] \in {"copying", "probing", "ok"}
      BY <1>0, <2>3, UploadOrder
    <3> QED BY <1>0, <1>1, <1>2, <3>1, <3>2, StoredStays, WrittenStays
  <2> QED BY <2>1, <2>2, <2>3
<1> QED BY <1>2, <1>3, <1>4, <1>5, <1>6 DEF TransferInv

(* The consumer opens the file or reads on.                                *)
LEMMA ConsumerStep ==
  ASSUME TransferInv, [Next]_vars, Open \/ ReadChunk
  PROVE  TransferInv'
<1>0. TypeOK /\ Fresh /\ Piped /\ Stored /\ Written /\ ResultTaken /\ Fetched
  BY DEF TransferInv
<1>1. UNCHANGED <<kind, size, attempt, attemptVars, settled, content, emptiedBy, upload, offset>>
  BY DEF Open, ReadChunk, inputVars, fileVars, attemptVars
<1>2. TypeOK' /\ (Clean' => Clean)
  BY <1>0, TypeStep, CleanBack
<1>3. Fresh' /\ Piped'
  BY <1>0, <1>1, PipesStay
<1>4. Stored' /\ Written'
  BY <1>0, <1>1, <1>2, StoredStays, WrittenStays
<1>5. ResultTaken'
  BY <1>0, <1>1 DEF ResultTaken, Open, ReadChunk
<1>6. Fetched'
  <2>1. CASE Open
    BY <2>1 DEF Open, Fetched, IsPrefix
  <2>2. CASE ReadChunk
    BY <1>0, <1>2, <2>2, ReadFetches
  <2> QED BY <2>1, <2>2
<1> QED BY <1>2, <1>3, <1>4, <1>5, <1>6 DEF TransferInv

LEMMA TransferStep == TransferInv /\ [Next]_vars => TransferInv'
<1> SUFFICES ASSUME TransferInv, [Next]_vars PROVE TransferInv'
  OBVIOUS
<1>0. ResultTaken /\ TypeOK
  BY DEF TransferInv
<1>1. CASE FirstAttempt
  <2>1. attempt = 0 /\ 0 \notin Attempts
    BY <1>1 DEF FirstAttempt, Attempts
  <2>2. Launch /\ UNCHANGED <<inputVars, downloadVars>>
    BY <1>1 DEF FirstAttempt
  <2>3. settled = "none"
    BY <1>0, <2>1 DEF ResultTaken
  <2> QED BY <2>2, <2>3, LaunchStep
<1>2. ASSUME NEW u \in Attempts, AttemptFailed(u) \/ AttemptLost(u)
      PROVE  TransferInv'
  <2>1. settled = "none" /\ attempt = u /\ UNCHANGED <<inputVars, downloadVars>>
    BY <1>2 DEF AttemptFailed, AttemptLost, Awaited
  <2>2. CASE Launch
    BY <2>1, <2>2, LaunchStep
  <2>3. CASE GiveUp
    <3>1. settled' = "failed" /\ UNCHANGED <<fileVars, attempt, attemptVars>>
      BY <2>3 DEF GiveUp
    <3> QED BY <2>1, <3>1, TakeStep
  <2>4. Launch \/ GiveUp
    BY <1>2 DEF AttemptFailed, AttemptLost
  <2> QED BY <2>2, <2>3, <2>4
<1>3. ASSUME NEW u \in Attempts, AttemptSucceeded(u) PROVE TransferInv'
  <2>1. /\ settled = "none" /\ attempt = u /\ upload[u] = "ok" /\ settled' = "ok"
        /\ UNCHANGED <<inputVars, fileVars, attempt, attemptVars, downloadVars>>
    BY <1>3 DEF AttemptSucceeded, Awaited
  <2> QED BY <2>1, TakeStep
<1>4. ASSUME NEW u \in Attempts,
             UploadStep(u) \/ ArchiverStep(u) \/ Crash(u) \/ CopyError(u) \/ ProbeFails(u) \/ ArchiveFails(u)
      PROVE  TransferInv'
  BY <1>4, WorkStep
<1>5. CASE Open \/ ReadChunk
  BY <1>5, ConsumerStep
<1>6. CASE UNCHANGED vars
  BY <1>6 DEF vars, inputVars, fileVars, attemptVars, downloadVars, TransferInv, TypeOK, Fresh,
         Piped, EndsAgree, Stored, Written, ResultTaken, Fetched, Undisturbed, IsPrefix, Clean,
         SourceFailed, Stream
<1> QED BY <1>1, <1>2, <1>3, <1>4, <1>5, <1>6 DEF Next

LEMMA TransferCorrect == Spec => []TransferInv
<1>1. Init => TransferInv
  BY TransferInit
<1>2. TransferInv /\ [Next]_vars => TransferInv'
  BY TransferStep
<1> QED BY <1>1, <1>2, PTL DEF Spec
-----------------------------------------------------------------------------
(* Theorems *)

(* Every state of a transfer is well typed: the store never holds more     *)
(* than the limit, and no attempt reads beyond it (fileops.go:25).         *)
THEOREM TransferTypes == Spec => []TypeOK
<1>1. TransferInv => TypeOK
  BY DEF TransferInv
<1> QED BY <1>1, TransferCorrect, PTL

(* An attempt to upload that succeeds has stored all of its source, until  *)
(* another one empties the file: unless the extra Read has failed          *)
(* (local.go:111), or an attempt that was given up wrote the trailer of a  *)
(* failed archive.                                                         *)
THEOREM UploadsAreWhole == Spec => []UploadedIsWhole
<1>1. TransferInv => UploadedIsWhole
  <2> SUFFICES ASSUME TransferInv, NEW u \in Attempts,
                      upload[u] = "ok", emptiedBy = u, ~ readErr[u],
                      \A o \in Attempts \ {u} : ~ SourceFailed(o)
               PROVE  content = Stream
    BY DEF UploadedIsWhole
  <2>1. TypeOK /\ Piped /\ Stored /\ Written
    BY DEF TransferInv
  <2>2. archiveErr[u] = "nil"
    BY <2>1 DEF Piped, EndsAgree
  <2>3. Clean
    BY <2>2 DEF Clean, SourceFailed
  <2> QED BY <2>1, <2>3, WholeStored
<1> QED BY <1>1, TransferCorrect, PTL

(* A consumer that gets the artifact gets all of it: an archive also       *)
(* beside attempts that still write or empty it and after an upload that   *)
(* failed, unless its source failed; a file once its upload was taken for  *)
(* done, with its extra Read in order, and while no other attempt empties  *)
(* it.                                                                     *)
THEOREM DeliveriesAreWhole == Spec => []DeliveredWhole
<1>1. TransferInv => DeliveredWhole
  <2> SUFFICES ASSUME TransferInv, download = "ok", \A u \in Attempts : ~ SourceFailed(u),
                      kind = "file" => Undisturbed
               PROVE  got = Stream
    BY DEF DeliveredWhole, Undisturbed
  <2>1. IsPrefix(got) /\ Len(got) = Len(Stream)
    BY DEF TransferInv, Fetched, Clean
  <2>2. got \in Seq(Chunks) /\ Stream \in Seq(Chunks)
    BY SizeFacts DEF TransferInv, TypeOK
  <2> QED BY <2>1, <2>2 DEF IsPrefix
<1> QED BY <1>1, TransferCorrect, PTL
=============================================================================
