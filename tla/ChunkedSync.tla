---------------------------- MODULE ChunkedSync ----------------------------
(***************************************************************************)
(* The chunked sync workflow of src/datasync/chunk: list the partitions,   *)
(* read the cursor of the ProgressTracker, drop the partitions that start  *)
(* before it, keep at most MaxPerExec, then for each of them run the       *)
(* partition and advance the cursor; continue as new when partitions were  *)
(* deferred.  Several executions of one job may overlap (a schedule firing *)
(* while a manual run is open), each activity is retried by Temporal, an   *)
(* attempt that fails may have had its effect, may have had part of it, or *)
(* may have it later, and a run may be cancelled at any point.             *)
(*                                                                         *)
(* Time and keys share a scale: the record with key k exists in the source *)
(* from instant k + 1 on.  The partitioner is a parameter, as in the code. *)
(***************************************************************************)
EXTENDS Integers, Sequences, FiniteSets, FiniteSetsExt

CONSTANTS
  Executions,     \* workflow executions of the job that may be open at once
  Partitions(_),  \* what the Partitioner lists at an instant
  HasTracker,     \* WithTracker was called
  MaxPerExec,     \* MaxPartitionsPerExecution, 0 when unset
  MaxAttempts,    \* RetryPolicy.MaximumAttempts
  MaxNow,         \* bound: the last instant of the clock
  MaxFaults       \* bound: failed attempts, cancellations and resets

Partition == [start : Int, end : Int]

(* The contract of a Partitioner: a list of non-empty ranges in order. *)
IsPartitionList(L) ==
  /\ L \in Seq(Partition)
  /\ \A i \in DOMAIN L : L[i].start < L[i].end
  /\ \A i, j \in DOMAIN L : i < j => L[i].end <= L[j].start

Instants == 0 .. MaxNow

ASSUME BoundsAssumption ==
  /\ MaxNow \in Nat
  /\ MaxAttempts \in Nat \ {0}
  /\ MaxFaults \in Nat

ASSUME PartitionerAssumption == \A n \in Instants : IsPartitionList(Partitions(n))

(* buildValidate: MaxPartitionsPerExecution needs a tracker. *)
ASSUME BuildAssumption ==
  /\ HasTracker \in BOOLEAN
  /\ MaxPerExec \in Nat
  /\ MaxPerExec > 0 => HasTracker

VARIABLES
  now,       \* the instant
  sink,      \* keys of the records the sink holds
  cursor,    \* the tracker's row: [exists, at]
  late,      \* values of Advance calls that timed out and may still land
  acked,     \* ghost: ends of the partitions whose Advance was acknowledged
  pc,        \* what each execution waits for
  parts,     \* the list its Partitions activity returned
  todo,      \* indices of parts it has still to run
  deferred,  \* the list was truncated: continue as new at the end
  attempt,   \* failed attempts of the activity it waits for
  faults     \* failed attempts, cancellations and resets so far

runVars == <<pc, parts, todo, deferred, attempt>>

vars == <<now, sink, cursor, late, acked, runVars, faults>>

NoCursor == [exists |-> FALSE, at |-> 0]

RunTypeOK ==
  /\ pc \in [Executions -> {"none", "list", "cursor", "run", "advance"}]
  /\ parts \in [Executions -> Seq(Partition)]
  /\ todo \in [Executions -> SUBSET Nat]
  /\ \A e \in Executions :
       /\ todo[e] \subseteq DOMAIN parts[e]
       /\ pc[e] \in {"run", "advance"} <=> todo[e] # {}
  /\ deferred \in [Executions -> BOOLEAN]
  /\ attempt \in [Executions -> 0 .. MaxAttempts - 1]

TypeOK ==
  /\ now \in Instants
  /\ sink \subseteq Int
  /\ cursor \in [exists : BOOLEAN, at : Int]
  /\ late \subseteq Int
  /\ acked \subseteq Int
  /\ RunTypeOK
  /\ faults \in Nat

-----------------------------------------------------------------------------
(* Helpers *)

Keys(p) == p.start .. (p.end - 1)

Current(e) == parts[e][Min(todo[e])]

(* The fetcher returns the records that exist in [start, end). *)
Fetch(p) == {k \in Keys(p) : k < now}

(* ON CONFLICT DO UPDATE SET cursor_at = GREATEST(...). *)
Overwrite(c) == c

Greatest(c) == IF cursor.exists /\ cursor.at > c THEN cursor.at ELSE c

Recorded(c) == [exists |-> TRUE, at |-> Greatest(c)]

(* Partitions left by the cursor filter, as indices of the list. *)
KeptIgnoringCursor(L) == DOMAIN L

KeptInclusive(L) ==
  IF cursor.exists THEN {i \in DOMAIN L : L[i].end >= cursor.at} ELSE DOMAIN L

KeptFromEnd(L) ==
  IF cursor.exists THEN {i \in DOMAIN L : L[i].start > cursor.at} ELSE DOMAIN L

Kept(L) ==
  IF cursor.exists THEN {i \in DOMAIN L : L[i].start >= cursor.at} ELSE DOMAIN L

(* parts[:maxPerExec] when the budget is set and exceeded. *)
TruncatedTail(K) ==
  IF MaxPerExec > 0
    THEN {i \in K : Cardinality({j \in K : j > i}) < MaxPerExec}
    ELSE K

Truncated(K) ==
  IF MaxPerExec > 0
    THEN {i \in K : Cardinality({j \in K : j < i}) < MaxPerExec}
    ELSE K

(* Leave execution e with pc at next, its list L and the indices S of it. *)
Resume(e, next, L, S, more) ==
  /\ pc' = [pc EXCEPT ![e] = next]
  /\ parts' = [parts EXCEPT ![e] = L]
  /\ todo' = [todo EXCEPT ![e] = S]
  /\ deferred' = [deferred EXCEPT ![e] = more]
  /\ attempt' = [attempt EXCEPT ![e] = 0]

Close(e) == Resume(e, "none", <<>>, {}, FALSE)

ContinueAsNew(e) == Resume(e, "list", <<>>, {}, FALSE)

(* The partitions to run are known: truncate and start, or return at once. *)
Begin(e, L, K) ==
  IF K = {} THEN Close(e)
            ELSE Resume(e, "run", L, Truncated(K), Truncated(K) # K)

(* The current partition is complete: the next one, ContinueAsNew or done. *)
Proceed(e) ==
  LET rest == todo[e] \ {Min(todo[e])}
  IN  CASE rest # {}                  -> Resume(e, "run", parts[e], rest, deferred[e])
        [] rest = {} /\ deferred[e]   -> ContinueAsNew(e)
        [] rest = {} /\ ~ deferred[e] -> Close(e)
-----------------------------------------------------------------------------
(* Actions *)

Init ==
  /\ now \in Instants
  /\ sink = {}
  /\ cursor = NoCursor
  /\ late = {}
  /\ acked = {}
  /\ pc = [e \in Executions |-> "none"]
  /\ parts = [e \in Executions |-> <<>>]
  /\ todo = [e \in Executions |-> {}]
  /\ deferred = [e \in Executions |-> FALSE]
  /\ attempt = [e \in Executions |-> 0]
  /\ faults = 0

Tick ==
  /\ now < MaxNow
  /\ now' = now + 1
  /\ UNCHANGED <<sink, cursor, late, acked, runVars, faults>>

(* The schedule fires, or a caller executes the job. *)
Start(e) ==
  /\ pc[e] = "none"
  /\ Resume(e, "list", <<>>, {}, FALSE)
  /\ UNCHANGED <<now, sink, cursor, late, acked, faults>>

ListPartitions(e) ==
  /\ pc[e] = "list"
  /\ LET L == Partitions(now)
     IN  IF HasTracker /\ L # <<>>
           THEN Resume(e, "cursor", L, {}, FALSE)
           ELSE Begin(e, L, DOMAIN L)
  /\ UNCHANGED <<now, sink, cursor, late, acked, faults>>

ReadCursor(e) ==
  /\ pc[e] = "cursor"
  /\ Begin(e, parts[e], Kept(parts[e]))
  /\ UNCHANGED <<now, sink, cursor, late, acked, faults>>

RunPartition(e) ==
  /\ pc[e] = "run"
  /\ sink' = sink \cup Fetch(Current(e))
  /\ IF HasTracker
       THEN Resume(e, "advance", parts[e], todo[e], deferred[e])
       ELSE Proceed(e)
  /\ UNCHANGED <<now, cursor, late, acked, faults>>

AdvanceCursor(e) ==
  /\ pc[e] = "advance"
  /\ cursor' = Recorded(Current(e).end)
  /\ acked' = acked \cup {Current(e).end}
  /\ Proceed(e)
  /\ UNCHANGED <<now, sink, late, faults>>

(* What an attempt that is not acknowledged may leave behind: any part of  *)
(* the write, or an Advance call that is still on its way.                 *)
Leftovers(e) ==
  /\ \/ /\ pc[e] = "run"
        /\ \E S \in SUBSET Fetch(Current(e)) : sink' = sink \cup S
     \/ pc[e] # "run" /\ UNCHANGED sink
  /\ \/ pc[e] = "advance" /\ late' = late \cup {Current(e).end}
     \/ UNCHANGED late

RetryableOnceMore(e) == attempt[e] < MaxAttempts

Retryable(e) == attempt[e] + 1 < MaxAttempts

(* An attempt fails or times out: Temporal retries it, or the error is     *)
(* returned and the run ends.                                              *)
AttemptFails(e) ==
  /\ pc[e] # "none"
  /\ faults < MaxFaults
  /\ faults' = faults + 1
  /\ Leftovers(e)
  /\ IF Retryable(e)
       THEN /\ attempt' = [attempt EXCEPT ![e] = @ + 1]
            /\ UNCHANGED <<pc, parts, todo, deferred>>
       ELSE Close(e)
  /\ UNCHANGED <<now, cursor, acked>>

(* The run is cancelled or terminated while it waits. *)
Cancel(e) ==
  /\ pc[e] # "none"
  /\ faults < MaxFaults
  /\ faults' = faults + 1
  /\ Leftovers(e)
  /\ Close(e)
  /\ UNCHANGED <<now, cursor, acked>>

(* An Advance call whose attempt timed out reaches the database. *)
LateAdvance ==
  \E c \in late :
    /\ cursor' = Recorded(c)
    /\ late' = late \ {c}
    /\ UNCHANGED <<now, sink, acked, runVars, faults>>

(* TimeTracker.Reset, an operator's recovery step. *)
Reset ==
  /\ cursor.exists
  /\ faults < MaxFaults
  /\ faults' = faults + 1
  /\ cursor' = NoCursor
  /\ acked' = {}
  /\ UNCHANGED <<now, sink, late, runVars>>

Step(e) ==
  \/ ListPartitions(e)
  \/ ReadCursor(e)
  \/ RunPartition(e)
  \/ AdvanceCursor(e)

Next ==
  \/ Tick
  \/ LateAdvance
  \/ Reset
  \/ \E e \in Executions : Start(e) \/ Step(e) \/ AttemptFails(e) \/ Cancel(e)

(* Time passes, the schedule keeps firing and workers poll their queues.   *)
Fairness ==
  /\ WF_vars(Tick)
  /\ \A e \in Executions : WF_vars(Start(e)) /\ WF_vars(Step(e))

Spec == Init /\ [][Next]_vars

FairSpec == Spec /\ Fairness
-----------------------------------------------------------------------------
(* Properties *)

Synced(p) == Keys(p) \subseteq sink

(* The keys S hold every partition listed from n on that ends by k. *)
CoveredIn(k, n, S) ==
  \A m \in n .. MaxNow :
    \A i \in DOMAIN Partitions(m) :
      Partitions(m)[i].end <= k => Keys(Partitions(m)[i]) \subseteq S

Covered(k) == CoveredIn(k, now, sink)

(* Advance "records that all partitions ending at completed (inclusive)    *)
(* have been successfully processed" (tracker.go:19): whatever the         *)
(* partitioner still lists behind the cursor is in the sink, although runs *)
(* overlap, fail half-way and resume from a cursor another run wrote.      *)
CursorCovered == cursor.exists => Covered(cursor.at)

(* An acknowledged Advance is never lost to an overlapping run or to an    *)
(* Advance call that lands late: until a Reset the cursor stays at or      *)
(* beyond every acknowledged end (pgtracker/tracker.go:105-111).           *)
AckedProgress == \A c \in acked : cursor.exists /\ cursor.at >= c

(* A run that has read the cursor never schedules a partition whose end    *)
(* was acknowledged before: processed partitions are skipped by the next   *)
(* execution, and a continued run resumes after the last one it advanced.  *)
ProcessedSkipped ==
  [][\A e \in Executions : pc[e] = "cursor" =>
       \A i \in todo'[e] : parts[e][i].end \notin acked]_vars

StillListed(p) ==
  \E m \in now .. MaxNow : \E i \in DOMAIN Partitions(m) : Partitions(m)[i] = p

(* When a run ends without an error and defers nothing, every partition it *)
(* listed is in the sink: those it ran, and those it skipped because of    *)
(* the cursor unless they have slid out of the window since.               *)
CompletedRunSynced ==
  [][\A e \in Executions :
       pc[e] \in {"run", "advance"} /\ pc'[e] = "none" /\ faults' = faults =>
         \A i \in DOMAIN parts[e] :
           (HasTracker => StillListed(parts[e][i])) =>
             Keys(parts[e][i]) \subseteq sink']_vars

(* ContinueAsNew makes progress: a chain of runs ends.                     *)
ChainEnds == \A e \in Executions : pc[e] = "list" ~> pc[e] = "none"

(* Everything the partitioner lists at the end is delivered eventually,    *)
(* whatever failures happened on the way.                                  *)
EventuallySynced ==
  \A i \in DOMAIN Partitions(MaxNow) : <>Synced(Partitions(MaxNow)[i])

(* The workflow implements the promise of SyncLedger.                      *)
Ledger == INSTANCE SyncLedger

LedgerSpec == Ledger!Spec
=============================================================================
