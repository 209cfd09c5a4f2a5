----------------------------- MODULE InsertSink -----------------------------
(***************************************************************************)
(* The sync workflow of src/datasync/workflow writing through the          *)
(* InsertIfAbsentSink of src/datasync: for each record, find it by its ID, *)
(* skip it when it exists, create it otherwise.  Two runs of a job may     *)
(* overlap, and an attempt that timed out may still be running while       *)
(* Temporal retries it, so the writers are the attempts.                   *)
(*                                                                         *)
(* FindFunc and CreateFunc come from the caller; unique says whether       *)
(* CreateFunc refuses a record whose ID exists.                            *)
(***************************************************************************)
EXTENDS Integers, FiniteSets, Functions

CONSTANTS
  Runs,          \* workflow executions of the job
  Count,         \* records in the batch the source returns
  MaxAttempts,   \* RetryPolicy.MaximumAttempts
  MaxErrors,     \* bound: failed calls and worker crashes
  MaxTimeouts    \* bound: timeouts of attempts that go on running

Records == 1 .. Count

Writers == Runs \X (1 .. MaxAttempts)

ASSUME BoundsAssumption ==
  /\ IsFiniteSet(Runs)
  /\ Count \in Nat \ {0}
  /\ MaxAttempts \in Nat \ {0}
  /\ MaxErrors \in Nat
  /\ MaxTimeouts \in Nat

VARIABLES
  unique,    \* CreateFunc fails for an ID that exists
  rows,      \* how many rows the sink holds for each record
  pc,        \* each writer: idle, or the call it is at, or ended
  at,        \* the record it is at
  result,    \* its WriteResult
  attempt,   \* the attempt each run waits for, 0 before it starts
  outcome,   \* how the run ended
  errors,
  timeouts

writerVars == <<pc, at, result>>

vars == <<unique, rows, writerVars, attempt, outcome, errors, timeouts>>

NoResult == [inserted |-> 0, skipped |-> 0]

TypeOK ==
  /\ unique \in BOOLEAN
  /\ rows \in [Records -> Nat]
  /\ pc \in [Writers -> {"idle", "find", "create", "ended"}]
  /\ at \in [Writers -> 1 .. (Count + 1)]
  /\ \A w \in Writers : pc[w] \in {"find", "create"} => at[w] \in Records
  /\ result \in [Writers -> [inserted : 0 .. Count, skipped : 0 .. Count]]
  /\ attempt \in [Runs -> 0 .. MaxAttempts]
  /\ outcome \in [Runs -> {"none", "running", "ok", "failed"}]
  /\ errors \in 0 .. MaxErrors
  /\ timeouts \in 0 .. MaxTimeouts

(* The writer's attempt is the one the run waits for. *)
Awaited(w) == outcome[w[1]] = "running" /\ attempt[w[1]] = w[2]

Init ==
  /\ unique \in BOOLEAN
  /\ rows = [k \in Records |-> 0]
  /\ pc = [w \in Writers |-> "idle"]
  /\ at = [w \in Writers |-> 1]
  /\ result = [w \in Writers |-> NoResult]
  /\ attempt = [r \in Runs |-> 0]
  /\ outcome = [r \in Runs |-> "none"]
  /\ errors = 0
  /\ timeouts = 0

-----------------------------------------------------------------------------
(* Run r waits for its next attempt, or fails when it had them all; writer *)
(* states are f with that attempt started.                                 *)
Retry(r, f) ==
  IF attempt[r] < MaxAttempts
    THEN /\ attempt' = [attempt EXCEPT ![r] = @ + 1]
         /\ pc' = [f EXCEPT ![<<r, attempt[r] + 1>>] = "find"]
         /\ UNCHANGED outcome
    ELSE /\ outcome' = [outcome EXCEPT ![r] = "failed"]
         /\ pc' = f
         /\ UNCHANGED attempt

Start(r) ==
  /\ outcome[r] = "none"
  /\ outcome' = [outcome EXCEPT ![r] = "running"]
  /\ attempt' = [attempt EXCEPT ![r] = 1]
  /\ pc' = [pc EXCEPT ![<<r, 1>>] = "find"]
  /\ UNCHANGED <<unique, rows, at, result, errors, timeouts>>

(* Writer w is through with its record: the next one, or return its result.*)
NextRecordStopsShort(w) ==
  /\ at' = [at EXCEPT ![w] = @ + 1]
  /\ pc' = [pc EXCEPT ![w] = IF at[w] + 1 < Count THEN "find" ELSE "ended"]
  /\ UNCHANGED <<attempt, outcome>>

NextRecord(w) ==
  /\ at' = [at EXCEPT ![w] = @ + 1]
  /\ pc' = [pc EXCEPT ![w] = IF at[w] < Count THEN "find" ELSE "ended"]
  /\ outcome' =
       IF at[w] = Count /\ Awaited(w)
         THEN [outcome EXCEPT ![w[1]] = "ok"] ELSE outcome
  /\ UNCHANGED attempt

FindNothing(w) ==
  /\ pc[w] = "find"
  /\ pc' = [pc EXCEPT ![w] = "create"]
  /\ UNCHANGED <<unique, rows, at, result, attempt, outcome, errors, timeouts>>

Find(w) ==
  /\ pc[w] = "find"
  /\ IF rows[at[w]] > 0
       THEN /\ result' = [result EXCEPT ![w].skipped = @ + 1]
            /\ NextRecord(w)
       ELSE /\ pc' = [pc EXCEPT ![w] = "create"]
            /\ UNCHANGED <<at, result, attempt, outcome>>
  /\ UNCHANGED <<unique, rows, errors, timeouts>>

(* The attempt of w ends with an error; only the awaited one is noticed. *)
FailsWithoutRetry(w) ==
  /\ pc' = [pc EXCEPT ![w] = "ended"]
  /\ outcome' = IF Awaited(w) THEN [outcome EXCEPT ![w[1]] = "ok"] ELSE outcome
  /\ UNCHANGED attempt

Fails(w) ==
  LET ended == [pc EXCEPT ![w] = "ended"]
  IN  IF Awaited(w) THEN Retry(w[1], ended)
                    ELSE pc' = ended /\ UNCHANGED <<attempt, outcome>>

Refused(k) == unique /\ rows[k] > 0

Create(w) ==
  /\ pc[w] = "create"
  /\ IF Refused(at[w])
       THEN Fails(w) /\ UNCHANGED <<rows, at, result>>
       ELSE /\ rows' = [rows EXCEPT ![at[w]] = @ + 1]
            /\ result' = [result EXCEPT ![w].inserted = @ + 1]
            /\ NextRecord(w)
  /\ UNCHANGED <<unique, errors, timeouts>>

(* A call returns an error, or the worker dies: a create may have had its  *)
(* effect.                                                                 *)
CallFails(w) ==
  /\ pc[w] \in {"find", "create"}
  /\ errors < MaxErrors
  /\ errors' = errors + 1
  /\ Fails(w)
  /\ \/ UNCHANGED rows
     \/ /\ pc[w] = "create"
        /\ ~ Refused(at[w])
        /\ rows' = [rows EXCEPT ![at[w]] = @ + 1]
  /\ UNCHANGED <<unique, at, result, timeouts>>

(* The activity or its heartbeat times out while the attempt goes on.      *)
Timeout(r) ==
  /\ outcome[r] = "running"
  /\ timeouts < MaxTimeouts
  /\ timeouts' = timeouts + 1
  /\ Retry(r, pc)
  /\ UNCHANGED <<unique, rows, at, result, errors>>

Next ==
  \/ \E r \in Runs : Start(r) \/ Timeout(r)
  \/ \E w \in Writers : Find(w) \/ Create(w) \/ CallFails(w)

Spec == Init /\ [][Next]_vars

(* Runs are started and an attempt goes on to its end. *)
FairSpec ==
  /\ Spec
  /\ \A r \in Runs : WF_vars(Start(r))
  /\ \A w \in Writers : WF_vars(Find(w) \/ Create(w))
-----------------------------------------------------------------------------
Reported(r) == result[<<r, attempt[r]>>]

OneWriter ==
  /\ timeouts = 0
  /\ \A r, q \in Runs : attempt[r] > 0 /\ attempt[q] > 0 => r = q

(* "An idempotent write pattern" (docs/datasync-workflows.md:114): however *)
(* often an attempt fails half-way and is retried, no record is created    *)
(* twice, as long as one attempt is at work at a time or CreateFunc        *)
(* refuses duplicates.  Find and create are two calls, so that a timed out *)
(* attempt and its retry, or two runs, do create a record twice otherwise. *)
NoDuplicates == unique \/ OneWriter => \A k \in Records : rows[k] <= 1

Succeeded == {r \in Runs : outcome[r] = "ok"}

(* A run that succeeds leaves every record of its batch in the sink, and   *)
(* its result accounts for each of them once.                              *)
SuccessCovers ==
  \A r \in Succeeded :
    /\ \A k \in Records : rows[k] > 0
    /\ Reported(r).inserted + Reported(r).skipped = Count

(* Besides, no row is reported as inserted twice: the successful runs      *)
(* claim at most the rows there are.                                       *)
SuccessIsComplete ==
  /\ SuccessCovers
  /\ SumFunction([r \in Succeeded |-> Reported(r).inserted]) <= SumFunction(rows)

(* Without faults the conflicts between overlapping runs, each of which    *)
(* costs one of them an attempt, never make every run fail.                *)
SomeRunSucceeds ==
  <>(errors + timeouts > 0 \/ \E r \in Runs : outcome[r] = "ok")
=============================================================================
