------------------------------ MODULE TaskBatch ------------------------------
(***************************************************************************)
(* The orchestrations of src/workflow over a list of independent tasks:    *)
(* PipelineWorkflow and the sequential loops launch a task when the result *)
(* of the one before is collected, ParallelWorkflow and the parallel loops *)
(* launch them all and collect the results in the order of the list, while *)
(* the activities end in any order.                                        *)
(***************************************************************************)
EXTENDS Integers, Sequences, FiniteSets

CONSTANT Count   \* number of tasks, items or combinations

ASSUME CountAssumption == Count \in Nat \ {0}

Tasks == 1 .. Count

Failures == {"error", "failure"}   \* the activity's error, IsSuccess() false

Outcomes == Failures \cup {"ok"}

VARIABLES
  parallel,   \* input: ParallelWorkflow, or a loop with Parallel
  stopOnFail, \* input: StopOnError, or FailureStrategy fail_fast
  task,       \* each activity: new, running, or its outcome
  results,    \* output.Results, as outcomes
  totals,     \* TotalSuccess, TotalFailed
  returned    \* "none", or how the workflow function returned

vars == <<parallel, stopOnFail, task, results, totals, returned>>

TypeOK ==
  /\ parallel \in BOOLEAN
  /\ stopOnFail \in BOOLEAN
  /\ task \in [Tasks -> {"new", "running"} \cup Outcomes]
  /\ results \in Seq(Outcomes)
  /\ Len(results) <= Count
  /\ totals \in [success : 0 .. Count, failed : 0 .. Count]
  /\ returned \in {"none", "ok", "error"}

Launched == {i \in Tasks : task[i] # "new"}

Collected == Len(results)
-----------------------------------------------------------------------------
Init ==
  /\ parallel \in BOOLEAN
  /\ stopOnFail \in BOOLEAN
  /\ task = [i \in Tasks |-> "new"]
  /\ results = <<>>
  /\ totals = [success |-> 0, failed |-> 0]
  /\ returned = "none"

(* The futures loop. *)
LaunchAll ==
  /\ parallel
  /\ Launched = {}
  /\ task' = [i \in Tasks |-> "running"]
  /\ UNCHANGED <<parallel, stopOnFail, results, totals, returned>>

(* The sequential loops execute one activity and wait for it. *)
LaunchNext ==
  /\ ~ parallel
  /\ returned = "none"
  /\ Collected < Count
  /\ Cardinality(Launched) = Collected
  /\ task' = [task EXCEPT ![Collected + 1] = "running"]
  /\ UNCHANGED <<parallel, stopOnFail, results, totals, returned>>

(* An activity ends; it may do so after the workflow has returned. *)
TaskEnds(i, o) ==
  /\ task[i] = "running"
  /\ task' = [task EXCEPT ![i] = o]
  /\ UNCHANGED <<parallel, stopOnFail, results, totals, returned>>

(* Results are appended in the order of the futures. *)
NextSuccess == {i \in Tasks : i = Collected + 1 /\ task[i] = "ok"}

NextFuture == {i \in Tasks : i = Collected + 1 /\ task[i] \in Outcomes}

Totals(o) ==
  IF o = "ok" THEN [totals EXCEPT !.success = @ + 1]
              ELSE [totals EXCEPT !.failed = @ + 1]

NeverStops(o) == FALSE

Stops(o) == stopOnFail /\ o \in Failures

(* future.Get returns: append, count, and stop or return at the end.       *)
Collect ==
  /\ returned = "none"
  /\ \E i \in NextFuture :
       /\ results' = Append(results, task[i])
       /\ totals' = Totals(task[i])
       /\ returned' = CASE Stops(task[i])                          -> "error"
                        [] ~ Stops(task[i]) /\ Collected + 1 = Count -> "ok"
                        [] ~ Stops(task[i]) /\ Collected + 1 < Count -> "none"
  /\ UNCHANGED <<parallel, stopOnFail, task>>

Next ==
  \/ LaunchAll
  \/ LaunchNext
  \/ \E i \in Tasks, o \in Outcomes : TaskEnds(i, o)
  \/ Collect

Spec == Init /\ [][Next]_vars

(* Workflow tasks are processed, and an activity ends or times out.        *)
Fairness ==
  /\ WF_vars(LaunchAll \/ LaunchNext \/ Collect)
  /\ \A i \in Tasks : WF_vars(\E o \in Outcomes : TaskEnds(i, o))
-----------------------------------------------------------------------------
(* Results[i] is the result of Tasks[i] whatever the order in which the    *)
(* activities end, and the totals count exactly the results collected.     *)
ResultsInOrder ==
  /\ \A i \in 1 .. Collected : results[i] = task[i]
  /\ totals.success = Cardinality({i \in 1 .. Collected : results[i] = "ok"})
  /\ totals.failed = Cardinality({i \in 1 .. Collected : results[i] # "ok"})

(* The workflow returns an error exactly when it stopped at a failure, and *)
(* otherwise only when every task has ended and is accounted for, with     *)
(* results and totals that are those of the tasks.                         *)
ReturnJustified ==
  /\ ResultsInOrder
  /\ returned = "ok" => Collected = Count /\ (stopOnFail => totals.failed = 0)
  /\ returned = "error" => stopOnFail /\ results[Collected] \in Failures

(* The workflow returns, whatever fails. *)
Returns == <>(returned # "none")
=============================================================================
