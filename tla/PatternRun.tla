------------------------------ MODULE PatternRun ------------------------------
(***************************************************************************)
(* The ready-made workflows of src/container/patterns and                  *)
(* src/function/patterns, run: the input a pattern returns decides how     *)
(* many tasks TaskBatch has, whether they run at once and what a failure   *)
(* stops.                                                                  *)
(***************************************************************************)
EXTENDS Patterns, FunctionPatterns

CONSTANTS
  PatternInputs,   \* [name, input]: calls of the patterns
  Lists,           \* lists of names that the patterns are called with
  MaxTasks         \* bound: tasks of an input

(* The patterns whose tasks are stages of one process, and what they return *)
(* for the lists.                                                          *)
StagedCalls ==
  [BuildTestDeploy                 |-> {BuildTestDeploy},
   BuildTestDeployWithHealthCheck  |-> {BuildTestDeployWithHealthCheck},
   BuildTestDeployWithNotification |-> {BuildTestDeployWithNotification},
   MultiEnvironmentDeploy          |-> {MultiEnvironmentDeploy(l) : l \in Lists},
   MapReduce                       |-> {MapReduce(l) : l \in Lists},
   SequentialLoop                  |-> {SequentialLoop(l) : l \in Lists},
   ETLPipeline                     |-> {ETLPipeline},
   ValidateTransformNotify         |-> {ValidateTransformNotify},
   DeployEnvironments              |-> {DeployEnvironments(l) : l \in Lists},
   SequentialMigration             |-> {SequentialMigration(l) : l \in Lists}]

Staged == DOMAIN StagedCalls

(* A call by the name of a staged pattern is a call of that pattern.       *)
ASSUME CallsAssumption ==
  /\ Lists \subseteq Seq(STRING)
  /\ \A p \in PatternInputs : p.name \in Staged => p.input \in StagedCalls[p.name]
  /\ MaxTasks \in Nat

VARIABLES
  pattern,      \* the call that is run
  parallel, stopOnFail, task, results, totals, returned

batchVars == <<parallel, stopOnFail, task, results, totals, returned>>

Batch(n) == INSTANCE TaskBatch WITH Count <- n

RunsAtOnce(i) ==
  CASE i.type = "parallel"                      -> TRUE
    [] i.type = "pipeline"                      -> FALSE
    [] i.type \in {"loop", "parameterizedLoop"} -> i.parallel

StopsOnFailure(i) ==
  IF i.type = "pipeline" THEN i.stopOnError ELSE i.strategy = "fail_fast"

TaskCount(i) ==
  CASE i.type \in {"pipeline", "parallel"} -> Len(i.tasks)
    [] i.type = "loop"                     -> Len(i.items)
    [] i.type = "parameterizedLoop"        ->
         FoldFunction(LAMBDA values, n : Len(values) * n, 1, i.parameters)

PatternInit ==
  /\ pattern \in PatternInputs
  /\ parallel = RunsAtOnce(pattern.input)
  /\ stopOnFail = StopsOnFailure(pattern.input)
  /\ \E n \in 1 .. MaxTasks : n = TaskCount(pattern.input) /\ Batch(n)!Init

NoPattern ==
  /\ pattern = [name |-> "none", input |-> Failed]
  /\ parallel = FALSE
  /\ stopOnFail = FALSE
  /\ task = <<>>
  /\ results = <<>>
  /\ totals = [success |-> 0, failed |-> 0]
  /\ returned = "none"

PatternNext ==
  /\ pattern.input # Failed
  /\ \E n \in 1 .. MaxTasks : n = TaskCount(pattern.input) /\ Batch(n)!Next
  /\ UNCHANGED pattern

PatternSpec == PatternInit /\ [][PatternNext]_<<pattern, batchVars>>
-----------------------------------------------------------------------------
(* A stage of a staged pattern starts only when every stage before it has  *)
(* succeeded: nothing is deployed that was not tested, no health check     *)
(* precedes its deployment, no environment follows a failed one, nothing   *)
(* is reduced before it is mapped, no migration runs on a failed one.      *)
StagesGated ==
  pattern.name \in Staged =>
    \A i, k \in DOMAIN task : i < k /\ task[k] # "new" => task[i] = "ok"
=============================================================================
