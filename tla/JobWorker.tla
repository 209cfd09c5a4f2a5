------------------------------ MODULE JobWorker ------------------------------
(***************************************************************************)
(* From a job's definition to its activity: definitions register their     *)
(* workflows and activities on workers, a worker answers for what is in    *)
(* its tables, and the workflow's activity is run by any worker of the     *)
(* queue.  A workflow type or an activity that a worker has is not         *)
(* registered again (job.RegisterWorkflowOnce), so that of two packages    *)
(* with the same workflow type, and of two function jobs with an activity  *)
(* each, the first one on the worker wins.                                 *)
(*                                                                         *)
(* The activity of a function job stands for the Registry it dispatches    *)
(* to; handlers may be added while the workers run.                        *)
(***************************************************************************)
EXTENDS Naturals, FiniteSets

CONSTANTS
  Jobs,          \* definitions: [package, type, activity, queue, function]
  Workers,
  QueueOf,       \* [Workers -> queue]
  Registries,    \* the activities of the function jobs
  HandlerNames,
  MaxCrashes     \* bound: lost attempts

VARIABLES
  workflows,     \* each worker's [workflow type -> package]
  activities,    \* each worker's [activity name -> implementation]
  registered,    \* the jobs each worker had registered
  handlers,      \* the names each registry holds
  job,           \* the job that is executed; executions share no state
  execution,
  crashes

workerVars == <<workflows, activities, registered, handlers, job, execution, crashes>>

MaxAttempts == 3

Types(package) ==
  CASE package = "container" ->
         {"ExecuteContainerWorkflow", "ContainerPipelineWorkflow",
          "ParallelContainersWorkflow", "LoopWorkflow", "ParameterizedLoopWorkflow",
          "DAGWorkflow", "WorkflowWithParameters"}
    [] package = "function" ->
         {"ExecuteFunctionWorkflow", "FunctionPipelineWorkflow",
          "ParallelFunctionsWorkflow", "LoopWorkflow", "ParameterizedLoopWorkflow",
          "InstrumentedDAGWorkflow"}

ActivityName(package) ==
  IF package = "container" THEN "StartContainerActivity" ELSE "ExecuteFunctionActivity"

AllTypes == Types("container") \cup Types("function")

NotRegistered == "none"

ASSUME JobsAssumption ==
  \A j \in Jobs :
    /\ j.package \in {"container", "function"}
    /\ j.type \in Types(j.package)
    /\ j.activity # NotRegistered

WorkerInit ==
  /\ workflows = [w \in Workers |-> [t \in AllTypes |-> NotRegistered]]
  /\ activities = [w \in Workers |->
                     [a \in {ActivityName("container"), ActivityName("function")} |-> NotRegistered]]
  /\ registered = [w \in Workers |-> {}]
  /\ handlers = [r \in Registries |-> {}]
  /\ job \in Jobs
  /\ execution = [package |-> NotRegistered, attempts |-> 0, calls |-> 0, outcome |-> "new",
                  ran |-> NotRegistered, equipped |-> FALSE]
  /\ crashes = 0

-----------------------------------------------------------------------------
(* RegisterWorkflowOnce and RegisterActivityOnce: the first entry stays.   *)
Once(table, names, entry) ==
  [n \in DOMAIN table |->
     IF n \in names /\ table[n] = NotRegistered THEN entry ELSE table[n]]

RegisterWorkflows(w, package) ==
  workflows' = [workflows EXCEPT ![w] = Once(@, Types(package), package)]

RegisterActivity(w, package, implementation) ==
  activities' = [activities EXCEPT ![w] = Once(@, {ActivityName(package)}, implementation)]

RegisterWorkflowsOnly(w, j) ==
  /\ RegisterWorkflows(w, j.package)
  /\ UNCHANGED activities

RegisterAll(w, j) ==
  /\ RegisterWorkflows(w, j.package)
  /\ RegisterActivity(w, j.package, j.activity)

Register(w, j) ==
  /\ registered' = [registered EXCEPT ![w] = @ \cup {j}]
  /\ RegisterAll(w, j)
  /\ UNCHANGED <<handlers, job, execution, crashes>>

(* Registry.Register refuses a name it has. *)
RegisterHandler(r, name) ==
  /\ name \notin handlers[r]
  /\ handlers' = [handlers EXCEPT ![r] = @ \cup {name}]
  /\ UNCHANGED <<workflows, activities, registered, job, execution, crashes>>

(* Get: the registry knows the name, or the attempt fails.                 *)
Knows(implementation) ==
  implementation \in Registries => job.function \in handlers[implementation]

Colleagues == {w \in Workers : QueueOf[w] = job.queue}

tables == <<workflows, activities, registered, handlers, job>>

(* equipped remembers that every worker had the job and its handler.       *)
Execute ==
  /\ execution.outcome = "new"
  /\ execution' = [execution EXCEPT
       !.outcome = "open",
       !.equipped = Knows(job.activity) /\ \A w \in Colleagues : job \in registered[w]]
  /\ UNCHANGED <<tables, crashes>>

(* The first workflow task, taken by a worker that knows the type.  One    *)
(* that does not fails the task, which Temporal offers again.  Another     *)
(* package's loop finds no image, or no function it knows, in the input.   *)
WorkflowTask(w) ==
  LET package == workflows[w][job.type]
  IN  /\ execution.outcome = "open"
      /\ execution.package = NotRegistered
      /\ w \in Colleagues
      /\ package # NotRegistered
      /\ execution' = [execution EXCEPT
           !.package = package,
           !.outcome = IF package = job.package THEN @ ELSE "failed"]
      /\ UNCHANGED <<tables, crashes>>

(* An attempt ends with an error and is retried, or was the last one. *)
Attempted(e) ==
  [e EXCEPT !.attempts = @ + 1,
            !.outcome = IF e.attempts + 1 = MaxAttempts THEN "failed" ELSE @]

Called(implementation) == [execution EXCEPT !.calls = @ + 1, !.ran = implementation]

(* The handler's error is retried. *)
HandledRetrying(implementation, success) ==
  IF success THEN [Called(implementation) EXCEPT !.outcome = "succeeded"]
             ELSE Attempted(Called(implementation))

(* The handler's error, or its panic, is the result: Success is false.     *)
Handled(implementation, success) ==
  [Called(implementation) EXCEPT !.outcome = IF success THEN "succeeded" ELSE "failed"]

Implementation(w) == activities[w][ActivityName(execution.package)]

Takes(w) ==
  /\ execution.outcome = "open"
  /\ execution.package # NotRegistered
  /\ w \in Colleagues

Callable(w) == Implementation(w) # NotRegistered /\ Knows(Implementation(w))

(* NewExecuteFunctionActivity; a container's activity likewise returns the *)
(* exit code as a result.                                                  *)
ActivityTask(w) ==
  /\ Takes(w)
  /\ \/ ~ Callable(w) /\ execution' = Attempted(execution)
     \/ /\ Callable(w)
        /\ \E success \in BOOLEAN : execution' = Handled(Implementation(w), success)
  /\ UNCHANGED <<tables, crashes>>

(* The worker is lost before or after the handler was called, or a secret  *)
(* of the input's environment is not found.                                *)
AttemptLost(w) ==
  /\ Takes(w)
  /\ Callable(w)
  /\ crashes < MaxCrashes
  /\ execution' \in {Attempted(execution), Attempted(Called(Implementation(w)))}
  /\ crashes' = crashes + 1
  /\ UNCHANGED tables

WorkerNext ==
  \/ \E w \in Workers, j \in Jobs : Register(w, j)
  \/ \E r \in Registries, name \in HandlerNames : RegisterHandler(r, name)
  \/ Execute
  \/ \E w \in Workers : WorkflowTask(w) \/ ActivityTask(w) \/ AttemptLost(w)

WorkerSpec == WorkerInit /\ [][WorkerNext]_workerVars
-----------------------------------------------------------------------------
(* No job registered on a worker of the queue shares a workflow type or an *)
(* activity name with the job and means something else by it.              *)
Unshadowed ==
  \A other \in UNION {registered[w] : w \in Colleagues} :
    /\ job.type \in Types(other.package) => other.package = job.package
    /\ ActivityName(other.package) = ActivityName(job.package) => other.activity = job.activity

(* A job whose names mean nothing else on the workers of its queue is run  *)
(* by its own package and its own registry only; and when it was started   *)
(* on workers that all had it, with a registry that has its function, it   *)
(* fails only after that function was called or every attempt was lost.    *)
OwnImplementationRuns ==
  Unshadowed =>
    /\ execution.package \in {NotRegistered, job.package}
    /\ execution.ran \in {NotRegistered, job.activity}
    /\ execution.equipped /\ execution.outcome = "failed" =>
         execution.calls > 0 \/ crashes = MaxAttempts

(* "Temporal does NOT retry. This treats handler failures as business      *)
(* logic results" (src/function/activity/function.go:19): a handler is     *)
(* called again only for an attempt that was lost.                         *)
HandlerNotRetried == execution.calls <= 1 + crashes
=============================================================================
