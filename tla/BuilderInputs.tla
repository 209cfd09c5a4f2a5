---------------------------- MODULE BuilderInputs ----------------------------
(***************************************************************************)
(* The builders of src/container/builder and src/function/builder as       *)
(* values: a call of the fluent interface is an operator from the builder  *)
(* to the builder it returns, a Build one to the input or the definition.  *)
(* Lists are values here; that some of them share memory with the builder  *)
(* is the business of JobBuilder.                                          *)
(*                                                                         *)
(* Execution options are their StartToCloseTimeout in minutes, Nil when    *)
(* there are none.                                                         *)
(***************************************************************************)
EXTENDS TaskInputs, TLC

Nil == -1

NilSource == [name |-> "nil"]

NoActivity == ""

Failed == [type |-> "error"]

DefaultActivityOptions == [startToClose |-> 10, attempts |-> 3]

(* The time-out of one attempt: zero keeps the default. *)
ResolveActivityOptions(options) ==
  IF options > 0 THEN [DefaultActivityOptions EXCEPT !.startToClose = options]
                 ELSE DefaultActivityOptions

runTimeoutMargin == 2

ResolvedFromExplicit(explicit, longest) ==
  [options |-> IF explicit = Nil /\ longest > 0 THEN longest + runTimeoutMargin ELSE explicit,
   error   |-> explicit > 0 /\ explicit <= longest]

resolveExecutionOptions(explicit, longest) ==
  LET derived == explicit \in {Nil, 0} /\ longest > 0
  IN  [options |-> IF derived THEN longest + runTimeoutMargin ELSE explicit,
       error   |-> ~ derived /\ longest > 0 /\ explicit > 0 /\ explicit <= longest]

Strategy(b) == IF b.failFast THEN "fail_fast" ELSE "continue"

Queue(prefix, b) == IF b.queue = "" THEN prefix \o b.name ELSE b.queue

Definition(package, type, b, input) ==
  IF input = Failed
    THEN Failed
    ELSE [package |-> package, type |-> type, name |-> b.name,
          queue |-> Queue(package \o "-", b), activity |-> b.activity, input |-> input]

Set(b, field, value) == [b EXCEPT ![field] = value]

Accumulate(b, error) == [b EXCEPT !.errors = Append(@, error)]
-----------------------------------------------------------------------------
(* The generic builder, which the two WorkflowBuilders resemble.           *)
NewGenericBuilder ==
  [tasks |-> <<>>, stopOnError |-> TRUE, cleanup |-> FALSE, failFast |-> FALSE,
   maxConcurrency |-> 0, errors |-> <<>>]

AddInput(b, task) == [b EXCEPT !.tasks = Append(@, task)]

PipelineInput(b) ==
  [type |-> "pipeline", tasks |-> b.tasks, stopOnError |-> b.stopOnError,
   cleanup |-> b.cleanup, options |-> Nil]

ParallelInput(b) ==
  [type |-> "parallel", tasks |-> b.tasks, strategy |-> Strategy(b),
   maxConcurrency |-> b.maxConcurrency, options |-> Nil]

SingleInput(b) == [type |-> "single", tasks |-> <<b.tasks[1]>>, options |-> Nil]

(* The checks every Build makes before it validates: no error recorded and *)
(* at least one task.                                                      *)
Ready(b) == b.errors = <<>> /\ b.tasks # <<>>

GenericBuildPipeline(b, taskType) ==
  IF Ready(b) /\ ValidPipeline(PipelineInput(b), taskType) THEN PipelineInput(b) ELSE Failed

GenericBuildParallel(b, taskType) ==
  IF Ready(b) /\ ValidParallel(ParallelInput(b), taskType) THEN ParallelInput(b) ELSE Failed

GenericBuildSingle(b, taskType) ==
  IF Ready(b) /\ ValidTask(taskType, b.tasks[1]) THEN SingleInput(b) ELSE Failed
-----------------------------------------------------------------------------
(* The container WorkflowBuilder. *)
WithTimeout(b, t) ==
  [b EXCEPT !.tasks = [k \in DOMAIN @ |-> [@[k] EXCEPT !.timeout = t]]]

WithAutoRemove(b, remove) ==
  [b EXCEPT !.tasks = [k \in DOMAIN @ |-> [@[k] EXCEPT !.autoRemove = remove]]]

WithGlobalTimeout(b, t) == WithTimeout(b, t)

WithGlobalAutoRemove(b, remove) == WithAutoRemove(b, remove)

(* The other options of the constructor each set a field. *)
BuilderOption(b, o) ==
  CASE o[1] = "globalTimeout"    -> WithGlobalTimeout(b, o[2])
    [] o[1] = "globalAutoRemove" -> WithGlobalAutoRemove(b, o[2])
    [] OTHER                     -> Set(b, o[1], o[2])

NewWorkflowBuilder(options) ==
  FoldLeft(BuilderOption,
           [tasks |-> <<>>, stopOnError |-> TRUE, cleanup |-> FALSE, failFast |-> FALSE,
            maxConcurrency |-> 0, errors |-> <<>>, name |-> "", queue |-> "",
            activity |-> "container", mode |-> "unset", exitHandlers |-> <<>>, options |-> Nil],
           options)

Add(b, source) ==
  IF source = NilSource THEN Accumulate(b, "cannot add nil source")
                        ELSE AddInput(b, source)

AddExitHandlerInput(b, container) == [b EXCEPT !.exitHandlers = Append(@, container)]

AddExitHandler(b, source) ==
  IF source = NilSource THEN Accumulate(b, "cannot add nil exit handler")
                        ELSE AddExitHandlerInput(b, source)

BuildPipeline(b) ==
  IF Ready(b) /\ ValidContainerPipeline(PipelineInput(b)) THEN PipelineInput(b) ELSE Failed

BuildParallel(b) ==
  IF Ready(b) /\ ValidParallelContainers(ParallelInput(b)) THEN ParallelInput(b) ELSE Failed

BuildSingleUnchecked(b) == IF Ready(b) THEN SingleInput(b) ELSE Failed

BuildSingle(b) ==
  IF Ready(b) /\ ValidContainer(b.tasks[1]) THEN SingleInput(b) ELSE Failed

BuildGenericPipeline(b) == GenericBuildPipeline(b, "container")

BuildGenericParallel(b) == GenericBuildParallel(b, "container")

LongestRunTimeout(b) == Max({0} \cup {b.tasks[k].timeout : k \in DOMAIN b.tasks})

(* Build returns the builder too: an options error is recorded in it.      *)
BuildContainers(b) ==
  LET resolved == resolveExecutionOptions(b.options, LongestRunTimeout(b))
      checked  == IF resolved.error THEN Accumulate(b, "start_to_close_timeout") ELSE b
      Timed(i) == IF i = Failed THEN i ELSE [i EXCEPT !.options = resolved.options]
      definition ==
        CASE b.mode = "pipeline" ->
               Definition("container", "ContainerPipelineWorkflow", b, Timed(BuildPipeline(checked)))
          [] b.mode = "parallel" ->
               Definition("container", "ParallelContainersWorkflow", b, Timed(BuildParallel(checked)))
          [] b.mode = "single" ->
               Definition("container", "ExecuteContainerWorkflow", b, BuildSingle(checked))
  IN  IF b.name = "" \/ b.mode = "unset"
        THEN [builder |-> b, result |-> Failed]
        ELSE [builder |-> checked, result |-> definition]
=============================================================================
