----------------------------- MODULE LoopInputs -----------------------------
(***************************************************************************)
(* The LoopBuilders of src/container/builder and src/function/builder, and *)
(* the function WorkflowBuilder, as values (see BuilderInputs).  The two   *)
(* packages name their loop workflows alike.                               *)
(***************************************************************************)
EXTENDS BuilderInputs

NoTemplate == ContainerExecutionInput("", NoImage)

(* mode, items and parameters are set by the constructor. *)
LoopBuilder(package, mode, items, parameters, template) ==
  [package |-> package, name |-> "", queue |-> "", activity |-> NoActivity, mode |-> mode,
   items |-> items, parameters |-> parameters, template |-> template,
   parallel |-> FALSE, maxConcurrency |-> 0, failFast |-> FALSE, options |-> Nil,
   errors |-> <<>>]

NewLoopBuilder(items) ==
  [LoopBuilder("container", "loop", items, <<>>, NoTemplate) EXCEPT !.activity = "container"]

NewParameterizedLoopBuilder(parameters) ==
  [LoopBuilder("container", "parameterizedLoop", <<>>, parameters, NoTemplate)
    EXCEPT !.activity = "container"]

NewFunctionLoopBuilder(items) == LoopBuilder("function", "loop", items, <<>>, "")

NewFunctionParameterizedLoopBuilder(parameters) ==
  LoopBuilder("function", "parameterizedLoop", <<>>, parameters, "")

WithTemplate(b, template) == [b EXCEPT !.template = template]

WithSource(b, source) ==
  IF source = NilSource THEN Accumulate(b, "cannot use nil source")
                        ELSE WithTemplate(b, source)

LoopInput(b) ==
  [type |-> "loop", items |-> b.items, template |-> b.template, parallel |-> b.parallel,
   maxConcurrency |-> b.maxConcurrency, strategy |-> Strategy(b), options |-> Nil]

ParameterizedLoopInput(b) ==
  [type |-> "parameterizedLoop", parameters |-> b.parameters, template |-> b.template,
   parallel |-> b.parallel, maxConcurrency |-> b.maxConcurrency,
   strategy |-> Strategy(b), options |-> Nil]

BuildLoop(b) ==
  IF b.errors = <<>> /\ ValidContainerLoop(LoopInput(b)) THEN LoopInput(b) ELSE Failed

BuildParameterizedLoop(b) ==
  IF b.errors = <<>> /\ ValidContainerParameterizedLoop(ParameterizedLoopInput(b))
    THEN ParameterizedLoopInput(b) ELSE Failed

BuildFunctionLoop(b) ==
  IF b.errors = <<>> /\ ValidLoop(LoopInput(b), "function")
    THEN LoopInput(b) ELSE Failed

BuildFunctionParameterizedLoop(b) ==
  IF b.errors = <<>> /\ ValidParameterizedLoop(ParameterizedLoopInput(b), "function")
    THEN ParameterizedLoopInput(b) ELSE Failed

LoopType(b) ==
  IF b.mode = "loop" THEN "LoopWorkflow" ELSE "ParameterizedLoopWorkflow"

ForEach(items, template) == WithTemplate(NewLoopBuilder(items), template)

ForEachParam(parameters, template) ==
  WithTemplate(NewParameterizedLoopBuilder(parameters), template)

(* Build of the container package. *)
BuildContainerLoop(b) ==
  LET resolved == resolveExecutionOptions(b.options, b.template.timeout)
      checked  == IF resolved.error THEN Accumulate(b, "start_to_close_timeout") ELSE b
      input    == IF b.mode = "loop" THEN BuildLoop(checked) ELSE BuildParameterizedLoop(checked)
  IN  IF b.name = ""
        THEN [builder |-> b, result |-> Failed]
        ELSE [builder |-> checked,
              result  |-> Definition("container", LoopType(b), b,
                            IF input = Failed THEN input
                              ELSE [input EXCEPT !.options = resolved.options])]

(* Build of the function package: the options are taken as they are, the   *)
(* activity is required.                                                   *)
BuildFunctionLoopJob(b) ==
  LET input == IF b.mode = "loop" THEN BuildFunctionLoop(b)
                                  ELSE BuildFunctionParameterizedLoop(b)
  IN  IF b.name = "" \/ b.activity = NoActivity
        THEN [builder |-> b, result |-> Failed]
        ELSE [builder |-> b,
              result  |-> Definition("function", LoopType(b), b,
                            IF input = Failed THEN input
                              ELSE [input EXCEPT !.options = b.options])]
-----------------------------------------------------------------------------
(* The function WorkflowBuilder: no names are checked when a task is       *)
(* added, the options are not resolved, exit handlers do not exist.        *)
FunctionBuilder ==
  NewGenericBuilder @@
    [name |-> "", queue |-> "", activity |-> NoActivity, mode |-> "unset", options |-> Nil]

(* WithParallelMode does nothing. *)
FunctionOption(b, o) ==
  IF o[1] = "parallelMode" THEN b ELSE Set(b, o[1], o[2])

FunctionPipeline(b) == GenericBuildPipeline(b, "function")

FunctionParallel(b) == GenericBuildParallel(b, "function")

FunctionSingle(b) == GenericBuildSingle(b, "function")

BuildFunctions(b) ==
  LET Optioned(i) == IF i = Failed THEN i ELSE [i EXCEPT !.options = b.options]
      definition ==
        CASE b.mode = "pipeline" ->
               Definition("function", "FunctionPipelineWorkflow", b, Optioned(FunctionPipeline(b)))
          [] b.mode = "parallel" ->
               Definition("function", "ParallelFunctionsWorkflow", b, Optioned(FunctionParallel(b)))
          [] b.mode = "single" ->
               Definition("function", "ExecuteFunctionWorkflow", b, FunctionSingle(b))
  IN  IF b.name = "" \/ b.mode = "unset" \/ b.activity = NoActivity THEN Failed ELSE definition
=============================================================================
