-------------------------- MODULE FunctionPatterns --------------------------
(***************************************************************************)
(* The ready-made workflows of src/function/patterns, as the inputs they   *)
(* return.  Of a function its name is kept, as in Patterns.                *)
(***************************************************************************)
EXTENDS FunctionDAGInputs

WithFunctions(names) == FoldLeft(AddInput, NewGenericBuilder, names)

(* A list written out by the pattern, validated as a whole. *)
FunctionSteps(names) == GenericBuildPipeline(WithFunctions(names), "function")

FunctionTasks(names, failFast) ==
  IF names = <<>> THEN Failed
    ELSE GenericBuildParallel(Set(WithFunctions(names), "failFast", failFast), "function")

FanOutFanInFunctions(names) == FunctionTasks(names, FALSE)

ParallelDataFetch ==
  FanOutFanInFunctions(<<"fetch-users", "fetch-orders", "fetch-inventory">>)

ParallelHealthCheck(services) ==
  FunctionTasks([k \in DOMAIN services |-> "health-check"], TRUE)

ETLPipeline == FunctionSteps(<<"extract", "etl-transform", "load">>)

ValidateTransformNotify == FunctionSteps(<<"validate", "transform", "notify">>)

DeployEnvironments(environments) ==
  FunctionSteps([k \in DOMAIN environments |-> "deploy-service"])

BatchProcess(items, function) ==
  BuildFunctionLoop(
    Set(Set(WithTemplate(NewFunctionLoopBuilder(items), function), "parallel", TRUE),
        "failFast", FALSE))

SequentialMigration(migrations) ==
  BuildFunctionLoop(
    Set(Set(WithTemplate(NewFunctionLoopBuilder(migrations), "run-migration"), "parallel", FALSE),
        "failFast", TRUE))

Sweep(parameters, function, failFast) ==
  BuildFunctionParameterizedLoop(
    Set(Set(WithTemplate(NewFunctionParameterizedLoopBuilder(parameters), function),
            "parallel", TRUE),
        "failFast", failFast))

MultiRegionDeploy(environments, regions) ==
  Sweep([environment |-> environments, region |-> regions], "deploy-service", TRUE)

FunctionParameterSweep(parameters, function) == Sweep(parameters, function, FALSE)

ETLBuilder ==
  LET b1 == AddNodeWithInput(NewDAGBuilder("etl-with-validation"), "validate-config",
                             "validate-config", {})
      b2 == AddNodeWithInput(b1, "extract", "extract", {})
      b3 == AddNodeWithInput(b2, "transform", "etl-transform", {"validate-config", "extract"})
      b4 == AddNodeWithInput(b3, "load", "load", {"transform"})
  IN  Set(b4, "failFast", TRUE)

CIBuilder ==
  LET b1 == AddNodeWithInput(NewDAGBuilder("ci-pipeline"), "compile", "compile", {})
      b2 == WithOutputMapping(b1, "compile", "artifact")
      b3 == AddNodeWithInput(b2, "unit-test", "run-tests", {"compile"})
      b4 == AddNodeWithInput(b3, "lint", "validate-config", {"compile"})
      b5 == AddNodeWithInput(b4, "publish", "publish-artifact", {"unit-test", "lint"})
      b6 == WithInputMapping(b5, "publish", "compile.artifact")
  IN  Set(b6, "failFast", TRUE)

ETLWithValidation == BuildDAG(ETLBuilder)

CIPipeline == BuildDAG(CIBuilder)
=============================================================================
