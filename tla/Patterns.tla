------------------------------ MODULE Patterns ------------------------------
(***************************************************************************)
(* The ready-made workflows of src/container/patterns and                  *)
(* src/function/patterns, as the inputs they return.  Of a container its   *)
(* name is kept, of a function its name: image, command and arguments do   *)
(* not change how the workflow goes.                                       *)
(***************************************************************************)
EXTENDS Templates

CONSTANT Image

Stage(name) == ContainerToInput(NewContainer(name, Image, <<>>))

Chain(stages) == FoldLeft(Add, NewWorkflowBuilder(<<>>), stages)

BuildTestDeploy ==
  BuildPipeline(Set(Chain(<<Stage("build"), Stage("test"), Stage("deploy")>>),
                    "stopOnError", TRUE))

BuildTestDeployWithHealthCheck ==
  BuildPipeline(Set(Chain(<<Stage("build"), Stage("test"), Stage("deploy"),
                            HTTPToInput(NewHTTPHealthCheck("health-check"))>>),
                    "stopOnError", TRUE))

BuildTestDeployWithNotification ==
  BuildPipeline(AddExitHandler(
    Set(Chain(<<Stage("build"), Stage("test"), Stage("deploy")>>), "stopOnError", TRUE),
    HTTPToInput(NewHTTPWebhook("notify"))))

MultiEnvironmentDeploy(environments) ==
  BuildPipeline(Set(Chain([k \in DOMAIN environments |-> Stage("deploy-" \o environments[k])]),
                    "stopOnError", TRUE))

(* The parallel patterns refuse an empty list. *)
ParallelChain(stages, failFast) ==
  IF stages = <<>> THEN Failed
    ELSE BuildParallel(Set(Chain(stages), "failFast", failFast))

FanOutFanIn(tasks) == ParallelChain([k \in DOMAIN tasks |-> Stage(tasks[k])], FALSE)

ParallelDataProcessing(items) ==
  ParallelChain([k \in DOMAIN items |-> Stage("process-" \o ToString(k - 1))], FALSE)

(* The suites are a map: they come in any order. *)
ParallelTestSuites(suites) ==
  {ParallelChain([k \in DOMAIN order |-> Stage("test-" \o order[k])], TRUE) :
     order \in SetToSeqs(suites)}

ParallelDeployment(regions) ==
  ParallelChain([k \in DOMAIN regions |-> Stage("deploy-" \o regions[k])], FALSE)

MapStages(inputs) == [k \in DOMAIN inputs |-> Stage("map")]

MapReduceParallel(inputs) ==
  IF inputs = <<>> THEN Failed ELSE ParallelChain(Append(MapStages(inputs), Stage("reduce")), FALSE)

(* The map containers, built as a parallel workflow, are put in one        *)
(* pipeline with the reduce container behind them.                         *)
MapReduce(inputs) ==
  LET maps == ParallelChain(MapStages(inputs), FALSE)
  IN  IF maps = Failed THEN Failed
        ELSE BuildPipeline(Add(FoldLeft(AddInput, NewWorkflowBuilder(<<>>), maps.tasks),
                               Stage("reduce")))
-----------------------------------------------------------------------------
newLoopInput(items, template, parallel, strategy) ==
  LET input == [type |-> "loop", items |-> items, template |-> template,
                parallel |-> parallel, maxConcurrency |-> 0, strategy |-> strategy,
                options |-> Nil]
  IN  IF ValidContainerLoop(input) THEN input ELSE Failed

LoopTemplate == ContainerExecutionInput("", Image)

ParallelLoop(items) == newLoopInput(items, LoopTemplate, TRUE, "continue")

SequentialLoop(items) == newLoopInput(items, LoopTemplate, FALSE, "fail_fast")

BatchProcessing(files) == newLoopInput(files, LoopTemplate, TRUE, "continue")

ParallelLoopWithTemplate(items, source) ==
  IF source = NilSource THEN Failed ELSE newLoopInput(items, source, TRUE, "continue")

newSweep(parameters, strategy) ==
  LET input == [type |-> "parameterizedLoop", parameters |-> parameters,
                template |-> LoopTemplate, parallel |-> TRUE, maxConcurrency |-> 0,
                strategy |-> strategy, options |-> Nil]
  IN  IF ValidContainerParameterizedLoop(input) THEN input ELSE Failed

MultiRegionDeployment(environments, regions) ==
  newSweep([env |-> environments, region |-> regions], "fail_fast")

MatrixBuild(matrix) == newSweep(matrix, "fail_fast")

ParameterSweep(parameters) == newSweep(parameters, "continue")
=============================================================================
