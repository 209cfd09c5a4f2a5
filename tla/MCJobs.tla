-------------------------------- MODULE MCJobs --------------------------------
(***************************************************************************)
(* A job on its way from a builder or a pattern to the worker.  One        *)
(* behaviour follows one of the four: a builder, the sync builders, the    *)
(* workers, or a pattern that is run; the others rest.                     *)
(***************************************************************************)
EXTENDS JobBuilder, PatternRun, SyncJobs, JobWorker

CONSTANTS r1, r2, w1, w2, s1, s2, s3

(* Containers: one that runs for 9 minutes, one that no workflow accepts.  *)
Slow == [ContainerToInput(NewContainer("slow", "app", <<WaitOption("log")>>)) EXCEPT !.timeout = 9]

Tool == ScriptToInput(NewBashScript("tool", <<<<"volumes", <<"data", "..", "var", "lib">>>>>>))

Exposed == ScriptToInput(NewScript("bad", "python",
             <<<<"volumes", <<"var", "..", "etc">>>>, <<"autoRemove", FALSE>>>>))

MCSources == {Slow, Exposed, NilSource}

MCFunctions == {"f", "bad"}

MCBadNames == {"", "bad"}

MCNodes ==
  {[name |-> "extract", deps |-> {}], [name |-> "report", deps |-> {"extract"}],
   [name |-> "loop", deps |-> {"loop"}], [name |-> "late", deps |-> {"absent"}]}

Named(b) == Set(Set(b, "name", "j"), "mode", "pipeline")

Parameters == [env |-> <<"dev", "prod">>, region |-> <<"eu">>]

MCBuilders ==
  [kind : {"workflow"},
   builder : {NewWorkflowBuilder(<<>>), Add(Named(NewWorkflowBuilder(<<>>)), Tool),
              Named(NewWorkflowBuilder(<<<<"globalTimeout", 30>>, <<"globalAutoRemove", TRUE>>,
                                         <<"failFast", TRUE>>>>))}]
  \cup [kind : {"generic"}, builder : {NewGenericBuilder}]
  \cup [kind : {"functions"},
        builder : {Set(Named(FoldLeft(FunctionOption, FunctionBuilder,
                                      <<<<"parallelMode", TRUE>>, <<"stopOnError", FALSE>>>>)),
                       "activity", r1)}]
  \cup [kind : {"loop"},
        builder : {NewLoopBuilder(<<"a", "b">>), NewLoopBuilder(<<>>),
                   Set(ForEach(<<"a">>, Slow), "name", "j"),
                   Set(ForEachParam(Parameters, Slow), "name", "j"),
                   NewParameterizedLoopBuilder([env |-> <<>>])}]
  \cup [kind : {"functionLoop"},
        builder : {Set(NewFunctionLoopBuilder(<<"a">>), "name", "j"),
                   Set(NewFunctionParameterizedLoopBuilder(Parameters), "name", "j")}]
  \cup [kind : {"dag"}, builder : {NewDAGBuilder("d"), ETLBuilder, CIBuilder}]

Setting(kinds, field, values) == [kind : kinds, field : {field}, value : values]

MCSettings ==
  Setting({"workflow", "functions", "loop", "functionLoop"}, "name", {"j"})
  \cup Setting({"workflow", "functions"}, "mode", {"pipeline", "parallel", "single"})
  \cup Setting({"workflow", "functions"}, "stopOnError", {FALSE})
  \cup Setting({"workflow", "functions", "loop", "dag"}, "failFast", {TRUE})
  \cup Setting({"workflow", "loop", "functionLoop"}, "options", {Nil, 0, 9, 20})
  \cup Setting({"functionLoop"}, "activity", {r1})
  \cup Setting({"loop", "functionLoop"}, "parallel", {TRUE})
-----------------------------------------------------------------------------
Pattern(name, input) == [name |-> name, input |-> input]

MCLists ==
  {<<"a", "b">>, <<"staging", "prod">>, <<"a", "b", "c">>, <<"v1", "v2", "v3">>}

MCPatternInputs ==
  {Pattern("BuildTestDeploy", BuildTestDeploy),
   Pattern("BuildTestDeployWithHealthCheck", BuildTestDeployWithHealthCheck),
   Pattern("BuildTestDeployWithNotification", BuildTestDeployWithNotification),
   Pattern("MultiEnvironmentDeploy", MultiEnvironmentDeploy(<<"staging", "prod">>)),
   Pattern("MapReduce", MapReduce(<<"a", "b">>)),
   Pattern("FanOutFanIn", FanOutFanIn(<<"a", "b", "c">>)),
   Pattern("ParallelDataProcessing", ParallelDataProcessing(<<"a", "b">>)),
   Pattern("ParallelDeployment", ParallelDeployment(<<"eu", "us">>)),
   Pattern("ParallelLoop", ParallelLoop(<<"a", "b">>)),
   Pattern("SequentialLoop", SequentialLoop(<<"a", "b", "c">>)),
   Pattern("BatchProcessing", BatchProcessing(<<"a", "b">>)),
   Pattern("ParallelLoopWithTemplate", ParallelLoopWithTemplate(<<"a", "b">>, Slow)),
   Pattern("MultiRegionDeployment", MultiRegionDeployment(<<"prod">>, <<"eu", "us">>)),
   Pattern("MatrixBuild", MatrixBuild([go |-> <<"1.24", "1.25">>, os |-> <<"linux">>])),
   Pattern("ParameterSweep", ParameterSweep(Parameters)),
   Pattern("FanOutFanInFunctions", FanOutFanInFunctions(<<"f", "g">>)),
   Pattern("ParallelDataFetch", ParallelDataFetch),
   Pattern("ParallelHealthCheck", ParallelHealthCheck(<<"a", "b">>)),
   Pattern("ETLPipeline", ETLPipeline),
   Pattern("ValidateTransformNotify", ValidateTransformNotify),
   Pattern("DeployEnvironments", DeployEnvironments(<<"staging", "prod">>)),
   Pattern("BatchProcess", BatchProcess(<<"a", "b">>, "f")),
   Pattern("SequentialMigration", SequentialMigration(<<"v1", "v2", "v3">>)),
   Pattern("MultiRegionDeploy", MultiRegionDeploy(<<"prod">>, <<"eu", "us">>)),
   Pattern("FunctionParameterSweep", FunctionParameterSweep(Parameters, "f"))}
  \cup {Pattern("ParallelTestSuites", i) : i \in ParallelTestSuites({"unit", "e2e"})}

(* The patterns refuse what makes no workflow. *)
ASSUME PatternsAssumption ==
  /\ Failed \notin {p.input : p \in MCPatternInputs}
  /\ {FanOutFanIn(<<>>), MapReduce(<<>>), ParallelLoop(<<>>), MatrixBuild(<<>>),
      MultiRegionDeployment(<<>>, <<"eu">>), BatchProcess(<<>>, "f"),
      BatchProcess(<<"a">>, "bad"), ParallelLoopWithTemplate(<<"a">>, NilSource)} = {Failed}
  /\ Failed \notin {ETLWithValidation, CIPipeline}
-----------------------------------------------------------------------------
Job(package, type, activity) ==
  [package |-> package, type |-> type, activity |-> activity,
   queue |-> "q", function |-> "f"]

MCJobs ==
  {Job("container", "LoopWorkflow", "docker"), Job("function", "LoopWorkflow", r1),
   Job("function", "FunctionPipelineWorkflow", r2)}

MCQueueOf == [w \in {w1, w2} |-> "q"]

MCBuilderType == (s1 :> "date") @@ (s2 :> "chunked") @@ (s3 :> "job")

VARIABLE subject

MCInit ==
  /\ subject \in {"builder", "pattern", "sync builders", "workers"}
  /\ IF subject = "builder" THEN BuilderInit ELSE NoBuilder
  /\ IF subject = "pattern" THEN PatternInit ELSE NoPattern
  /\ SyncInit
  /\ WorkerInit
  /\ subject # "sync builders" =>
       syncBuilder = [b \in SyncBuilders |-> NewBuilder] /\ ~ specs[RawSpec].asked
  /\ specs[RawSpec].asked =>
       syncBuilder = [b \in SyncBuilders |-> Provided(BuilderType[b])]
  /\ subject # "workers" => job = CHOOSE j \in Jobs : TRUE

BuilderStep ==
  /\ subject = "builder"
  /\ BuilderNext
  /\ UNCHANGED <<subject, pattern, batchVars, syncVars, workerVars>>

PatternStep ==
  /\ subject = "pattern"
  /\ PatternNext
  /\ UNCHANGED <<subject, builderVars, syncVars, workerVars>>

SyncStep ==
  /\ subject = "sync builders"
  /\ SyncNext
  /\ UNCHANGED <<subject, builderVars, pattern, batchVars, workerVars>>

WorkerStep ==
  /\ subject = "workers"
  /\ WorkerNext
  /\ UNCHANGED <<subject, builderVars, pattern, batchVars, syncVars>>

MCNext == BuilderStep \/ PatternStep \/ SyncStep \/ WorkerStep

MCSpec ==
  MCInit /\ [][MCNext]_<<subject, builderVars, pattern, batchVars, syncVars, workerVars>>
=============================================================================
