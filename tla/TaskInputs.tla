----------------------------- MODULE TaskInputs -----------------------------
(***************************************************************************)
(* The inputs of the workflows and their Validate methods: containers of   *)
(* src/container/payload, functions of src/function/payload, and the       *)
(* orchestrations over a list of tasks or over a template of src/workflow  *)
(* and src/container/payload.                                              *)
(*                                                                         *)
(* A container is the record of the fields that are validated or that a    *)
(* builder changes; a host path is the sequence of its components.  A      *)
(* function is its name: BadNames are the names that are empty, or match   *)
(* neither the pattern of function names nor hold a placeholder.           *)
(***************************************************************************)
EXTENDS Integers, Sequences, SequencesExt, FiniteSetsExt

CONSTANT BadNames

NoImage == ""

WaitTypes == {"", "log", "port", "http", "healthy"}

Strategies == {"", "continue", "fail_fast"}

(* filepath.Clean of an absolute path. *)
Clean(path) ==
  FoldLeft(LAMBDA clean, c : CASE c = "."  -> clean
                               [] c = ".." -> SubSeq(clean, 1, Len(clean) - 1)
                               [] OTHER    -> Append(clean, c),
           <<>>, path)

SensitivePaths ==
  {<<"etc">>, <<"root">>, <<"proc">>, <<"sys">>, <<"dev">>,
   <<"var", "run", "docker.sock">>, <<"run", "docker.sock">>,
   <<"var", "run", "podman">>, <<"run", "podman">>}

ValidVolumes(paths) ==
  \A p \in paths, s \in SensitivePaths : ~ IsPrefix(s, Clean(p))

ContainerExecutionInput(name, image) ==
  [name |-> name, image |-> image, volumes |-> {}, wait |-> "",
   timeout |-> 0, autoRemove |-> FALSE]

ValidContainer(c) ==
  /\ c.image # NoImage
  /\ c.wait \in WaitTypes
  /\ ValidVolumes(c.volumes)

ValidFunction(name) == name \notin BadNames

(* Validate of the type parameter I. *)
ValidTask(taskType, t) ==
  IF taskType = "container" THEN ValidContainer(t) ELSE ValidFunction(t)
-----------------------------------------------------------------------------
(* Validate of the container package's lists: the validator does not dive  *)
(* into the containers.                                                    *)
ValidContainerPipeline(i) == i.tasks # <<>>

ValidParallelContainers(i) == i.tasks # <<>> /\ i.strategy \in Strategies

(* Validate of the generic lists, which validates every task.              *)
ValidPipeline(i, taskType) ==
  /\ i.tasks # <<>>
  /\ \A k \in DOMAIN i.tasks : ValidTask(taskType, i.tasks[k])

ValidParallel(i, taskType) ==
  /\ i.tasks # <<>>
  /\ i.strategy \in Strategies
  /\ \A k \in DOMAIN i.tasks : ValidTask(taskType, i.tasks[k])

ValidLoop(i, taskType) ==
  /\ i.items # <<>>
  /\ i.strategy \in Strategies
  /\ ValidTask(taskType, i.template)

ValidParameterizedLoop(i, taskType) ==
  /\ DOMAIN i.parameters # {}
  /\ i.strategy \in Strategies
  /\ \A key \in DOMAIN i.parameters : i.parameters[key] # <<>>
  /\ ValidTask(taskType, i.template)

(* The same two of the container package.                                  *)
ValidContainerLoop(i) == ValidLoop(i, "container")

ValidContainerParameterizedLoop(i) == ValidParameterizedLoop(i, "container")

(* What the workflow itself demands of the input it is started with, when  *)
(* its orchestration validates it again.                                   *)
AcceptedByWorkflow(i, taskType) ==
  CASE i.type = "pipeline"          -> ValidPipeline(i, taskType)
    [] i.type = "parallel"          -> ValidParallel(i, taskType)
    [] i.type = "single"            -> ValidTask(taskType, i.tasks[1])
    [] i.type = "loop"              -> ValidLoop(i, taskType)
    [] i.type = "parameterizedLoop" -> ValidParameterizedLoop(i, taskType)
=============================================================================
