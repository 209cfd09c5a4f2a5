----------------------------- MODULE JobBuilder -----------------------------
(***************************************************************************)
(* The life of one builder: any sequence of the calls of its fluent        *)
(* interface and of its Builds, in any order, by the one goroutine that    *)
(* owns it.  kind is its type: the WorkflowBuilder of the container        *)
(* package, the one of the function package, the LoopBuilder of either,    *)
(* the GenericBuilder or the DAGBuilder; "none" when there is no builder.  *)
(*                                                                         *)
(* The lists of a built input are slices of the builder's own array: they  *)
(* see what WithTimeout and WithAutoRemove do to the containers, and the   *)
(* mappings to the nodes, until an append outgrows the array and moves the *)
(* builder to another.  How much capacity an array gets is up to the Go    *)
(* runtime.                                                                *)
(***************************************************************************)
EXTENDS FunctionDAGInputs

CONSTANTS
  Builders,      \* the constructors' results, with their kind
  Settings,      \* [kind, field, value]: what the setters may set
  Sources,       \* containers and NilSource
  Functions,     \* names of functions
  Nodes,         \* [name, deps]: arguments of AddNode
  RunTimeouts,   \* arguments of WithTimeout
  MaxSpare,      \* bound: capacity left after an append that grows
  MaxCalls       \* bound: calls of the builder

ContainerType ==
  [name : STRING, image : STRING, volumes : SUBSET Seq(STRING), wait : STRING,
   timeout : Nat, autoRemove : BOOLEAN]

NodeType ==
  [name : STRING, function : STRING, deps : SUBSET STRING, outputs : SUBSET STRING,
   inputs : SUBSET STRING, data : STRING]

OptionsType == {Nil} \cup Nat

(* The fields that a builder's calls change or read, and their types. *)
FieldTypes ==
  [workflow     |-> [tasks |-> Seq(ContainerType), errors |-> Seq(STRING), options |-> OptionsType,
                     mode |-> {"unset", "pipeline", "parallel", "single"}],
   functions    |-> [tasks |-> Seq(STRING), errors |-> Seq(STRING), options |-> OptionsType,
                     mode |-> {"unset", "pipeline", "parallel", "single"}],
   generic      |-> [tasks |-> Seq(STRING), errors |-> Seq(STRING)],
   loop         |-> [template |-> ContainerType, errors |-> Seq(STRING),
                     options |-> OptionsType, mode |-> {"loop", "parameterizedLoop"}],
   functionLoop |-> [template |-> STRING, errors |-> Seq(STRING), options |-> OptionsType,
                     mode |-> {"loop", "parameterizedLoop"}],
   dag          |-> [tasks |-> Seq(NodeType), errors |-> Seq(STRING)]]

ASSUME BuilderArguments ==
  /\ \A b \in Builders :
       /\ b.kind \in DOMAIN FieldTypes
       /\ \A f \in DOMAIN FieldTypes[b.kind] :
            f \in DOMAIN b.builder /\ b.builder[f] \in FieldTypes[b.kind][f]
  /\ \A s \in Settings :
       s.field \in DOMAIN FieldTypes[s.kind] => s.value \in FieldTypes[s.kind][s.field]
  /\ Sources \ {NilSource} \subseteq ContainerType
  /\ Functions \subseteq STRING
  /\ \A n \in Nodes : n.name \in STRING /\ n.deps \subseteq STRING
  /\ RunTimeouts \subseteq Nat
  /\ MaxSpare \in Nat

VARIABLES
  kind,
  builder,
  spare,     \* capacity left behind the builder's list
  built,     \* what its Builds returned
  calls

builderVars == <<kind, builder, spare, built, calls>>

BuilderInit ==
  /\ \E b \in Builders : kind = b.kind /\ builder = b.builder
  /\ spare = 0
  /\ built = <<>>
  /\ calls = 0

NoBuilder ==
  /\ kind = "none"
  /\ builder = NewGenericBuilder
  /\ spare = 0
  /\ built = <<>>
  /\ calls = 0

Call == calls < MaxCalls /\ calls' = calls + 1 /\ UNCHANGED kind

(* The setters of each builder, which replace a field. *)
GenericSetters == {"stopOnError", "cleanup", "failFast", "maxConcurrency"}

WorkflowSetters == {"name", "queue", "mode"}

WorkflowListSetters == GenericSetters \cup {"options"}

FunctionSetters == {"name", "queue", "activity", "mode"}

FunctionListSetters == {"stopOnError", "failFast", "maxConcurrency", "options"}

LoopSetters == {"name", "queue", "mode"}

LoopRunSetters == {"parallel", "maxConcurrency", "failFast", "options"}

FunctionLoopSetters == {"name", "queue", "activity", "mode"}

FunctionLoopRunSetters == {"parallel", "maxConcurrency", "failFast", "options"}

DAGSetters == {"failFast", "maxParallel"}

Setters ==
  CASE kind = "generic"      -> GenericSetters
    [] kind = "workflow"     -> WorkflowSetters \cup WorkflowListSetters
    [] kind = "functions"    -> FunctionSetters \cup FunctionListSetters
    [] kind = "loop"         -> LoopSetters \cup LoopRunSetters
    [] kind = "functionLoop" -> FunctionLoopSetters \cup FunctionLoopRunSetters
    [] kind = "dag"          -> DAGSetters

Configure ==
  /\ Call
  /\ \E s \in Settings :
       /\ s.kind = kind
       /\ s.field \in Setters
       /\ builder' = Set(builder, s.field, s.value)
  /\ UNCHANGED <<spare, built>>

(* What the lists that share the builder's array see of it. *)
Shown(tasks, retimed) ==
  [k \in DOMAIN built |->
     IF built[k].attached
       THEN [built[k] EXCEPT !.result.input.tasks = [n \in DOMAIN @ |-> tasks[n]],
                             !.retimed = @ \/ retimed]
       ELSE built[k]]

Detached == [k \in DOMAIN built |-> [built[k] EXCEPT !.attached = FALSE]]

(* The builder's list gets one element longer, if the call added one. *)
AppendedToEveryList(b) ==
  /\ builder' = b
  /\ built' = IF Len(b.tasks) = Len(builder.tasks) THEN built
                ELSE [k \in DOMAIN built |->
                        IF built[k].attached
                          THEN [built[k] EXCEPT !.result.input.tasks = b.tasks] ELSE built[k]]
  /\ UNCHANGED spare

Appended(b) ==
  LET grows == Len(b.tasks) > Len(builder.tasks)
  IN  /\ builder' = b
      /\ CASE ~ grows              -> UNCHANGED spare /\ built' = Shown(b.tasks, FALSE)
           [] grows /\ spare > 0   -> spare' = spare - 1 /\ built' = Shown(b.tasks, FALSE)
           [] grows /\ spare = 0   -> spare' \in 0 .. MaxSpare /\ built' = Detached

AddTask ==
  /\ Call
  /\ \/ \E s \in Sources : kind = "workflow" /\ Appended(Add(builder, s))
     \/ \E f \in Functions : kind \in {"functions", "generic"} /\ Appended(AddInput(builder, f))
     \/ \E n \in Nodes : kind = "dag" /\ Appended(AddNode(builder, n.name, "f", n.deps))

AddHandler ==
  /\ Call
  /\ kind = "workflow"
  /\ \E s \in Sources : builder' = AddExitHandler(builder, s)
  /\ UNCHANGED <<spare, built>>

SetTemplate ==
  /\ Call
  /\ \/ \E s \in Sources : kind = "loop" /\ builder' = WithSource(builder, s)
     \/ \E f \in Functions : kind = "functionLoop" /\ builder' = WithTemplate(builder, f)
  /\ UNCHANGED <<spare, built>>

(* The elements of the builder's array change in place. *)
InPlace(changed, retimed) ==
  /\ Call
  /\ builder' = changed
  /\ built' = Shown(changed.tasks, retimed)
  /\ UNCHANGED spare

Retime ==
  \E t \in RunTimeouts : kind = "workflow" /\ InPlace(WithTimeout(builder, t), TRUE)

Autoremove ==
  \E r \in BOOLEAN : kind = "workflow" /\ InPlace(WithAutoRemove(builder, r), FALSE)

MapData ==
  \E n \in Nodes :
    /\ kind = "dag"
    /\ \/ InPlace(WithOutputMapping(builder, n.name, "out"), FALSE)
       \/ InPlace(WithInputMapping(builder, n.name, "in"), FALSE)
       \/ \E from \in n.deps : InPlace(WithDataMapping(builder, n.name, from), FALSE)

-----------------------------------------------------------------------------
(* Containers and nodes are in the builder's array, a single one is copied; *)
(* a list of functions is as good as copied, for none of its elements ever *)
(* changes.                                                                *)
Shares(input) == kind \in {"workflow", "dag"} /\ input.type # "single"

Returns(via, result) ==
  built' = Append(built, [via |-> via, result |-> result,
                          attached |-> Shares(result.input), retimed |-> FALSE])

BuildJob ==
  LET r == CASE kind = "workflow"     -> BuildContainers(builder)
             [] kind = "loop"         -> BuildContainerLoop(builder)
             [] kind = "functions"    -> [builder |-> builder, result |-> BuildFunctions(builder)]
             [] kind = "functionLoop" -> BuildFunctionLoopJob(builder)
  IN  /\ Call
      /\ kind \in {"workflow", "loop", "functions", "functionLoop"}
      /\ builder' = r.builder
      /\ IF r.result = Failed THEN UNCHANGED built ELSE Returns("Build", r.result)
      /\ UNCHANGED spare

(* The inputs that are built without a definition. *)
RawInputs ==
  CASE kind = "workflow" ->
         {[via |-> "payload", input |-> BuildPipeline(builder)],
          [via |-> "payload", input |-> BuildParallel(builder)],
          [via |-> "payload", input |-> BuildSingle(builder)],
          [via |-> "generic", input |-> BuildGenericPipeline(builder)],
          [via |-> "generic", input |-> BuildGenericParallel(builder)]}
    [] kind = "generic" ->
         {[via |-> "generic", input |-> GenericBuildPipeline(builder, "function")],
          [via |-> "generic", input |-> GenericBuildParallel(builder, "function")],
          [via |-> "generic", input |-> GenericBuildSingle(builder, "function")]}
    [] kind = "loop" ->
         {[via |-> "payload", input |-> IF builder.mode = "loop" THEN BuildLoop(builder)
                                          ELSE BuildParameterizedLoop(builder)]}
    [] kind = "functionLoop" ->
         {[via |-> "generic", input |-> IF builder.mode = "loop" THEN BuildFunctionLoop(builder)
                                          ELSE BuildFunctionParameterizedLoop(builder)]}
    [] kind = "dag" -> {[via |-> "payload", input |-> BuildDAG(builder)]}
    [] OTHER        -> {}

BuildRaw ==
  /\ Call
  /\ \E r \in RawInputs :
       r.input # Failed /\ Returns(r.via, [input |-> r.input])
  /\ UNCHANGED <<builder, spare>>

BuilderNext ==
  \/ Configure \/ AddTask \/ AddHandler \/ SetTemplate
  \/ Retime \/ Autoremove \/ MapData \/ BuildJob \/ BuildRaw

BuilderSpec == BuilderInit /\ [][BuilderNext]_builderVars
-----------------------------------------------------------------------------
(* An input without what may be changed in place. *)
Outline(input) ==
  CASE Shares(input) /\ kind = "workflow" ->
         [input EXCEPT !.tasks = [k \in DOMAIN @ |->
                                    [@[k] EXCEPT !.timeout = 0, !.autoRemove = FALSE]]]
    [] Shares(input) /\ kind = "dag" ->
         [input EXCEPT !.tasks = [k \in DOMAIN @ |->
                                    [@[k] EXCEPT !.outputs = {}, !.inputs = {}, !.data = ""]]]
    [] ~ Shares(input) -> input

(* What a Build returned is not changed by later calls: its list keeps its *)
(* length and its tasks, a DAG its names and dependencies, its flags and   *)
(* options their values, although the list shares the builder's array.     *)
(* Only the containers' RunTimeout and AutoRemove and the nodes' mappings  *)
(* may change, and only as long as the array is shared.                    *)
DefinitionFrozen ==
  [][\A k \in DOMAIN built :
       LET before == built[k]
           after  == built'[k]
       IN  /\ Outline(after.result.input) = Outline(before.result.input)
           /\ ~ before.attached => after.result = before.result]_builderVars

Containers(input) ==
  IF input.type \in {"loop", "parameterizedLoop"} THEN {input.template}
    ELSE {input.tasks[k] : k \in DOMAIN input.tasks}

(* "so the activity outlives the container's own timeout"                  *)
(* (src/container/builder/builder.go:25): in every definition but a single *)
(* container's, an attempt may take longer than the RunTimeout of each of  *)
(* its containers, whether the options were given, half given or derived.  *)
(* WithTimeout on a builder that still shares its array with the           *)
(* definition is the exception.                                            *)
OutlivesRunTimeout ==
  \A k \in DOMAIN built :
    LET e == built[k]
    IN  kind \in {"workflow", "loop"} /\ e.via = "Build"
          /\ e.result.input.type # "single" /\ ~ e.retimed =>
          \A c \in Containers(e.result.input) :
            c.timeout > 0 =>
              ResolveActivityOptions(e.result.input.options).startToClose > c.timeout

Accepted(input) ==
  CASE kind = "dag"                 -> ValidDAG(input.tasks)
    [] kind \in {"workflow", "loop"} -> AcceptedByWorkflow(input, "container")
    [] OTHER                        -> AcceptedByWorkflow(input, "function")

(* Whatever is called between and after Builds, the workflow accepts what  *)
(* was built: its own validation finds nothing that Build let pass.        *)
(* Except the container package's lists, whose containers no Build         *)
(* validates.                                                              *)
BuiltAccepted ==
  \A k \in DOMAIN built :
    LET e == built[k]
    IN  ~ (kind = "workflow" /\ e.result.input.type # "single" /\ e.via # "generic")
          => Accepted(e.result.input)
=============================================================================
