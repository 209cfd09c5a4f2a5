------------------------------- MODULE DagRun -------------------------------
(***************************************************************************)
(* DAGWorkflow of src/function/workflow/dag.go, and of                     *)
(* src/container/workflow/dag.go, which has the same structure: a          *)
(* depth-first walk that runs a node's dependencies, checks its inputs,    *)
(* runs its activity and records the result.  The two packages differ in   *)
(* the outcomes that stop a FailFast run, see DagFailure, and in the kinds *)
(* of input a node can take.                                               *)
(*                                                                         *)
(* The order of a node's Dependencies is an input: it is chosen while the  *)
(* node visits them, which it does once.                                   *)
(***************************************************************************)
EXTENDS DagGraph, DagFailure, Sequences, FiniteSets, FiniteSetsExt

CONSTANTS
  Count,   \* number of nodes
  Wants    \* the input declarations considered

Nodes == 1 .. Count

(* Required input mappings: with a Default, without one, and without one   *)
(* from an output that the other node does not declare.                    *)
Mappings == {"defaulted", "required", "undeclared"}

(* What a node can take from another one: these, an input artifact that is *)
(* not Optional and, of a function, a DataInput that is not Optional.  An  *)
(* ArtifactStore is configured.                                            *)
ContainerKinds == Mappings \cup {"artifact"}

Kinds == ContainerKinds \cup {"data"}

Fits(w, package) == package = ContainerStops => \A n \in Nodes : w[n] \subseteq ContainerKinds \X Nodes

ASSUME CountAssumption == Count \in Nat \ {0}

ASSUME WantsAssumption == Wants \subseteq [Nodes -> SUBSET (Kinds \X Nodes)]

VARIABLES
  deps,       \* input: Dependencies
  wants,      \* input: what each node takes, <<kind, node it comes from>>
  failFast,   \* input: FailFast
  stops,      \* the package: outcomes that stop a FailFast run
  status,     \* validating, running, or how DAGWorkflow returned
  stack,      \* the calls of executeNode: the node, the Dependencies left to
              \* visit and the one it is at, 0 between two of them
  waiting,    \* the last call waits for its activity
  results,    \* state.results, "none" for a node that was not executed
  delivered,  \* stepOutputs, stepData and uploaded artifacts
  order,      \* NodeResults, as nodes
  totals      \* TotalSuccess and TotalFailed

inputVars == <<deps, wants, failFast, stops>>

walkVars == <<stack, waiting, results, delivered, order, totals>>

vars == <<inputVars, status, walkVars>>

Executed == {n \in Nodes : results[n] # "none"}

Failed == {n \in Nodes : results[n] \in Failures}

TypeOK ==
  /\ deps \in [Nodes -> SUBSET (0 .. Count)]
  /\ status # "validating" => status = "failed" \/ deps \in Graphs(Nodes)
  /\ wants \in [Nodes -> SUBSET (Kinds \X Nodes)]
  /\ failFast \in BOOLEAN
  /\ stops \in {FunctionStops, ContainerStops}
  /\ status \in {"validating", "running", "completed", "failed"}
  /\ stack \in Seq([node : Nodes, left : SUBSET Nodes, at : 0 .. Count])
  /\ Len(stack) <= Count
  /\ waiting \in BOOLEAN
  /\ waiting => stack # <<>>
  /\ results \in [Nodes -> Outcomes \cup {"none"}]
  /\ delivered \in SUBSET (Kinds \X Nodes)
  /\ order \in Seq(Nodes)
  /\ totals \in [success : Nat, failed : Nat]

Top == stack[Len(stack)]

Called(calls, n) == Append(calls, [node |-> n, left |-> deps[n], at |-> 0])

(* Where the last call is in its loop over Dependencies. *)
AtDependency(d) == d \in Top.left /\ Top.at \in {0, d}

Entered(d) == [stack EXCEPT ![Len(stack)].at = d]

Passed(d) == [stack EXCEPT ![Len(stack)].at = 0, ![Len(stack)].left = @ \ {d}]

-----------------------------------------------------------------------------
WalkInit ==
  /\ stack = <<>>
  /\ waiting = FALSE
  /\ results = [n \in Nodes |-> "none"]
  /\ delivered = {}
  /\ order = <<>>
  /\ totals = [success |-> 0, failed |-> 0]

(* input.Validate has accepted the graph. *)
Init ==
  /\ deps \in Graphs(Nodes)
  /\ Acyclic(Nodes, deps)
  /\ wants \in Wants
  /\ failFast \in BOOLEAN
  /\ stops \in {FunctionStops, ContainerStops}
  /\ Fits(wants, stops)
  /\ status = "running"
  /\ WalkInit

(* An error is returned through every call of executeNode. *)
AbortIgnored ==
  /\ status' = status
  /\ stack' = <<>>
  /\ waiting' = FALSE

Abort ==
  /\ status' = "failed"
  /\ stack' = <<>>
  /\ waiting' = FALSE

(* The loop over input.Nodes calls the next node that was not executed. *)
CallNode ==
  /\ status = "running"
  /\ stack = <<>>
  /\ Executed # Nodes
  /\ stack' = Called(stack, Min(Nodes \ Executed))
  /\ UNCHANGED <<inputVars, status, waiting, results, delivered, order, totals>>

Complete ==
  /\ status = "running"
  /\ stack = <<>>
  /\ Executed = Nodes
  /\ status' = "completed"
  /\ UNCHANGED <<inputVars, stack, waiting, results, delivered, order, totals>>

(* The last call is at its dependency d: call it, or, once it is executed, *)
(* go on unless it failed and FailFast is set.                             *)
NoDependencyCheck(d) == FALSE

DependencyFailed(d) == failFast /\ results[d] # "ok"

VisitAgain(d) ==
  /\ ~ waiting
  /\ stack # <<>>
  /\ AtDependency(d)
  /\ stack' = Called(Passed(d), d)
  /\ UNCHANGED <<inputVars, status, waiting, results, delivered, order, totals>>

VisitDependency(d) ==
  /\ ~ waiting
  /\ stack # <<>>
  /\ AtDependency(d)
  /\ CASE d \notin Executed ->
            stack' = Called(Entered(d), d) /\ UNCHANGED <<status, waiting>>
       [] d \in Executed /\ DependencyFailed(d) -> Abort
       [] d \in Executed /\ ~ DependencyFailed(d) ->
            stack' = Passed(d) /\ UNCHANGED <<status, waiting>>
  /\ UNCHANGED <<inputVars, results, delivered, order, totals>>

(* Every dependency was visited. *)
Ready == ~ waiting /\ stack # <<>> /\ Top.left = {}

IsContainer == stops = ContainerStops

Resolved(w) == w \in delivered

(* SubstituteInputs: a Default is for inputs that are not Required. *)
UnresolvedInputs(n) == {w \in wants[n] : w[1] \in Mappings /\ ~ Resolved(w)}

(* A function takes the Default of a Required input as well. *)
MissingInputs(n) == {w \in UnresolvedInputs(n) : IsContainer \/ w[1] # "defaulted"}

MissingArtifacts(n) == {w \in wants[n] : w[1] = "artifact"} \ delivered

(* A DataInput without data is passed over, Optional or not. *)
StartActivity ==
  /\ Ready
  /\ MissingInputs(Top.node) = {}
  /\ MissingArtifacts(Top.node) = {}
  /\ waiting' = TRUE
  /\ UNCHANGED <<inputVars, status, stack, results, delivered, order, totals>>

(* A required input was not captured. *)
InputFails ==
  /\ Ready
  /\ MissingInputs(Top.node) # {}
  /\ Abort
  /\ UNCHANGED <<inputVars, results, delivered, order, totals>>

(* An artifact is not there, or its download fails. *)
DownloadFails ==
  /\ Ready
  /\ MissingInputs(Top.node) = {}
  /\ \E w \in wants[Top.node] : w[1] = "artifact"
  /\ Abort
  /\ UNCHANGED <<inputVars, results, delivered, order, totals>>

(* What other nodes take from n. *)
Asked(kinds, n) == {w \in kinds \X {n} : \E m \in Nodes : w \in wants[m]}

DeclaredOutputs(n) == Asked(Mappings \ {"undeclared"}, n)

(* ExtractOutputs: one output that cannot be extracted loses them all. *)
ContainerOutputs(n) == {{}, DeclaredOutputs(n)}

FunctionOutputs(n) == SUBSET DeclaredOutputs(n)

Outputs(n) == IF IsContainer THEN ContainerOutputs(n) ELSE FunctionOutputs(n)

(* Each upload succeeds or fails by itself. *)
Uploads(n) == SUBSET Asked({"artifact"}, n)

Data(n) == SUBSET Asked({"data"}, n)

(* Extraction and upload failures are logged, and the node counts as a     *)
(* success; a node that failed delivers nothing.                           *)
DeliverAlways(n, o) ==
  \E X \in Outputs(n), U \in Uploads(n), D \in Data(n) :
    delivered' = delivered \cup X \cup U \cup D

Deliver(n, o) ==
  IF o = "ok"
    THEN \E X \in Outputs(n), U \in Uploads(n), D \in Data(n) :
           delivered' = delivered \cup X \cup U \cup D
    ELSE UNCHANGED delivered

Counted(o) ==
  IF o = "ok" THEN [totals EXCEPT !.success = @ + 1]
              ELSE [totals EXCEPT !.failed = @ + 1]

(* The activity of the last call ends with outcome o. *)
ActivityEnds(o) ==
  /\ waiting
  /\ LET n == Top.node
     IN  /\ Deliver(n, o)
         /\ results' = [results EXCEPT ![n] = o]
         /\ order' = Append(order, n)
  /\ totals' = Counted(o)
  /\ IF failFast /\ o \in stops
       THEN Abort
       ELSE /\ stack' = SubSeq(stack, 1, Len(stack) - 1)
            /\ waiting' = FALSE
            /\ UNCHANGED status
  /\ UNCHANGED inputVars

Next ==
  \/ CallNode
  \/ Complete
  \/ \E d \in Nodes : VisitDependency(d)
  \/ StartActivity
  \/ InputFails
  \/ DownloadFails
  \/ \E o \in Outcomes : ActivityEnds(o)

Spec == Init /\ [][Next]_vars
-----------------------------------------------------------------------------
(* Properties *)

(* NodeResults, "in execution order", is a topological order of the graph: *)
(* a node is executed after all of its dependencies, and no node is        *)
(* executed twice although several nodes may depend on it.                 *)
TopologicalOrder ==
  \A i \in DOMAIN order :
    /\ deps[order[i]] \subseteq {order[j] : j \in 1 .. (i - 1)}
    /\ order[i] \notin {order[j] : j \in 1 .. (i - 1)}

(* Under FailFast no node is executed downstream of a failed one, also     *)
(* where the failed node itself did not end the run.                       *)
FailureBlocks == failFast => \A n \in Executed : deps[n] \cap Failed = {}

(* "FailFast determines if the workflow should stop on first failure."     *)
(* (payload_extended.go:98): once a node failed, no activity is started,   *)
(* and the run does not complete without an error.                         *)
FailFastStops ==
  failFast /\ Failed # {} => ~ waiting /\ status # "completed"

(* The function package keeps that promise, whichever way a node fails.    *)
FunctionFailFast == stops = FunctionStops => FailFastStops

(* A node is executed only with what it must have: every required input    *)
(* and every artifact comes from a node that was executed before it and    *)
(* succeeded, whatever failed in between; that node need not be among its  *)
(* Dependencies, and a failed extraction or upload does not fail it.       *)
InputsProduced ==
  \A i \in DOMAIN order : \A w \in wants[order[i]] :
    w[1] # "data" /\ (w[1] = "defaulted" => IsContainer) =>
      /\ w[1] # "undeclared"
      /\ \E j \in 1 .. (i - 1) : order[j] = w[2] /\ results[w[2]] = "ok"

(* DAGWorkflow returns on every input, whatever fails: no call of dfs or   *)
(* of executeNode recurses forever.                                        *)
Terminates == <>(status \in {"completed", "failed"})
=============================================================================
