--------------------------- MODULE DagValidation ---------------------------
(***************************************************************************)
(* Validate of a DAG input and its detectCycles, as in                     *)
(* src/function/payload/payload_extended.go; src/container/payload and     *)
(* src/workflow/dag.go hold copies of the algorithm.  The depth-first      *)
(* search colours each node and keeps its calls on a stack.                *)
(*                                                                         *)
(* Nodes have distinct names, here their positions; 0 is a dependency name *)
(* that no node has.  The order of a node's dependencies is an input,      *)
(* chosen while the search visits them.                                    *)
(***************************************************************************)
EXTENDS DagGraph, Sequences, FiniteSetsExt

CONSTANT Count   \* number of nodes, as in DagRun

Nodes == 1 .. Count

VARIABLES
  deps,     \* input: Dependencies, by name
  state,    \* colour of each node
  stack,    \* the calls of dfs: [node, left], left not yet visited
  verdict   \* "none" before the search, then "searching" until it returns

vars == <<deps, state, stack, verdict>>

TypeOK ==
  /\ deps \in [Nodes -> SUBSET (0 .. Count)]
  /\ state \in [Nodes -> {"unvisited", "visiting", "visited"}]
  /\ stack \in Seq([node : Nodes, left : SUBSET Nodes])
  /\ {stack[i].node : i \in DOMAIN stack} = {n \in Nodes : state[n] = "visiting"}
  /\ Len(stack) <= Count
  /\ verdict \in {"none", "searching", "accepted", "rejected"}

Top == stack[Len(stack)]

(* The last call has dealt with its dependency d. *)
Visited(d) == [stack EXCEPT ![Len(stack)].left = @ \ {d}]

Call(n, calls) ==
  /\ state' = [state EXCEPT ![n] = "visiting"]
  /\ stack' = Append(calls, [node |-> n, left |-> deps[n]])

Init ==
  /\ deps \in [Nodes -> SUBSET (0 .. Count)]
  /\ state = [n \in Nodes |-> "unvisited"]
  /\ stack = <<>>
  /\ verdict = "none"

(* Every dependency must name a node before the search starts. *)
CheckNames ==
  /\ verdict = "none"
  /\ verdict' = IF deps \in Graphs(Nodes) THEN "searching" ELSE "rejected"
  /\ UNCHANGED <<deps, state, stack>>

CallRoot ==
  LET unvisited == {n \in Nodes : state[n] = "unvisited"}
  IN  /\ verdict = "searching"
      /\ stack = <<>>
      /\ IF unvisited = {}
           THEN verdict' = "accepted" /\ UNCHANGED <<state, stack>>
           ELSE Call(Min(unvisited), stack) /\ UNCHANGED verdict
      /\ UNCHANGED deps

IsVisited(d) == state[d] # "unvisited"

IsVisiting(d) == state[d] = "visiting"

VisitDependency(d) ==
  /\ verdict = "searching"
  /\ stack # <<>>
  /\ d \in Top.left
  /\ CASE IsVisiting(d) -> verdict' = "rejected" /\ UNCHANGED <<state, stack>>
       [] ~ IsVisiting(d) /\ state[d] = "unvisited" ->
            Call(d, Visited(d)) /\ UNCHANGED verdict
       [] ~ IsVisiting(d) /\ state[d] # "unvisited" ->
            stack' = Visited(d) /\ UNCHANGED <<state, verdict>>
  /\ UNCHANGED deps

Leave ==
  /\ verdict = "searching"
  /\ stack # <<>>
  /\ Top.left = {}
  /\ state' = [state EXCEPT ![Top.node] = "visited"]
  /\ stack' = SubSeq(stack, 1, Len(stack) - 1)
  /\ UNCHANGED <<deps, verdict>>

Next ==
  \/ CheckNames
  \/ CallRoot
  \/ \E d \in Nodes : VisitDependency(d)
  \/ Leave

Spec == Init /\ [][Next]_vars
-----------------------------------------------------------------------------
(* Validate accepts exactly the graphs without a circular dependency whose *)
(* dependencies all exist: it rejects every cycle wherever it lies, and a  *)
(* node that is reached twice is not mistaken for one.                     *)
VerdictCorrect ==
  verdict \in {"accepted", "rejected"} =>
    (verdict = "accepted" <=> deps \in Graphs(Nodes) /\ Acyclic(Nodes, deps))
=============================================================================
