------------------------------ MODULE DagGraph ------------------------------
(***************************************************************************)
(* Dependency graphs as the DAG workflows take them: the nodes are numbered *)
(* by their position in input.Nodes, and a graph maps a node to the set of *)
(* its Dependencies.                                                       *)
(***************************************************************************)
EXTENDS Integers

Graphs(N) == [N -> SUBSET N]

(* No non-empty set of nodes in which every node depends on one of the set:*)
(* on a finite set of nodes, no circular dependency.                       *)
Acyclic(N, G) == \A S \in SUBSET N : S # {} => \E n \in S : G[n] \cap S = {}
=============================================================================
