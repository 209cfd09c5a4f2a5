---------------------------- MODULE MCDagWorkflow ----------------------------
EXTENDS DagWorkflow

(* At most one declaration in the whole graph, from any node to any other. *)
OneWant ==
  {[n \in 1 .. Count |-> {}]} \cup
    {[n \in 1 .. Count |-> IF n = m THEN {w} ELSE {}] :
       m \in 1 .. Count, w \in Kinds \X (1 .. Count)}

(* Two declared outputs of one node, taken by another node or by two. *)
TwoOutputs ==
  {[n \in 1 .. Count |->
      {<<k, 1>> : k \in {k \in {"required", "defaulted"} : n = taker[k]}}] :
     taker \in [{"required", "defaulted"} -> 2 .. Count]}

MCWants == OneWant \cup TwoOutputs

NoWants == {[n \in 1 .. Count |-> {}]}
=============================================================================
