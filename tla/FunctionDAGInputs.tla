-------------------------- MODULE FunctionDAGInputs --------------------------
(***************************************************************************)
(* The DAGBuilder of src/function/builder as values (see BuilderInputs).   *)
(* A node has the set of its Dependencies, by name, the names its Outputs  *)
(* and Inputs mappings add, and the node its DataInput comes from.         *)
(***************************************************************************)
EXTENDS LoopInputs, DagGraph

NewDAGBuilder(name) ==
  [name |-> name, tasks |-> <<>>, failFast |-> FALSE, maxParallel |-> 0, errors |-> <<>>]

NodeNames(nodes) == {nodes[k].name : k \in DOMAIN nodes}

Node(name, function, deps) ==
  [name |-> name, function |-> function, deps |-> deps,
   outputs |-> {}, inputs |-> {}, data |-> ""]

(* The positions of the nodes called name: nodeIndex. *)
IndexOf(b, name) == {k \in DOMAIN b.tasks : b.tasks[k].name = name}

AddNodeWithInput(b, name, function, deps) ==
  IF IndexOf(b, name) # {}
    THEN Accumulate(b, "duplicate node name")
    ELSE [b EXCEPT !.tasks = Append(@, Node(name, function, deps))]

AddNode(b, name, source, deps) ==
  IF source = "nil" THEN Accumulate(b, "cannot add nil source")
                    ELSE AddNodeWithInput(b, name, source, deps)

WithMapping(b, name, field, value) ==
  IF IndexOf(b, name) = {}
    THEN Accumulate(b, "unknown node")
    ELSE [b EXCEPT !.tasks = [k \in DOMAIN @ |->
                                IF k \in IndexOf(b, name) THEN [@[k] EXCEPT ![field] = value]
                                                          ELSE @[k]]]

WithOutputMapping(b, name, mapping) ==
  WithMapping(b, name, "outputs",
              (UNION {b.tasks[k].outputs : k \in IndexOf(b, name)}) \cup {mapping})

WithInputMapping(b, name, mapping) ==
  WithMapping(b, name, "inputs",
              (UNION {b.tasks[k].inputs : k \in IndexOf(b, name)}) \cup {mapping})

WithDataMapping(b, name, from) == WithMapping(b, name, "data", from)

(* Validate of the DAG input: names, then dependencies, then cycles. *)
ValidDAG(nodes) ==
  LET N    == NodeNames(nodes)
      deps == [n \in N |-> nodes[CHOOSE k \in DOMAIN nodes : nodes[k].name = n].deps]
  IN  /\ nodes # <<>>
      /\ \A k \in DOMAIN nodes : ValidFunction(nodes[k].name)
      /\ Cardinality(N) = Len(nodes)
      /\ deps \in Graphs(N)
      /\ Acyclic(N, deps)

BuildDAG(b) ==
  IF Ready(b) /\ ValidDAG(b.tasks)
    THEN [type |-> "dag", tasks |-> b.tasks, failFast |-> b.failFast,
          maxParallel |-> b.maxParallel]
    ELSE Failed
=============================================================================
