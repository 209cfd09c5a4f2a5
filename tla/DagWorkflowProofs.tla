-------------------------- MODULE DagWorkflowProofs --------------------------
(***************************************************************************)
(* Proofs about the DAG workflow, from the submitted graph to the last     *)
(* result, for any number of nodes and any declared inputs: the search of  *)
(* Validate decides acyclicity, and the walk that starts when it accepts   *)
(* runs the nodes in a topological order, blocks what is downstream of a   *)
(* failure and runs no node without what it requires.                      *)
(***************************************************************************)
EXTENDS DagWorkflow, FiniteInduction, FiniteSetTheorems, TLAPS

-----------------------------------------------------------------------------
(* Paths in graphs *)

(* Returning from the last call leaves the calls below it.                 *)
LEMMA PopFacts ==
  ASSUME NEW T, NEW s \in Seq(T), s # <<>>
  PROVE  LET t == SubSeq(s, 1, Len(s) - 1)
         IN  /\ t \in Seq(T) /\ Len(t) = Len(s) - 1 /\ DOMAIN t = 1 .. (Len(s) - 1)
             /\ \A i \in 1 .. (Len(s) - 1) : t[i] = s[i]
<1> DEFINE t == SubSeq(s, 1, Len(s) - 1)
<1>1. Len(s) \in Nat /\ Len(s) # 0 /\ DOMAIN s = 1 .. Len(s)
  OBVIOUS
<1>2. \A i \in 1 .. (Len(s) - 1) : s[i] \in T
  BY <1>1
<1>3. t \in Seq(T)
  BY <1>1, <1>2
<1>4. Len(t) = Len(s) - 1
  BY <1>1, <1>2
<1>5. DOMAIN t = 1 .. (Len(s) - 1)
  BY <1>1, <1>3, <1>4
<1>6. \A i \in 1 .. (Len(s) - 1) : t[i] = s[i]
  BY <1>1, <1>2
<1> QED BY <1>3, <1>4, <1>5, <1>6

(* A path that leads back to one of its nodes is a circular dependency:    *)
(* what the search finds in its stack, and what the walk's stack never is. *)
LEMMA PathBackIsCycle ==
  ASSUME NEW N, NEW G \in Graphs(N),
         NEW L \in Nat, NEW i \in 1 .. L, NEW p \in [1 .. L -> N],
         \A m \in 1 .. (L - 1) : p[m + 1] \in G[p[m]],
         p[i] \in G[p[L]]
  PROVE  ~ Acyclic(N, G)
<1> DEFINE S == {p[m] : m \in i .. L}
<1>1. S \in SUBSET N /\ p[i] \in S
  OBVIOUS
<1>2. ASSUME NEW n \in S, G[n] \cap S = {} PROVE FALSE
  <2>1. PICK m \in i .. L : n = p[m]
    OBVIOUS
  <2>2. CASE m = L
    BY <1>1, <1>2, <2>1, <2>2
  <2>3. CASE m # L
    <3>1. m \in 1 .. (L - 1) /\ m + 1 \in i .. L
      BY <2>3
    <3>2. p[m + 1] \in G[n] /\ p[m + 1] \in S
      BY <2>1, <3>1
    <3> QED BY <1>2, <3>2
  <2> QED BY <2>2, <2>3
<1> QED BY <1>1, <1>2 DEF Acyclic

(* Calls for distinct nodes are at most as many as there are nodes.        *)
LEMMA DistinctNodesBound ==
  ASSUME NEW L \in Nat, NEW p \in [1 .. L -> Nodes],
         \A i, j \in 1 .. L : i # j => p[i] # p[j]
  PROVE  L <= Count
<1>1. Count \in Nat
  BY CountAssumption
<1>2. IsFiniteSet(1 .. L) /\ Cardinality(1 .. L) = L
  BY FS_Interval
<1>3. IsFiniteSet(Nodes) /\ Cardinality(Nodes) = Count
  BY <1>1, CountAssumption, FS_Interval DEF Nodes
<1> SUFFICES ASSUME Count < L PROVE FALSE
  BY <1>1
<1>4. \E i, j \in 1 .. L : i # j /\ p[i] = p[j]
  BY <1>2, <1>3, FS_PigeonHole
<1> QED BY <1>4
-----------------------------------------------------------------------------
(* Validate *)

Colour(c) == {n \in Nodes : state[n] = c}

Path(s) == [i \in 1 .. Len(s) |-> s[i].node]

(* The calls of dfs form a path without repetition, and what a call has    *)
(* passed is visited, or is what it is calling.                            *)
SearchStack ==
  /\ \A i, j \in DOMAIN calls : i # j => calls[i].node # calls[j].node
  /\ \A i \in 1 .. (Len(calls) - 1) : calls[i + 1].node \in deps[calls[i].node]
  /\ \A i \in DOMAIN calls :
       /\ calls[i].left \subseteq deps[calls[i].node]
       /\ \A d \in deps[calls[i].node] \ calls[i].left :
            state[d] = "visited" \/ (i < Len(calls) /\ d = calls[i + 1].node)

(* The visited nodes depend on each other only, without a cycle.           *)
VisitedAcyclic ==
  /\ \A n \in Colour("visited") : deps[n] \subseteq Colour("visited")
  /\ Acyclic(Colour("visited"), deps)

SearchInv ==
  /\ Search!TypeOK
  /\ verdict = "none" => calls = <<>> /\ \A n \in Nodes : state[n] = "unvisited"
  /\ verdict \in {"searching", "accepted"} =>
       /\ deps \in Graphs(Nodes)
       /\ SearchStack
       /\ VisitedAcyclic
  /\ verdict = "accepted" => Colour("visited") = Nodes
  /\ verdict = "rejected" => ~ (deps \in Graphs(Nodes) /\ Acyclic(Nodes, deps))

(* The search reads the same graphs as the walk.                           *)
LEMMA SearchGraphs ==
  /\ Search!Nodes = Nodes
  /\ Search!Graphs(Nodes) = Graphs(Nodes)
  /\ \A N, G : Search!Acyclic(N, G) = Acyclic(N, G)
BY DEF Search!Nodes, Nodes, Search!Graphs, Graphs, Search!Acyclic, Acyclic

(* The verdict is right in every state of the invariant.                   *)
LEMMA SearchInvDecides ==
  ASSUME SearchInv
  PROVE  VerdictCorrect
<1>1. ASSUME verdict = "accepted" PROVE deps \in Graphs(Nodes) /\ Acyclic(Nodes, deps)
  BY <1>1 DEF SearchInv, VisitedAcyclic
<1> QED BY <1>1, SearchGraphs DEF SearchInv, VerdictCorrect, Search!VerdictCorrect

(* Before the search nothing is visited.                                   *)
LEMMA SearchInit ==
  ASSUME Search!Init
  PROVE  SearchInv
<1>1. Search!TypeOK
  BY CountAssumption DEF Search!Init, Search!TypeOK, Search!Nodes
<1> QED BY <1>1 DEF Search!Init, SearchInv, Search!Nodes, Nodes

Call == [node : Nodes, left : SUBSET Nodes]

(* What the steps of the search need to know of a state before the end.    *)
LEMMA SearchingFacts ==
  ASSUME SearchInv, verdict = "searching"
  PROVE  /\ deps \in [Nodes -> SUBSET Nodes]
         /\ calls \in Seq(Call)
         /\ Len(calls) \in Nat /\ DOMAIN calls = 1 .. Len(calls)
         /\ \A i \in 1 .. Len(calls) : calls[i] \in Call
         /\ state \in [Nodes -> {"unvisited", "visiting", "visited"}]
         /\ {calls[i].node : i \in DOMAIN calls} = Colour("visiting")
         /\ SearchStack /\ VisitedAcyclic
<1>1. Search!TypeOK /\ deps \in Graphs(Nodes) /\ SearchStack /\ VisitedAcyclic
  BY DEF SearchInv
<1>2. deps \in [Nodes -> SUBSET Nodes]
  BY <1>1 DEF Graphs
<1>3. calls \in Seq(Call)
  BY <1>1, SearchGraphs DEF Search!TypeOK, Call
<1>4. Len(calls) \in Nat /\ DOMAIN calls = 1 .. Len(calls) /\ \A i \in 1 .. Len(calls) : calls[i] \in Call
  BY <1>3
<1>5. /\ state \in [Nodes -> {"unvisited", "visiting", "visited"}]
      /\ {calls[i].node : i \in DOMAIN calls} = Colour("visiting")
  BY <1>1, SearchGraphs DEF Search!TypeOK, Colour
<1> QED BY <1>1, <1>2, <1>3, <1>4, <1>5

(* The last call takes the dependency d off its list.                      *)
LEMMA VisitedFacts ==
  ASSUME SearchInv, verdict = "searching", calls # <<>>, NEW d \in Nodes
  PROVE  /\ Search!Visited(d) \in Seq(Call)
         /\ Len(Search!Visited(d)) = Len(calls)
         /\ \A i \in DOMAIN calls :
              /\ Search!Visited(d)[i].node = calls[i].node
              /\ Search!Visited(d)[i].left =
                   IF i = Len(calls) THEN calls[i].left \ {d} ELSE calls[i].left
<1> DEFINE top == calls[Len(calls)]
           s == [calls EXCEPT ![Len(calls)] = [top EXCEPT !.left = @ \ {d}]]
<1>1. /\ calls \in Seq(Call) /\ Len(calls) \in Nat /\ DOMAIN calls = 1 .. Len(calls)
      /\ \A i \in 1 .. Len(calls) : calls[i] \in Call
  BY SearchingFacts
<1>2. Len(calls) \in 1 .. Len(calls)
  BY <1>1
<1>3. top \in Call /\ [top EXCEPT !.left = @ \ {d}] \in Call
  BY <1>1, <1>2 DEF Call
<1>4. Search!Visited(d) = s
  BY <1>1 DEF Search!Visited
<1>5. s \in Seq(Call) /\ Len(s) = Len(calls)
  BY <1>1, <1>2, <1>3
<1>6. ASSUME NEW i \in DOMAIN calls
      PROVE  /\ s[i].node = calls[i].node
             /\ s[i].left = IF i = Len(calls) THEN calls[i].left \ {d} ELSE calls[i].left
  BY <1>1, <1>2, <1>3 DEF Call
<1> HIDE DEF s
<1> QED BY <1>4, <1>5, <1>6

(* An unvisited node n is called: it joins the path, as the next node.     *)
LEMMA CallKeepsSearchInv ==
  ASSUME SearchInv, verdict = "searching",
         NEW n \in Nodes, state[n] = "unvisited",
         NEW s \in Seq(Call), Len(s) = Len(calls),
         \A i \in DOMAIN calls :
           /\ s[i].node = calls[i].node
           /\ s[i].left = IF i = Len(calls) THEN calls[i].left \ {n} ELSE calls[i].left,
         calls # <<>> => n \in calls[Len(calls)].left,
         Search!Call(n, s), UNCHANGED <<deps, verdict>>
  PROVE  SearchInv'
<1> DEFINE L == Len(calls)
           c == [node |-> n, left |-> deps[n]]
<1>0. /\ deps \in [Nodes -> SUBSET Nodes]
      /\ L \in Nat /\ DOMAIN calls = 1 .. L /\ Len(s) = L /\ DOMAIN s = 1 .. L
      /\ \A i \in 1 .. L : s[i] \in Call /\ calls[i] \in Call
      /\ state \in [Nodes -> {"unvisited", "visiting", "visited"}]
      /\ {calls[i].node : i \in 1 .. L} = Colour("visiting")
      /\ SearchStack /\ VisitedAcyclic
  BY SearchingFacts
<1>00. L \in Nat
  BY <1>0
<1>1. /\ c \in Call /\ calls' = Append(s, c) /\ c.node = n /\ c.left = deps[n]
      /\ state' = [state EXCEPT ![n] = "visiting"]
  BY <1>0 DEF Search!Call, Call
<1>2. /\ calls' \in Seq(Call) /\ Len(calls') = L + 1 /\ DOMAIN calls' = 1 .. (L + 1)
      /\ \A i \in 1 .. L : calls'[i] = s[i]
      /\ calls'[L + 1] = c
  BY <1>0, <1>1
<1>3. ASSUME NEW i \in 1 .. L PROVE calls'[i].node = calls[i].node /\ calls'[i].node # n
  <2>1. calls[i].node \in Colour("visiting")
    BY <1>0
  <2> QED BY <2>1, <1>0, <1>2 DEF Colour
<1>4. \A i, j \in 1 .. (L + 1) : i # j => calls'[i].node # calls'[j].node
  <2>1. \A i, j \in 1 .. L : i # j => calls[i].node # calls[j].node
    BY <1>0 DEF SearchStack
  <2>2. \A i \in 1 .. (L + 1) : i \in 1 .. L \/ i = L + 1
    BY <1>0
  <2> QED BY <2>1, <2>2, <1>1, <1>2, <1>3
<1>5. L + 1 <= Count
  <2> DEFINE p == [i \in 1 .. (L + 1) |-> calls'[i].node]
  <2>1. \A i \in 1 .. (L + 1) : calls'[i] \in Call
    BY <1>2
  <2>2. p \in [1 .. (L + 1) -> Nodes]
    BY <2>1 DEF Call
  <2>3. \A i, j \in 1 .. (L + 1) : i # j => p[i] # p[j]
    BY <1>4
  <2>4. L + 1 \in Nat
    BY <1>0
  <2> HIDE DEF p
  <2> QED BY <2>2, <2>3, <2>4, DistinctNodesBound
<1>6. {calls'[i].node : i \in 1 .. (L + 1)} = {m \in Nodes : state'[m] = "visiting"}
  <2>1. \A i \in 1 .. (L + 1) : i \in 1 .. L \/ i = L + 1
    BY <1>0
  <2>2. {calls'[i].node : i \in 1 .. (L + 1)} = {calls[i].node : i \in 1 .. L} \cup {n}
    <3>1. 1 .. L \subseteq 1 .. (L + 1) /\ L + 1 \in 1 .. (L + 1) /\ calls'[L + 1].node = n
      BY <1>00, <1>1, <1>2
    <3> QED BY <3>1, <2>1, <1>3
  <2>3. {m \in Nodes : state'[m] = "visiting"} = Colour("visiting") \cup {n}
    BY <1>0, <1>1 DEF Colour
  <2> QED BY <2>2, <2>3, <1>0
<1>7. Search!TypeOK'
  <2>1. deps' \in [Nodes -> SUBSET (0 .. Count)]
    BY SearchGraphs DEF SearchInv, Search!TypeOK
  <2>2. state' \in [Nodes -> {"unvisited", "visiting", "visited"}]
    BY <1>0, <1>1
  <2> QED BY <2>1, <2>2, <1>2, <1>5, <1>6, SearchGraphs DEF Search!TypeOK, Call
<1>8. SearchStack'
  <2>1. \A i \in 1 .. L : calls'[i + 1].node \in deps'[calls'[i].node]
    <3> TAKE i \in 1 .. L
    <3>1. CASE i = L
      <4>1. n \in calls[L].left
        BY <3>1, <1>0
      <4>2. n \in deps[calls[L].node]
        BY <4>1, <3>1, <1>0 DEF SearchStack
      <4> QED BY <4>2, <3>1, <1>1, <1>2, <1>3
    <3>2. CASE i # L
      <4> HIDE DEF L
      <4>1. i \in 1 .. (L - 1) /\ i + 1 \in 1 .. L
        BY <3>2, <1>00
      <4> QED BY <4>1, <1>0, <1>3 DEF SearchStack
    <3> QED BY <3>1, <3>2
  <2>2. ASSUME NEW i \in 1 .. (L + 1)
        PROVE  /\ calls'[i].left \subseteq deps'[calls'[i].node]
               /\ \A d \in deps'[calls'[i].node] \ calls'[i].left :
                    state'[d] = "visited" \/ (i < L + 1 /\ d = calls'[i + 1].node)
    <3>1. CASE i = L + 1
      BY <3>1, <1>1, <1>2
    <3>2. CASE i \in 1 .. L
      <4>1. /\ calls[i].left \subseteq deps[calls[i].node]
            /\ \A d \in deps[calls[i].node] \ calls[i].left :
                 state[d] = "visited" \/ (i < L /\ d = calls[i + 1].node)
        BY <1>0, <3>2 DEF SearchStack
      <4>2. calls'[i].left \subseteq deps'[calls'[i].node]
        <5>1. calls'[i].left \subseteq calls[i].left
          BY <3>2, <1>2, <1>0
        <5>2. calls'[i].node = calls[i].node /\ deps' = deps
          BY <3>2, <1>3
        <5> QED BY <4>1, <5>1, <5>2
      <4>3. ASSUME NEW d \in deps'[calls'[i].node] \ calls'[i].left
            PROVE  state'[d] = "visited" \/ (i < L + 1 /\ d = calls'[i + 1].node)
        <5>1. d \in Nodes /\ d \in deps[calls[i].node]
          BY <3>2, <1>3, <1>0 DEF Call
        <5>2. CASE d \in calls[i].left
          <6>1. i = L /\ d = n
            BY <5>2, <4>3, <3>2, <1>0, <1>2
          <6>2. L < L + 1 /\ calls'[L + 1].node = n
            BY <1>00, <1>1, <1>2
          <6> QED BY <6>1, <6>2
        <5>3. CASE d \notin calls[i].left
          <6>1. state[d] = "visited" \/ (i < L /\ d = calls[i + 1].node)
            BY <4>1, <5>1, <5>3
          <6>2. CASE state[d] = "visited"
            BY <6>2, <5>1, <1>0, <1>1
          <6>3. CASE i < L /\ d = calls[i + 1].node
            <7>1. i + 1 \in 1 .. L
              BY <6>3, <3>2, <1>0
            <7> QED BY <7>1, <6>3, <1>3, <1>0
          <6> QED BY <6>1, <6>2, <6>3
        <5> QED BY <5>2, <5>3
      <4> QED BY <4>2, <4>3
    <3> QED BY <3>1, <3>2, <1>0
  <2> QED BY <2>1, <2>2, <1>2, <1>4, <1>0 DEF SearchStack
<1>9. VisitedAcyclic'
  <2>1. Colour("visited")' = Colour("visited")
    BY <1>0, <1>1 DEF Colour
  <2> QED BY <2>1, <1>0 DEF VisitedAcyclic, Acyclic
<1> QED BY <1>7, <1>8, <1>9 DEF SearchInv, Graphs

(* A visited dependency is passed: the path stays as it is.                *)
LEMMA PassKeepsSearchInv ==
  ASSUME SearchInv, verdict = "searching", calls # <<>>,
         NEW d \in Nodes, state[d] = "visited",
         calls' = Search!Visited(d), UNCHANGED <<deps, state, verdict>>
  PROVE  SearchInv'
<1> DEFINE L == Len(calls)
<1>0. /\ calls \in Seq(Call) /\ L \in Nat /\ DOMAIN calls = 1 .. L
      /\ \A i \in 1 .. L : calls[i] \in Call
      /\ SearchStack /\ VisitedAcyclic
  BY SearchingFacts
<1>1. /\ calls' \in Seq(Call) /\ Len(calls') = L
      /\ \A i \in 1 .. L :
           /\ calls'[i].node = calls[i].node
           /\ calls'[i].left = IF i = L THEN calls[i].left \ {d} ELSE calls[i].left
  BY <1>0, VisitedFacts
<1>2. DOMAIN calls' = 1 .. L
  <2>1. calls' \in Seq(Call) /\ Len(calls') = L
    BY <1>1
  <2> QED BY <2>1
<1>3. \A i \in 1 .. L : calls'[i].node = calls[i].node
  BY <1>1
<1>4. {calls'[i].node : i \in DOMAIN calls'} = {calls[i].node : i \in DOMAIN calls}
  <2>1. {calls'[i].node : i \in 1 .. L} = {calls[i].node : i \in 1 .. L}
    BY <1>3
  <2> QED BY <2>1, <1>0, <1>2
<1>5. Search!TypeOK'
  BY <1>1, <1>4, SearchGraphs DEF SearchInv, Search!TypeOK, Call
<1>6. SearchStack'
  <2>1. \A i, j \in 1 .. L : i # j => calls'[i].node # calls'[j].node
    <3>1. \A i, j \in 1 .. L : i # j => calls[i].node # calls[j].node
      BY <1>0 DEF SearchStack
    <3> QED BY <3>1, <1>3
  <2>2. \A i \in 1 .. (L - 1) : calls'[i + 1].node \in deps'[calls'[i].node]
    <3> TAKE i \in 1 .. (L - 1)
    <3>1. calls[i + 1].node \in deps[calls[i].node]
      BY <1>0 DEF SearchStack
    <3>2. L \in Nat
      BY <1>0
    <3>3. i \in 1 .. L /\ i + 1 \in 1 .. L
      <4> HIDE DEF L
      <4> QED BY <3>2
    <3> QED BY <3>1, <3>3, <1>3
  <2>3. ASSUME NEW i \in 1 .. L
        PROVE  /\ calls'[i].left \subseteq deps'[calls'[i].node]
               /\ \A e \in deps'[calls'[i].node] \ calls'[i].left :
                    state'[e] = "visited" \/ (i < L /\ e = calls'[i + 1].node)
    <3>1. /\ calls[i].left \subseteq deps[calls[i].node]
          /\ \A e \in deps[calls[i].node] \ calls[i].left :
               state[e] = "visited" \/ (i < L /\ e = calls[i + 1].node)
      BY <1>0 DEF SearchStack
    <3>2. i < L => i + 1 \in 1 .. L
      BY <1>0
    <3> QED BY <3>1, <3>2, <1>1
  <2> QED BY <2>1, <2>2, <2>3, <1>1, <1>2 DEF SearchStack
<1>7. VisitedAcyclic'
  BY <1>0 DEF VisitedAcyclic, Colour, Acyclic
<1> QED BY <1>5, <1>6, <1>7 DEF SearchInv, Graphs

(* A visiting dependency closes a circle: the rejection is right.          *)
LEMMA RejectKeepsSearchInv ==
  ASSUME SearchInv, verdict = "searching", calls # <<>>,
         NEW d \in calls[Len(calls)].left, state[d] = "visiting",
         verdict' = "rejected", UNCHANGED <<deps, calls, state>>
  PROVE  SearchInv'
<1> DEFINE L == Len(calls)
           p == [i \in 1 .. L |-> calls[i].node]
<1>0. /\ deps \in [Nodes -> SUBSET Nodes]
      /\ L \in Nat /\ DOMAIN calls = 1 .. L
      /\ \A i \in 1 .. L : calls[i] \in Call
      /\ {calls[i].node : i \in 1 .. L} = Colour("visiting")
      /\ SearchStack
  BY SearchingFacts
<1>1. L \in 1 .. L
  BY <1>0, SearchingFacts
<1>2. d \in deps[p[L]] /\ d \in Nodes
  BY <1>0, <1>1 DEF SearchStack, Call
<1>3. PICK i \in 1 .. L : calls[i].node = d
  <2>1. d \in Colour("visiting")
    BY <1>2 DEF Colour
  <2> QED BY <2>1, <1>0
<1>4. p \in [1 .. L -> Nodes]
  BY <1>0 DEF Call
<1>5. \A m \in 1 .. (L - 1) : p[m + 1] \in deps[p[m]]
  <2> TAKE m \in 1 .. (L - 1)
  <2>1. m \in 1 .. L /\ m + 1 \in 1 .. L
    BY <1>0
  <2> QED BY <2>1, <1>0 DEF SearchStack
<1>6. p[i] \in deps[p[L]]
  BY <1>2, <1>3
<1>7. ~ Acyclic(Nodes, deps)
  <2>1. deps \in Graphs(Nodes)
    BY <1>0 DEF Graphs
  <2> HIDE DEF p, L
  <2> QED BY <2>1, <1>0, <1>4, <1>5, <1>6, PathBackIsCycle
<1>8. Search!TypeOK'
  BY SearchGraphs DEF SearchInv, Search!TypeOK
<1> QED BY <1>7, <1>8 DEF SearchInv

(* A call returns: its node depends on visited nodes only, and joins them. *)
LEMMA LeaveKeepsSearchInv ==
  ASSUME SearchInv, Search!Leave
  PROVE  SearchInv'
<1> DEFINE L == Len(calls)
           n == calls[L].node
<1>0. /\ verdict = "searching" /\ calls # <<>> /\ calls[L].left = {}
      /\ state' = [state EXCEPT ![n] = "visited"]
      /\ calls' = SubSeq(calls, 1, L - 1)
      /\ UNCHANGED <<deps, verdict>>
  BY DEF Search!Leave, Search!Top
<1>1. /\ deps \in [Nodes -> SUBSET Nodes]
      /\ calls \in Seq(Call) /\ DOMAIN calls = 1 .. L
      /\ \A i \in 1 .. L : calls[i] \in Call
      /\ state \in [Nodes -> {"unvisited", "visiting", "visited"}]
      /\ {calls[i].node : i \in 1 .. L} = Colour("visiting")
      /\ SearchStack /\ VisitedAcyclic
  BY <1>0, SearchingFacts
<1>2. L \in Nat /\ L \in 1 .. L /\ L - 1 \in Nat
  BY <1>0, <1>1
<1>3. n \in Nodes /\ n \in Colour("visiting")
  BY <1>1, <1>2 DEF Call
<1>4. /\ calls' \in Seq(Call) /\ Len(calls') = L - 1 /\ DOMAIN calls' = 1 .. (L - 1)
      /\ \A i \in 1 .. (L - 1) : calls'[i] = calls[i] /\ i \in 1 .. L /\ i # L
  <2>1. calls \in Seq(Call) /\ calls # <<>> /\ calls' = SubSeq(calls, 1, Len(calls) - 1)
    BY <1>0, <1>1
  <2> HIDE DEF L
  <2>2. \A i \in 1 .. (L - 1) : i \in 1 .. L /\ i # L
    BY <1>2
  <2> USE DEF L
  <2> QED BY <2>1, <2>2, PopFacts
<1>5. \A i \in 1 .. (L - 1) : calls[i].node # n
  BY <1>1, <1>2, <1>4 DEF SearchStack
<1>6. Colour("visited")' = Colour("visited") \cup {n}
  BY <1>0, <1>1, <1>3 DEF Colour
<1>7. deps[n] \subseteq Colour("visited")
  <2> SUFFICES ASSUME NEW d \in deps[n] PROVE d \in Colour("visited")
    OBVIOUS
  <2>1. \A e \in deps[n] \ calls[L].left :
          state[e] = "visited" \/ (L < L /\ e = calls[L + 1].node)
    BY <1>1, <1>2 DEF SearchStack
  <2>2. state[d] = "visited"
    BY <2>1, <1>0, <1>2
  <2> QED BY <2>2, <1>1, <1>3 DEF Colour
<1>8. Search!TypeOK'
  <2>1. deps' \in [Nodes -> SUBSET (0 .. Count)] /\ L <= Count
    BY <1>0, SearchGraphs DEF SearchInv, Search!TypeOK
  <2>2. state' \in [Nodes -> {"unvisited", "visiting", "visited"}]
    BY <1>0, <1>1
  <2>3. {calls'[i].node : i \in 1 .. (L - 1)} = {m \in Nodes : state'[m] = "visiting"}
    <3>1. {calls'[i].node : i \in 1 .. (L - 1)} = Colour("visiting") \ {n}
      <4>1. \A i \in 1 .. L : i \in 1 .. (L - 1) \/ i = L
        BY <1>2
      <4>2. {calls[i].node : i \in 1 .. (L - 1)} = {calls[i].node : i \in 1 .. L} \ {n}
        BY <4>1, <1>4, <1>5
      <4>3. {calls'[i].node : i \in 1 .. (L - 1)} = {calls[i].node : i \in 1 .. (L - 1)}
        BY <1>4
      <4> QED BY <4>2, <4>3, <1>1
    <3>2. {m \in Nodes : state'[m] = "visiting"} = Colour("visiting") \ {n}
      BY <1>0, <1>1 DEF Colour
    <3> QED BY <3>1, <3>2
  <2>4. L - 1 <= Count
    BY <2>1, <1>2, CountAssumption
  <2> QED BY <2>1, <2>2, <2>3, <2>4, <1>0, <1>4, SearchGraphs DEF SearchInv, Search!TypeOK, Call
<1>9. SearchStack'
  <2>1. ASSUME NEW i \in 1 .. (L - 1), NEW d \in deps'[calls'[i].node] \ calls'[i].left
        PROVE  state'[d] = "visited" \/ (i < L - 1 /\ d = calls'[i + 1].node)
    <3>1. i \in 1 .. L /\ d \in deps[calls[i].node] \ calls[i].left
      BY <1>0, <1>4
    <3>2. d \in Nodes
      BY <3>1, <1>1 DEF Call
    <3>3. state[d] = "visited" \/ (i < L /\ d = calls[i + 1].node)
      BY <3>1, <1>1 DEF SearchStack
    <3>4. CASE state[d] = "visited"
      BY <3>4, <3>2, <1>0, <1>1
    <3>5. CASE i < L /\ d = calls[i + 1].node
      <4>1. CASE i + 1 = L
        BY <4>1, <3>5, <3>2, <1>0, <1>1
      <4>2. CASE i + 1 # L
        <5>1. i < L - 1 /\ i + 1 \in 1 .. (L - 1)
          BY <4>2, <3>5, <1>2
        <5> QED BY <5>1, <3>5, <1>4
      <4> QED BY <4>1, <4>2
    <3> QED BY <3>3, <3>4, <3>5
  <2>2. \A i \in 1 .. (L - 1) : calls'[i].left \subseteq deps'[calls'[i].node]
    BY <1>0, <1>1, <1>4 DEF SearchStack
  <2>3. \A i \in 1 .. (L - 1 - 1) : calls'[i + 1].node \in deps'[calls'[i].node]
    <3> TAKE i \in 1 .. (L - 1 - 1)
    <3>1. i \in 1 .. (L - 1) /\ i + 1 \in 1 .. (L - 1)
      BY <1>2
    <3> QED BY <3>1, <1>0, <1>1, <1>4 DEF SearchStack
  <2>4. \A i, j \in 1 .. (L - 1) : i # j => calls'[i].node # calls'[j].node
    BY <1>1, <1>4 DEF SearchStack
  <2> QED BY <2>1, <2>2, <2>3, <2>4, <1>4 DEF SearchStack
<1>10. VisitedAcyclic'
  <2> DEFINE V == Colour("visited")
  <2>1. \A m \in V \cup {n} : deps[m] \subseteq V
    BY <1>1, <1>7 DEF VisitedAcyclic
  <2>2. n \notin V
    BY <1>3 DEF Colour
  <2>3. ASSUME NEW S \in SUBSET (V \cup {n}), S # {}
        PROVE  \E m \in S : deps[m] \cap S = {}
    <3>1. CASE S \subseteq {n}
      BY <3>1, <2>1, <2>2, <2>3
    <3>2. CASE ~ (S \subseteq {n})
      <4>1. S \ {n} \in SUBSET V /\ S \ {n} # {}
        BY <3>2
      <4>2. PICK m \in S \ {n} : deps[m] \cap (S \ {n}) = {}
        BY <4>1, <1>1 DEF VisitedAcyclic, Acyclic
      <4>3. n \notin deps[m]
        BY <2>1, <2>2
      <4> QED BY <4>2, <4>3
    <3> QED BY <3>1, <3>2
  <2> QED BY <2>1, <2>3, <1>0, <1>6 DEF VisitedAcyclic, Acyclic
<1> QED BY <1>0, <1>1, <1>8, <1>9, <1>10 DEF SearchInv, Graphs

(* Every step of Validate keeps the invariant.                             *)
LEMMA SearchStep ==
  ASSUME SearchInv, Search!Next
  PROVE  SearchInv'
<1>1. ASSUME Search!CheckNames PROVE SearchInv'
  <2>1. verdict' = IF deps \in Graphs(Nodes) THEN "searching" ELSE "rejected"
    BY <1>1, SearchGraphs DEF Search!CheckNames
  <2>2. /\ verdict = "none" /\ calls = <<>> /\ Search!TypeOK
        /\ \A n \in Nodes : state[n] = "unvisited"
        /\ UNCHANGED <<deps, state, calls>>
    BY <1>1 DEF Search!CheckNames, SearchInv
  <2>3. Search!TypeOK'
    BY <2>1, <2>2, SearchGraphs DEF Search!TypeOK
  <2>4. SearchStack'
    BY <2>2 DEF SearchStack
  <2>5. VisitedAcyclic'
    BY <2>2 DEF VisitedAcyclic, Acyclic, Colour
  <2> QED BY <2>1, <2>2, <2>3, <2>4, <2>5 DEF SearchInv
<1>2. ASSUME Search!CallRoot PROVE SearchInv'
  <2> DEFINE U == {n \in Search!Nodes : state[n] = "unvisited"}
  <2>1. verdict = "searching" /\ calls = <<>> /\ UNCHANGED deps
    BY <1>2 DEF Search!CallRoot
  <2>2. CASE U = {}
    <3>1. verdict' = "accepted" /\ UNCHANGED <<state, calls>>
      BY <1>2, <2>2 DEF Search!CallRoot
    <3>2. Colour("visited")' = Nodes
      <4>1. Colour("visiting") = {}
        BY <2>1, SearchingFacts
      <4> QED BY <4>1, <2>1, <2>2, <3>1, SearchGraphs, SearchingFacts DEF Colour
    <3>3. Search!TypeOK'
      BY <2>1, <3>1, SearchGraphs DEF SearchInv, Search!TypeOK
    <3>4. SearchStack' /\ VisitedAcyclic'
      BY <2>1, <3>1 DEF SearchInv, SearchStack, VisitedAcyclic, Acyclic, Colour
    <3> QED BY <2>1, <3>1, <3>2, <3>3, <3>4 DEF SearchInv, Graphs
  <2>3. CASE U # {}
    <3> DEFINE n == Search!Min(U)
    <3>1. Search!Call(n, calls) /\ UNCHANGED verdict
      BY <1>2, <2>3, Zenon DEF Search!CallRoot
    <3>2. n \in U
      <4>1. U \subseteq Nat
        BY DEF Search!Nodes
      <4>2. Min(U) \in U
        BY <4>1, <2>3, MinNat
      <4> HIDE DEF U
      <4> QED BY <4>2 DEF Search!Min, Min
    <3>3. n \in Nodes /\ state[n] = "unvisited"
      BY <3>2, SearchGraphs
    <3>4. calls \in Seq(Call) /\ Len(calls) = Len(calls)
      BY <2>1, SearchingFacts
    <3>5. DOMAIN calls = {}
      BY <2>1
    <3> HIDE DEF U, n
    <3> QED BY <2>1, <3>1, <3>3, <3>4, <3>5, CallKeepsSearchInv
  <2> QED BY <2>2, <2>3
<1>3. ASSUME NEW d \in Nodes, Search!VisitDependency(d) PROVE SearchInv'
  <2>1. verdict = "searching" /\ calls # <<>> /\ d \in calls[Len(calls)].left /\ UNCHANGED deps
    BY <1>3 DEF Search!VisitDependency, Search!Top
  <2>2. CASE state[d] = "visiting"
    <3>1. verdict' = "rejected" /\ UNCHANGED <<state, calls>>
      BY <1>3, <2>2 DEF Search!VisitDependency, Search!IsVisiting
    <3> QED BY <2>1, <2>2, <3>1, RejectKeepsSearchInv
  <2>3. CASE state[d] = "unvisited"
    <3>1. Search!Call(d, Search!Visited(d)) /\ UNCHANGED verdict
      BY <1>3, <2>3 DEF Search!VisitDependency, Search!IsVisiting
    <3> QED BY <2>1, <2>3, <3>1, VisitedFacts, CallKeepsSearchInv
  <2>4. CASE state[d] = "visited"
    <3>1. calls' = Search!Visited(d) /\ UNCHANGED <<state, verdict>>
      BY <1>3, <2>4 DEF Search!VisitDependency, Search!IsVisiting
    <3> QED BY <2>1, <2>4, <3>1, PassKeepsSearchInv
  <2>5. state[d] \in {"unvisited", "visiting", "visited"}
    BY <2>1, SearchingFacts
  <2> QED BY <2>2, <2>3, <2>4, <2>5
<1> QED BY <1>1, <1>2, <1>3, LeaveKeepsSearchInv, SearchGraphs DEF Search!Next

(* Outside the search its state stays, and so does the invariant.          *)
LEMMA SearchStutter ==
  ASSUME SearchInv, UNCHANGED <<deps, searchVars>>
  PROVE  SearchInv'
BY SearchGraphs
   DEF SearchInv, searchVars, Search!TypeOK, SearchStack, VisitedAcyclic, Acyclic, Colour, Graphs

(* A walk or a decision of the workflow is a stutter of the search.        *)
LEMMA WorkflowKeepsSearchInv ==
  ASSUME SearchInv, [WorkflowNext]_<<vars, searchVars>>
  PROVE  SearchInv'
<1>1. ASSUME Next PROVE UNCHANGED deps
  BY <1>1
  DEF Next, CallNode, Complete, VisitDependency, StartActivity, InputFails, DownloadFails,
      ActivityEnds, inputVars
<1>2. CASE Validate
  BY <1>2, SearchStep DEF Validate
<1>3. CASE Begin
  BY <1>3, SearchStutter DEF Begin
<1>4. CASE InvalidInput
  BY <1>4, SearchStutter DEF InvalidInput, inputVars
<1>5. CASE Walk
  BY <1>5, <1>1, SearchStutter DEF Walk
<1>6. CASE UNCHANGED <<vars, searchVars>>
  BY <1>6, SearchStutter DEF vars, inputVars
<1> QED BY <1>2, <1>3, <1>4, <1>5, <1>6 DEF WorkflowNext

(* Validate decides, for every graph: what it accepts has no circular      *)
(* dependency and names existing nodes only, and what it rejects does not. *)
THEOREM ValidateDecidesAcyclicity == WorkflowSpec => []VerdictCorrect
<1>1. WorkflowInit => SearchInv
  BY SearchInit DEF WorkflowInit
<1>2. SearchInv /\ [WorkflowNext]_<<vars, searchVars>> => SearchInv'
  BY WorkflowKeepsSearchInv
<1>3. SearchInv => VerdictCorrect
  BY SearchInvDecides
<1> QED BY <1>1, <1>2, <1>3, PTL DEF WorkflowSpec
-----------------------------------------------------------------------------
(* The walk *)

Frame == [node : Nodes, left : SUBSET Nodes, at : 0 .. Count]

(* A call of executeNode is for a node that was not executed; what it has  *)
(* passed was executed and, under FailFast, has not failed.                *)
CallOK(c) ==
  /\ c.node \notin Executed
  /\ c.left \subseteq deps[c.node]
  /\ c.at \in c.left \cup {0}
  /\ deps[c.node] \ c.left \subseteq Executed
  /\ failFast => (deps[c.node] \ c.left) \cap Failed = {}

(* Each call is for the dependency that the call below it is at, and an    *)
(* activity was started with all the node requires.                        *)
WalkStack ==
  /\ \A i \in DOMAIN stack : CallOK(stack[i])
  /\ \A i \in 1 .. (Len(stack) - 1) : stack[i + 1].node = stack[i].at
  /\ waiting => /\ stack # <<>> /\ Top.left = {}
                /\ MissingInputs(Top.node) = {} /\ MissingArtifacts(Top.node) = {}

(* What was recorded: the executed nodes, each after its dependencies, and *)
(* outputs of nodes that succeeded.                                        *)
Recorded ==
  /\ {order[i] : i \in DOMAIN order} = Executed
  /\ \A n \in Executed : deps[n] \subseteq Executed
  /\ \A w \in delivered : w[1] # "undeclared" /\ results[w[2]] = "ok"

FailureEnds == failFast /\ stops = FunctionStops /\ Failed # {} => status = "failed"

Promises == TopologicalOrder /\ FailureBlocks /\ InputsProduced /\ FailureEnds

WalkInv ==
  /\ TypeOK
  /\ status = "validating" => WalkInit
  /\ status = "running" => deps \in Graphs(Nodes) /\ Acyclic(Nodes, deps)
  /\ status # "running" => stack = <<>>
  /\ WalkStack
  /\ Recorded
  /\ Promises

(* The invariant gives what each run promises.                             *)
LEMMA WalkInvPromises ==
  ASSUME WalkInv
  PROVE  TopologicalOrder /\ FailureBlocks /\ InputsProduced /\ FunctionFailFast
<1>1. ASSUME stops = FunctionStops, failFast, Failed # {} PROVE ~ waiting /\ status # "completed"
  BY <1>1 DEF WalkInv, Promises, FailureEnds, WalkStack
<1> QED BY <1>1 DEF WalkInv, Promises, FunctionFailFast, FailFastStops

(* Before the first call nothing is promised yet.                          *)
LEMMA WalkStarts ==
  (/\ WalkInit
   /\ deps \in [Nodes -> SUBSET (0 .. Count)]
   /\ status \in {"validating", "running", "failed"}
   /\ status = "running" => deps \in Graphs(Nodes) /\ Acyclic(Nodes, deps)
   /\ wants \in [Nodes -> SUBSET (Kinds \X Nodes)]
   /\ failFast \in BOOLEAN
   /\ stops \in {FunctionStops, ContainerStops}) => WalkInv
<1> SUFFICES ASSUME WalkInit,
                    deps \in [Nodes -> SUBSET (0 .. Count)],
                    status \in {"validating", "running", "failed"},
                    status = "running" => deps \in Graphs(Nodes) /\ Acyclic(Nodes, deps),
                    wants \in [Nodes -> SUBSET (Kinds \X Nodes)],
                    failFast \in BOOLEAN,
                    stops \in {FunctionStops, ContainerStops}
             PROVE  WalkInv
  OBVIOUS
<1>1. /\ stack = <<>> /\ Len(stack) = 0 /\ DOMAIN stack = {} /\ stack \in Seq(Frame)
      /\ order = <<>> /\ DOMAIN order = {} /\ order \in Seq(Nodes)
  BY DEF WalkInit
<1>2. Executed = {} /\ Failed = {}
  BY DEF WalkInit, Executed, Failed, Failures
<1>3. TypeOK
  <2>1. Len(stack) <= Count
    BY <1>1, CountAssumption
  <2>2. results \in [Nodes -> Outcomes \cup {"none"}] /\ totals \in [success : Nat, failed : Nat]
    BY DEF WalkInit
  <2>3. waiting \in BOOLEAN /\ (waiting => stack # <<>>) /\ delivered \in SUBSET (Kinds \X Nodes)
    BY DEF WalkInit
  <2> QED BY <1>1, <2>1, <2>2, <2>3 DEF TypeOK, Frame
<1>4. WalkStack
  BY <1>1 DEF WalkStack, WalkInit
<1>5. Recorded
  BY <1>1, <1>2 DEF Recorded, WalkInit
<1>6. Promises
  BY <1>1, <1>2 DEF Promises, TopologicalOrder, FailureBlocks, InputsProduced, FailureEnds
<1> QED BY <1>1, <1>3, <1>4, <1>5, <1>6 DEF WalkInv

(* Calls that form a path in an acyclic graph are for distinct nodes, and  *)
(* are at most as many as there are nodes.                                 *)
LEMMA PathIsSimple ==
  ASSUME deps \in Graphs(Nodes), Acyclic(Nodes, deps),
         NEW s \in Seq(Frame),
         \A i \in 1 .. (Len(s) - 1) : s[i + 1].node \in deps[s[i].node]
  PROVE  /\ \A i, j \in 1 .. Len(s) : i # j => s[i].node # s[j].node
         /\ Len(s) <= Count
<1> DEFINE L == Len(s)
           p == [i \in 1 .. L |-> s[i].node]
<1>1. L \in Nat /\ \A i \in 1 .. L : s[i] \in Frame
  OBVIOUS
<1>2. p \in [1 .. L -> Nodes]
  BY <1>1 DEF Frame
<1>3. ASSUME NEW i \in 1 .. L, NEW j \in 1 .. L, i < j, s[i].node = s[j].node PROVE FALSE
  <2> DEFINE q == [m \in 1 .. (j - 1) |-> s[m].node]
  <2>1. j - 1 \in Nat /\ i \in 1 .. (j - 1) /\ j - 1 \in 1 .. (j - 1) /\ j - 1 \in 1 .. (L - 1)
    <3> HIDE DEF L
    <3> QED BY <1>1, <1>3
  <2>2. \A m \in 1 .. (j - 1) : m \in 1 .. L /\ m \in 1 .. (L - 1)
    <3> HIDE DEF L
    <3> QED BY <1>1, <1>3
  <2>3. q \in [1 .. (j - 1) -> Nodes]
    BY <1>1, <2>2 DEF Frame
  <2>4. \A m \in 1 .. (j - 1 - 1) : q[m + 1] \in deps[q[m]]
    <3> TAKE m \in 1 .. (j - 1 - 1)
    <3>1. m \in 1 .. (j - 1) /\ m + 1 \in 1 .. (j - 1)
      BY <2>1
    <3> QED BY <3>1, <2>2
  <2>5. q[i] \in deps[q[j - 1]]
    <3>1. (j - 1) + 1 = j
      BY <1>1
    <3>2. s[j].node \in deps[s[j - 1].node]
      BY <2>1, <3>1
    <3> QED BY <3>2, <2>1, <1>3
  <2> HIDE DEF q, L
  <2> QED BY <2>1, <2>3, <2>4, <2>5, PathBackIsCycle
<1>4. \A i, j \in 1 .. L : i # j => s[i].node # s[j].node
  <2> SUFFICES ASSUME NEW i \in 1 .. L, NEW j \in 1 .. L, i # j PROVE s[i].node # s[j].node
    OBVIOUS
  <2>1. i < j \/ j < i
    OBVIOUS
  <2> QED BY <2>1, <1>3
<1>5. \A i, j \in 1 .. L : i # j => p[i] # p[j]
  BY <1>4
<1>6. L <= Count
  <2> HIDE DEF p, L
  <2> QED BY <1>1, <1>2, <1>5, DistinctNodesBound
<1> QED BY <1>4, <1>6

(* What the steps of the walk need to know of its calls.                   *)
LEMMA CallsFacts ==
  ASSUME WalkInv
  PROVE  /\ deps \in [Nodes -> SUBSET (0 .. Count)]
         /\ stack \in Seq(Frame)
         /\ Len(stack) \in Nat /\ DOMAIN stack = 1 .. Len(stack)
         /\ \A i \in 1 .. Len(stack) : stack[i] \in Frame /\ CallOK(stack[i])
         /\ \A i \in 1 .. (Len(stack) - 1) : stack[i + 1].node = stack[i].at
         /\ stack # <<>> => /\ status = "running"
                            /\ deps \in [Nodes -> SUBSET Nodes]
                            /\ Acyclic(Nodes, deps)
                            /\ Len(stack) \in 1 .. Len(stack)
<1>1. stack \in Seq(Frame) /\ WalkStack /\ deps \in [Nodes -> SUBSET (0 .. Count)]
  BY DEF WalkInv, TypeOK, Frame
<1>2. Len(stack) \in Nat /\ DOMAIN stack = 1 .. Len(stack) /\ \A i \in 1 .. Len(stack) : stack[i] \in Frame
  BY <1>1
<1>3. /\ \A i \in 1 .. Len(stack) : CallOK(stack[i])
      /\ \A i \in 1 .. (Len(stack) - 1) : stack[i + 1].node = stack[i].at
  BY <1>1, <1>2 DEF WalkStack
<1>4. ASSUME stack # <<>>
      PROVE  status = "running" /\ deps \in Graphs(Nodes) /\ Acyclic(Nodes, deps)
  BY <1>4 DEF WalkInv
<1>5. stack # <<>> => Len(stack) \in 1 .. Len(stack)
  BY <1>1
<1> QED BY <1>1, <1>2, <1>3, <1>4, <1>5 DEF Graphs

(* The calls form a path: each node depends on the node called from it.    *)
LEMMA CallsArePath ==
  ASSUME WalkInv
  PROVE  \A i \in 1 .. (Len(stack) - 1) : stack[i + 1].node \in deps[stack[i].node]
<1> TAKE i \in 1 .. (Len(stack) - 1)
<1>1. i \in 1 .. Len(stack) /\ i + 1 \in 1 .. Len(stack)
  BY CallsFacts
<1>2. /\ CallOK(stack[i]) /\ stack[i + 1] \in Frame
      /\ stack[i + 1].node = stack[i].at
  BY <1>1, CallsFacts
<1>3. stack[i + 1].node # 0
  BY <1>2 DEF Frame, Nodes
<1> QED BY <1>2, <1>3 DEF CallOK

(* A call with another list of dependencies.                               *)
LEMMA LeftWritten ==
  ASSUME NEW c \in Frame, NEW X
  PROVE  [c EXCEPT !.left = X] = [node |-> c.node, left |-> X, at |-> c.at]
<1>1. DOMAIN c = {"node", "left", "at"}
  BY DEF Frame
<1>2. [c EXCEPT !.left = X] = [f \in {"node", "left", "at"} |-> IF f = "left" THEN X ELSE c[f]]
  BY <1>1
<1> QED BY <1>2

(* Writing the entry of the last call leaves the rest of the stack.        *)
LEMMA TopWritten ==
  ASSUME WalkInv, stack # <<>>, NEW d \in Nodes
  PROVE  /\ Entered(d) \in Seq(Frame) /\ Passed(d) \in Seq(Frame)
         /\ Len(Entered(d)) = Len(stack) /\ Len(Passed(d)) = Len(stack)
         /\ \A i \in 1 .. Len(stack) :
              /\ Entered(d)[i] =
                   IF i = Len(stack) THEN [node |-> Top.node, left |-> Top.left, at |-> d] ELSE stack[i]
              /\ Passed(d)[i] =
                   IF i = Len(stack) THEN [node |-> Top.node, left |-> Top.left \ {d}, at |-> 0] ELSE stack[i]
<1> DEFINE L == Len(stack)
           e == [node |-> Top.node, left |-> Top.left, at |-> d]
           p == [node |-> Top.node, left |-> Top.left \ {d}, at |-> 0]
<1>1. stack \in Seq(Frame) /\ L \in 1 .. L /\ Top = stack[L] /\ Top \in Frame
  BY CallsFacts DEF Top
<1>2. Count \in Nat /\ 0 \in 0 .. Count /\ d \in 0 .. Count
  BY CountAssumption DEF Nodes
<1>3. e \in Frame /\ p \in Frame
  BY <1>1, <1>2 DEF Frame
<1>4. [Top EXCEPT !.at = d] = e
  BY <1>1 DEF Frame
<1>5. [[Top EXCEPT !.at = 0] EXCEPT !.left = @ \ {d}] = p
  <2> DEFINE t == [node |-> Top.node, left |-> Top.left, at |-> 0]
  <2>1. [Top EXCEPT !.at = 0] = t
    BY <1>1 DEF Frame
  <2>2. t \in Frame /\ t.node = Top.node /\ t.left = Top.left /\ t.at = 0
    BY <1>1, <1>2 DEF Frame
  <2> HIDE DEF t
  <2>3. [t EXCEPT !.left = t.left \ {d}] = [node |-> t.node, left |-> t.left \ {d}, at |-> t.at]
    BY <2>2, LeftWritten
  <2>4. [t EXCEPT !.left = t.left \ {d}] = p
    BY <2>2, <2>3
  <2> HIDE DEF p
  <2> QED BY <2>1, <2>4
<1>6. Entered(d) = [stack EXCEPT ![L] = e]
  BY <1>1, <1>4 DEF Entered
<1>7. Passed(d) = [stack EXCEPT ![L] = p]
  BY <1>1, <1>5 DEF Passed
<1>8. ASSUME NEW c \in Frame
      PROVE  /\ [stack EXCEPT ![L] = c] \in Seq(Frame)
             /\ Len([stack EXCEPT ![L] = c]) = L
             /\ \A i \in 1 .. L : [stack EXCEPT ![L] = c][i] = IF i = L THEN c ELSE stack[i]
  BY <1>1
<1> HIDE DEF e, p
<1> QED BY <1>3, <1>6, <1>7, <1>8 DEF e, p

(* A node is called that was not executed, by the loop over input.Nodes or *)
(* as a dependency of the last call.                                       *)
LEMMA CallKeepsWalkInv ==
  ASSUME WalkInv, status = "running", ~ waiting,
         NEW n \in Nodes, n \notin Executed,
         NEW s \in Seq(Frame), Len(s) = Len(stack),
         \A i \in 1 .. Len(stack) :
           s[i] = IF i = Len(stack) THEN [node |-> Top.node, left |-> Top.left, at |-> n]
                                    ELSE stack[i],
         stack # <<>> => n \in Top.left,
         stack' = Called(s, n),
         UNCHANGED <<inputVars, status, waiting, results, delivered, order, totals>>
  PROVE  WalkInv'
<1> DEFINE L == Len(stack)
           c == [node |-> n, left |-> deps[n], at |-> 0]
<1>0. L \in Nat /\ deps \in Graphs(Nodes) /\ Acyclic(Nodes, deps)
  BY CallsFacts DEF WalkInv
<1>1. c \in Frame
  BY <1>0, CountAssumption DEF Frame, Graphs
<1>2. /\ stack' \in Seq(Frame) /\ Len(stack') = L + 1 /\ DOMAIN stack' = 1 .. (L + 1)
      /\ \A i \in 1 .. L : stack'[i] = s[i]
      /\ stack'[L + 1] = c
  BY <1>0, <1>1 DEF Called
<1>3. \A i \in 1 .. (L + 1) : i \in 1 .. L \/ i = L + 1
  BY <1>0
<1>4. \A i \in 1 .. L : stack'[i].node = stack[i].node /\ stack'[i].left = stack[i].left
  BY <1>2 DEF Top
<1>5. \A i \in 1 .. L : stack'[i].at = IF i = L THEN n ELSE stack[i].at
  BY <1>2 DEF Top
<1>6. ASSUME NEW i \in 1 .. (L + 1) PROVE CallOK(stack'[i])
  <2>1. CASE i = L + 1
    BY <2>1, <1>2 DEF CallOK
  <2>2. CASE i \in 1 .. L
    <3>1. CallOK(stack[i])
      BY <2>2, CallsFacts
    <3>2. stack'[i].at \in stack[i].left \cup {0}
      BY <2>2, <3>1, <1>5, <1>0 DEF CallOK, Top
    <3> QED BY <3>1, <3>2, <2>2, <1>4 DEF CallOK
  <2> QED BY <2>1, <2>2, <1>3
<1>7. \A i \in 1 .. L : stack'[i + 1].node = stack'[i].at
  <2> TAKE i \in 1 .. L
  <2>1. CASE i = L
    BY <2>1, <1>2, <1>5
  <2>2. CASE i # L
    <3>1. i \in 1 .. (L - 1) /\ i + 1 \in 1 .. L
      <4> HIDE DEF L
      <4> QED BY <2>2, <1>0
    <3> QED BY <3>1, <2>2, <1>4, <1>5, CallsFacts
  <2> QED BY <2>1, <2>2
<1>8. Executed' = Executed /\ Failed' = Failed
  BY DEF Executed, Failed
<1>9. WalkStack'
  <2>1. ASSUME NEW i \in DOMAIN stack' PROVE CallOK(stack[i])'
    BY <1>2, <1>6, <1>8 DEF CallOK, inputVars
  <2> QED BY <2>1, <1>2, <1>7, <1>0 DEF WalkStack
<1>10. L + 1 <= Count
  <2>1. \A i \in 1 .. (L + 1 - 1) : stack'[i + 1].node \in deps[stack'[i].node]
    <3> TAKE i \in 1 .. (L + 1 - 1)
    <3>1. i \in 1 .. L /\ i + 1 \in 1 .. (L + 1) /\ i \in 1 .. (L + 1)
      BY <1>0
    <3>2. CallOK(stack'[i]) /\ stack'[i + 1] \in Frame /\ stack'[i + 1].node = stack'[i].at
      BY <3>1, <1>2, <1>6, <1>7
    <3>3. stack'[i + 1].node # 0
      BY <3>2 DEF Frame, Nodes
    <3> QED BY <3>2, <3>3 DEF CallOK
  <2>2. stack' \in Seq(Frame) /\ Len(stack') = L + 1
    BY <1>2
  <2>3. \A i \in 1 .. (Len(stack') - 1) : stack'[i + 1].node \in deps[stack'[i].node]
    BY <2>1, <2>2
  <2>4. Len(stack') <= Count
    BY <2>2, <2>3, <1>0, PathIsSimple
  <2> QED BY <2>2, <2>4
<1>11. TypeOK'
  BY <1>2, <1>10 DEF WalkInv, TypeOK, inputVars, Frame
<1>12. Recorded' /\ Promises'
  BY <1>8 DEF WalkInv, Recorded, Promises, TopologicalOrder, FailureBlocks, InputsProduced,
              FailureEnds, IsContainer, inputVars
<1> QED BY <1>0, <1>9, <1>11, <1>12 DEF WalkInv, inputVars

(* An executed dependency d that lets the walk go on is passed.            *)
LEMMA PassKeepsWalkInv ==
  ASSUME WalkInv, stack # <<>>, ~ waiting,
         NEW d \in Nodes, d \in Executed, ~ DependencyFailed(d),
         stack' = Passed(d),
         UNCHANGED <<inputVars, status, waiting, results, delivered, order, totals>>
  PROVE  WalkInv'
<1> DEFINE L == Len(stack)
<1>0. /\ L \in Nat /\ L \in 1 .. L /\ DOMAIN stack = 1 .. L /\ L <= Count
      /\ \A i \in 1 .. L : stack[i] \in Frame /\ CallOK(stack[i])
      /\ results \in [Nodes -> Outcomes \cup {"none"}]
  BY CallsFacts DEF WalkInv, TypeOK
<1>1. /\ stack' \in Seq(Frame) /\ Len(stack') = L /\ DOMAIN stack' = 1 .. L
      /\ \A i \in 1 .. L : i # L => stack'[i] = stack[i]
      /\ stack'[L].node = stack[L].node /\ stack'[L].left = stack[L].left \ {d} /\ stack'[L].at = 0
  <2>1. stack' \in Seq(Frame) /\ Len(stack') = L
    BY TopWritten
  <2>2. DOMAIN stack' = 1 .. L
    BY <2>1
  <2>3. \A i \in 1 .. L : i # L => stack'[i] = stack[i]
    BY TopWritten
  <2>4. stack'[L] = [node |-> Top.node, left |-> Top.left \ {d}, at |-> 0]
    BY <1>0, TopWritten
  <2>5. stack'[L].node = Top.node /\ stack'[L].left = Top.left \ {d} /\ stack'[L].at = 0
    BY <2>4
  <2>6. Top = stack[L]
    BY DEF Top
  <2> QED BY <2>1, <2>2, <2>3, <2>5, <2>6
<1>2. Executed' = Executed /\ Failed' = Failed
  BY DEF Executed, Failed
<1>3. failFast => d \notin Failed
  BY DEF DependencyFailed, Failed, Failures
<1>4. ASSUME NEW i \in 1 .. L PROVE CallOK(stack'[i])
  <2>1. CallOK(stack[i])
    BY <1>0
  <2>2. CASE i = L
    <3>1. /\ stack'[i].node = stack[i].node /\ stack'[i].at = 0
          /\ stack'[i].left = stack[i].left \ {d}
      BY <1>1, <2>2
    <3> QED BY <2>1, <3>1, <1>3 DEF CallOK
  <2>3. CASE i # L
    BY <1>1, <2>1, <2>3
  <2> QED BY <2>2, <2>3
<1>5. \A i \in 1 .. (L - 1) : stack'[i + 1].node = stack'[i].at
  <2> TAKE i \in 1 .. (L - 1)
  <2>1. i \in 1 .. L /\ i # L /\ i + 1 \in 1 .. L
    <3> HIDE DEF L
    <3> QED BY <1>0
  <2>2. stack'[i + 1].node = stack[i + 1].node
    BY <2>1, <1>1
  <2> QED BY <2>1, <2>2, <1>1, CallsFacts
<1>6. WalkStack'
  <2>1. ASSUME NEW i \in DOMAIN stack' PROVE CallOK(stack[i])'
    BY <1>1, <1>2, <1>4 DEF CallOK, inputVars
  <2> QED BY <2>1, <1>1, <1>5 DEF WalkStack
<1>7. TypeOK'
  BY <1>0, <1>1 DEF WalkInv, TypeOK, inputVars, Frame
<1>8. Recorded' /\ Promises'
  BY <1>2 DEF WalkInv, Recorded, Promises, TopologicalOrder, FailureBlocks, InputsProduced,
              FailureEnds, IsContainer, inputVars
<1> QED BY <1>6, <1>7, <1>8, CallsFacts DEF WalkInv, inputVars

(* An error ends every call and changes nothing that was recorded.         *)
LEMMA AbortKeepsWalkInv ==
  ASSUME WalkInv, stack # <<>>, Abort,
         UNCHANGED <<inputVars, results, delivered, order, totals>>
  PROVE  WalkInv'
<1>1. status' = "failed" /\ stack' = <<>> /\ waiting' = FALSE /\ Len(stack') = 0 /\ DOMAIN stack' = {}
  BY DEF Abort
<1>2. Executed' = Executed /\ Failed' = Failed
  BY DEF Executed, Failed
<1>3. TypeOK'
  <2>1. stack' \in Seq(Frame) /\ Len(stack') <= Count
    BY <1>1, CountAssumption
  <2> QED BY <1>1, <2>1 DEF WalkInv, TypeOK, inputVars, Frame
<1>4. WalkStack'
  BY <1>1 DEF WalkStack
<1>5. Recorded' /\ Promises'
  BY <1>1, <1>2 DEF WalkInv, Recorded, Promises, TopologicalOrder, FailureBlocks, InputsProduced,
                    FailureEnds, IsContainer, inputVars
<1> QED BY <1>1, <1>3, <1>4, <1>5 DEF WalkInv

(* An activity starts with all that its node requires.                     *)
LEMMA StartKeepsWalkInv ==
  ASSUME WalkInv, StartActivity
  PROVE  WalkInv'
<1>1. /\ stack # <<>> /\ Top.left = {} /\ waiting' = TRUE
      /\ MissingInputs(Top.node) = {} /\ MissingArtifacts(Top.node) = {}
      /\ UNCHANGED <<inputVars, status, stack, results, delivered, order, totals>>
  BY DEF StartActivity, Ready
<1>2. Executed' = Executed /\ Failed' = Failed /\ Top' = Top
  BY <1>1 DEF Executed, Failed, Top
<1>3. MissingInputs(Top.node)' = {} /\ MissingArtifacts(Top.node)' = {}
  BY <1>1, <1>2 DEF MissingInputs, UnresolvedInputs, Resolved, MissingArtifacts, IsContainer, inputVars
<1>4. ASSUME NEW i \in DOMAIN stack PROVE CallOK(stack[i])'
  BY <1>1, <1>2, CallsFacts DEF CallOK, inputVars
<1>5. WalkStack'
  BY <1>1, <1>2, <1>3, <1>4 DEF WalkStack, WalkInv
<1>6. TypeOK'
  BY <1>1 DEF WalkInv, TypeOK, inputVars
<1>7. Recorded' /\ Promises'
  BY <1>1, <1>2 DEF WalkInv, Recorded, Promises, TopologicalOrder, FailureBlocks, InputsProduced,
                    FailureEnds, IsContainer, inputVars
<1>8. status = "running" /\ status' = "running"
  BY <1>1, CallsFacts
<1> QED BY <1>1, <1>5, <1>6, <1>7, <1>8 DEF WalkInv, inputVars

(* Whatever a node delivers is from that node, and it succeeded.           *)
LEMMA DeliveredFacts ==
  ASSUME NEW n \in Nodes, NEW o \in Outcomes, Deliver(n, o)
  PROVE  /\ delivered \subseteq delivered'
         /\ delivered' \subseteq delivered \cup (Kinds \X {n})
         /\ \A w \in delivered' \ delivered : o = "ok" /\ w[1] # "undeclared" /\ w[2] = n
<1>1. CASE o = "ok"
  <2>1. PICK X \in Outputs(n), U \in Uploads(n), D \in Data(n) :
               delivered' = delivered \cup X \cup U \cup D
    BY <1>1 DEF Deliver
  <2>2. X \subseteq Asked(Mappings \ {"undeclared"}, n)
    BY DEF Outputs, ContainerOutputs, FunctionOutputs, DeclaredOutputs
  <2>3. X \subseteq (Mappings \ {"undeclared"}) \X {n}
    BY <2>2 DEF Asked
  <2>4. U \subseteq {"artifact"} \X {n} /\ D \subseteq {"data"} \X {n}
    BY DEF Uploads, Data, Asked
  <2> QED BY <1>1, <2>1, <2>3, <2>4 DEF Kinds, ContainerKinds, Mappings
<1>2. CASE o # "ok"
  BY <1>2 DEF Deliver
<1> QED BY <1>1, <1>2

(* A started activity has, for each thing it must take, a node before it   *)
(* that succeeded and delivered it.                                        *)
LEMMA RequiredIsDelivered ==
  ASSUME WalkInv, waiting,
         NEW w \in wants[Top.node], w[1] # "data", w[1] = "defaulted" => IsContainer
  PROVE  /\ w[1] # "undeclared" /\ results[w[2]] = "ok"
         /\ \E j \in DOMAIN order : order[j] = w[2]
<1>1. Top \in Frame /\ WalkStack /\ Recorded
  BY CallsFacts DEF WalkInv, TypeOK, Top
<1>2. w \in Kinds \X Nodes
  BY <1>1 DEF WalkInv, TypeOK, Frame
<1>3. w \in delivered
  <2>1. MissingInputs(Top.node) = {} /\ MissingArtifacts(Top.node) = {}
    BY <1>1 DEF WalkStack
  <2>2. CASE w[1] \in Mappings
    BY <2>1, <2>2 DEF MissingInputs, UnresolvedInputs, Resolved
  <2>3. CASE w[1] = "artifact"
    BY <2>1, <2>3 DEF MissingArtifacts
  <2> QED BY <1>2, <2>2, <2>3 DEF Kinds, ContainerKinds
<1>4. w[1] # "undeclared" /\ results[w[2]] = "ok"
  BY <1>1, <1>3 DEF Recorded
<1>5. w[2] \in Executed
  BY <1>2, <1>4 DEF Executed
<1> QED BY <1>1, <1>4, <1>5 DEF Recorded

(* The node of an activity that ends is recorded once, after its           *)
(* dependencies, and with everything it required.                          *)
LEMMA ResultIsRecorded ==
  ASSUME WalkInv, NEW o \in Outcomes, ActivityEnds(o)
  PROVE  /\ Recorded'
         /\ TopologicalOrder' /\ FailureBlocks' /\ InputsProduced'
         /\ Executed' = Executed \cup {Top.node}
         /\ Failed' = IF o = "ok" THEN Failed ELSE Failed \cup {Top.node}
<1> DEFINE n == Top.node
           K == Len(order)
<1>0. /\ waiting /\ stack # <<>> /\ UNCHANGED inputVars
      /\ Deliver(n, o)
      /\ results' = [results EXCEPT ![n] = o]
      /\ order' = Append(order, n)
  BY DEF ActivityEnds, WalkInv, WalkStack
<1>1. /\ Top \in Frame /\ CallOK(Top) /\ Top.left = {} /\ n \in Nodes
  BY <1>0, CallsFacts DEF Top, WalkInv, WalkStack, Frame
<1>2. n \notin Executed /\ deps[n] \subseteq Executed /\ (failFast => deps[n] \cap Failed = {})
  BY <1>1 DEF CallOK
<1>3. /\ results \in [Nodes -> Outcomes \cup {"none"}] /\ order \in Seq(Nodes) /\ K \in Nat
      /\ DOMAIN order = 1 .. K /\ Recorded /\ TopologicalOrder /\ FailureBlocks /\ InputsProduced
      /\ wants \in [Nodes -> SUBSET (Kinds \X Nodes)]
      /\ delivered \subseteq Kinds \X Nodes
  BY DEF WalkInv, TypeOK, Promises
<1>4. /\ order' \in Seq(Nodes) /\ DOMAIN order' = 1 .. (K + 1)
      /\ \A i \in 1 .. K : order'[i] = order[i]
      /\ order'[K + 1] = n
  BY <1>0, <1>1, <1>3
<1>5. \A i \in 1 .. (K + 1) : i \in 1 .. K \/ i = K + 1
  BY <1>3
<1>6. o # "none" /\ (o = "ok" <=> o \notin Failures)
  BY DEF Outcomes, Failures
<1>7. \A m \in Nodes : results'[m] = IF m = n THEN o ELSE results[m]
  BY <1>0, <1>3
<1>8. Executed' = Executed \cup {n}
  BY <1>1, <1>6, <1>7 DEF Executed
<1>9. Failed' = IF o = "ok" THEN Failed ELSE Failed \cup {n}
  <2>1. n \notin Failed
    BY <1>2 DEF Executed, Failed, Failures
  <2> QED BY <1>1, <1>6, <1>7, <2>1 DEF Failed
<1>10. {order'[j] : j \in 1 .. (K + 1)} = Executed'
  <2>1. {order'[j] : j \in 1 .. (K + 1)} = {order[j] : j \in 1 .. K} \cup {n}
    <3>1. \A i \in 1 .. K : i \in 1 .. (K + 1)
      BY <1>3
    <3>2. K + 1 \in 1 .. (K + 1)
      BY <1>3
    <3> QED BY <3>1, <3>2, <1>4, <1>5
  <2> QED BY <2>1, <1>3, <1>8 DEF Recorded
<1>11. \A m \in Executed' : deps'[m] \subseteq Executed'
  BY <1>0, <1>2, <1>3, <1>8 DEF Recorded, inputVars
<1>12. \A w \in delivered' : w[1] # "undeclared" /\ results'[w[2]] = "ok"
  <2> TAKE w \in delivered'
  <2>1. CASE w \in delivered
    <3>1. w[1] # "undeclared" /\ results[w[2]] = "ok" /\ w[2] \in Nodes
      BY <2>1, <1>3 DEF Recorded
    <3>2. w[2] # n
      BY <3>1, <1>2 DEF Executed
    <3> QED BY <3>1, <3>2, <1>7
  <2>2. CASE w \notin delivered
    <3>1. o = "ok" /\ w[1] # "undeclared" /\ w[2] = n
      BY <2>2, <1>0, <1>1, DeliveredFacts
    <3> QED BY <3>1, <1>1, <1>7
  <2> QED BY <2>1, <2>2
<1>13. Recorded'
  BY <1>4, <1>10, <1>11, <1>12 DEF Recorded
<1>14. TopologicalOrder'
  <2>1. ASSUME NEW i \in 1 .. (K + 1)
        PROVE  /\ deps[order'[i]] \subseteq {order'[j] : j \in 1 .. (i - 1)}
               /\ order'[i] \notin {order'[j] : j \in 1 .. (i - 1)}
    <3>1. \A j \in 1 .. (i - 1) : j \in 1 .. K /\ order'[j] = order[j]
      BY <1>3, <1>4
    <3>2. {order'[j] : j \in 1 .. (i - 1)} = {order[j] : j \in 1 .. (i - 1)}
      BY <3>1
    <3>3. CASE i \in 1 .. K
      BY <3>2, <3>3, <1>3, <1>4 DEF TopologicalOrder
    <3>4. CASE i = K + 1
      <4>1. {order'[j] : j \in 1 .. (i - 1)} = Executed
        <5>1. i - 1 = K
          BY <3>4, <1>3
        <5> QED BY <5>1, <3>2, <1>3 DEF Recorded
      <4> QED BY <4>1, <3>4, <1>2, <1>4
    <3> QED BY <3>3, <3>4, <1>5
  <2> QED BY <2>1, <1>0, <1>4 DEF TopologicalOrder, inputVars
<1>15. FailureBlocks'
  <2> SUFFICES ASSUME failFast', NEW m \in Executed' PROVE deps'[m] \cap Failed' = {}
    BY DEF FailureBlocks
  <2>1. failFast /\ deps' = deps
    BY <1>0 DEF inputVars
  <2>2. CASE m = n
    <3>1. n \notin deps[n]
      BY <1>2
    <3> QED BY <2>1, <2>2, <3>1, <1>2, <1>9
  <2>3. CASE m \in Executed
    <3>1. n \notin deps[m] /\ deps[m] \cap Failed = {}
      BY <2>1, <2>3, <1>2, <1>3 DEF Recorded, FailureBlocks
    <3> QED BY <2>1, <3>1, <1>9
  <2> QED BY <2>2, <2>3, <1>8
<1>16. InputsProduced'
  <2> SUFFICES ASSUME NEW i \in 1 .. (K + 1), NEW w \in wants[order'[i]],
                      w[1] # "data", w[1] = "defaulted" => IsContainer
               PROVE  /\ w[1] # "undeclared"
                      /\ \E j \in 1 .. (i - 1) : order'[j] = w[2] /\ results'[w[2]] = "ok"
    BY <1>0, <1>4 DEF InputsProduced, IsContainer, inputVars
  <2>1. order'[i] \in Nodes
    BY <1>4
  <2>2. w[2] \in Nodes
    BY <2>1, <1>3
  <2>3. ASSUME results[w[2]] = "ok" PROVE results'[w[2]] = "ok"
    BY <2>2, <2>3, <1>2, <1>7 DEF Executed
  <2>4. CASE i \in 1 .. K
    <3>1. /\ w[1] # "undeclared"
          /\ \E j \in 1 .. (i - 1) : order[j] = w[2] /\ results[w[2]] = "ok"
      BY <2>4, <1>3, <1>4 DEF InputsProduced
    <3>2. \A j \in 1 .. (i - 1) : order'[j] = order[j]
      BY <2>4, <1>3, <1>4
    <3> QED BY <3>1, <3>2, <2>3
  <2>5. CASE i = K + 1
    <3>1. w \in wants[n]
      BY <2>5, <1>4
    <3>2. /\ w[1] # "undeclared" /\ results[w[2]] = "ok"
          /\ \E j \in 1 .. K : order[j] = w[2]
      BY <3>1, <1>0, <1>3, RequiredIsDelivered
    <3>3. i - 1 = K
      BY <2>5, <1>3
    <3> QED BY <3>2, <3>3, <2>3, <1>4
  <2> QED BY <2>4, <2>5, <1>5
<1> QED BY <1>8, <1>9, <1>13, <1>14, <1>15, <1>16

(* The call of the node returns, or its error ends the walk.               *)
LEMMA EndKeepsWalkInv ==
  ASSUME WalkInv, NEW o \in Outcomes, ActivityEnds(o)
  PROVE  WalkInv'
<1> DEFINE n == Top.node
           L == Len(stack)
<1>0. /\ waiting /\ stack # <<>> /\ UNCHANGED inputVars
      /\ Deliver(n, o)
      /\ results' = [results EXCEPT ![n] = o]
      /\ order' = Append(order, n)
      /\ totals' = Counted(o)
  BY DEF ActivityEnds, WalkInv, WalkStack
<1>1. /\ L \in 1 .. L /\ L \in Nat /\ Top = stack[L] /\ n \in Nodes
      /\ stack \in Seq(Frame) /\ DOMAIN stack = 1 .. L
      /\ \A i \in 1 .. L : stack[i] \in Frame /\ CallOK(stack[i])
      /\ status = "running" /\ deps \in Graphs(Nodes) /\ Acyclic(Nodes, deps)
      /\ L <= Count
  BY <1>0, CallsFacts DEF Top, Frame, Graphs, WalkInv, TypeOK
<1>2. /\ Recorded' /\ TopologicalOrder' /\ FailureBlocks' /\ InputsProduced'
      /\ Executed' = Executed \cup {n}
      /\ Failed' = IF o = "ok" THEN Failed ELSE Failed \cup {n}
  BY ResultIsRecorded
<1>3. /\ results' \in [Nodes -> Outcomes \cup {"none"}] /\ order' \in Seq(Nodes)
      /\ delivered' \in SUBSET (Kinds \X Nodes)
      /\ totals' \in [success : Nat, failed : Nat]
  <2>1. results' \in [Nodes -> Outcomes \cup {"none"}] /\ order' \in Seq(Nodes)
    BY <1>0, <1>1 DEF WalkInv, TypeOK
  <2>2. delivered' \in SUBSET (Kinds \X Nodes)
    BY <1>0, <1>1, DeliveredFacts DEF WalkInv, TypeOK
  <2>3. totals \in [success : Nat, failed : Nat]
    BY DEF WalkInv, TypeOK
  <2>4. totals' \in [success : Nat, failed : Nat]
    BY <2>3, <1>0 DEF Counted
  <2> QED BY <2>1, <2>2, <2>4
<1>4. CASE failFast /\ o \in stops
  <2>1. status' = "failed" /\ stack' = <<>> /\ waiting' = FALSE
    BY <1>4 DEF ActivityEnds, Abort
  <2>2. stack' \in Seq(Frame) /\ Len(stack') = 0 /\ DOMAIN stack' = {}
    BY <2>1
  <2>3. TypeOK'
    <3>1. Len(stack') <= Count
      BY <2>2, CountAssumption
    <3>2. TypeOK
      BY DEF WalkInv
    <3> QED BY <2>1, <2>2, <3>1, <3>2, <1>0, <1>3 DEF TypeOK, inputVars, Frame
  <2>4. WalkStack'
    BY <2>1, <2>2 DEF WalkStack
  <2> QED BY <2>1, <2>3, <2>4, <1>2 DEF WalkInv, Promises, FailureEnds
<1>5. CASE ~ (failFast /\ o \in stops)
  <2>1. stack' = SubSeq(stack, 1, Len(stack) - 1) /\ waiting' = FALSE /\ status' = status
    BY <1>5 DEF ActivityEnds
  <2>2. /\ stack' \in Seq(Frame) /\ Len(stack') = L - 1 /\ DOMAIN stack' = 1 .. (L - 1)
        /\ \A i \in 1 .. (L - 1) : stack'[i] = stack[i]
    BY <2>1, <1>0, <1>1, PopFacts
  <2>3. \A i \in 1 .. (L - 1) : i \in 1 .. L /\ i # L
    <3> HIDE DEF L
    <3> QED BY <1>1
  <2>4. \A i \in 1 .. (L - 1) : stack[i].node # n
    <3>1. \A i, j \in 1 .. L : i # j => stack[i].node # stack[j].node
      BY <1>1, CallsArePath, PathIsSimple
    <3> QED BY <3>1, <2>3, <1>1
  <2>5. ASSUME NEW i \in DOMAIN stack' PROVE CallOK(stack[i])'
    <3>1. i \in 1 .. (L - 1) /\ stack'[i] = stack[i] /\ stack[i].node # n /\ CallOK(stack[i])
      BY <2>2, <2>3, <2>4, <1>1
    <3>2. UNCHANGED <<deps, failFast>>
      BY <1>0 DEF inputVars
    <3>3. n \notin Executed
      BY <1>1 DEF CallOK
    <3>4. (deps[stack[i].node] \ stack[i].left) \cap Failed' = (deps[stack[i].node] \ stack[i].left) \cap Failed
      BY <3>1, <3>3, <1>2 DEF CallOK
    <3> QED BY <3>1, <3>2, <3>4, <1>2 DEF CallOK
  <2>6. \A i \in 1 .. (L - 1 - 1) : stack'[i + 1].node = stack'[i].at
    <3> TAKE i \in 1 .. (L - 1 - 1)
    <3>1. i \in 1 .. (L - 1) /\ i + 1 \in 1 .. (L - 1)
      <4> HIDE DEF L
      <4> QED BY <1>1
    <3> QED BY <3>1, <2>2, CallsFacts
  <2>7. WalkStack'
    BY <2>1, <2>2, <2>5, <2>6 DEF WalkStack
  <2>8. L - 1 <= Count
    <3> HIDE DEF L
    <3> QED BY <1>1, CountAssumption
  <2>9. TypeOK'
    BY <2>1, <2>2, <2>8, <1>0, <1>3 DEF WalkInv, TypeOK, inputVars, Frame
  <2>10. FailureEnds'
    <3> SUFFICES ASSUME failFast', stops' = FunctionStops, Failed' # {} PROVE FALSE
      BY DEF FailureEnds
    <3>1. failFast /\ stops = FunctionStops
      BY <1>0 DEF inputVars
    <3>2. o = "ok"
      BY <3>1, <1>5 DEF FunctionStops, Outcomes, Failures
    <3>3. Failed # {}
      BY <3>2, <1>2
    <3> QED BY <3>1, <3>3, <1>1 DEF WalkInv, Promises, FailureEnds
  <2>11. deps' = deps
    BY <1>0 DEF inputVars
  <2> QED BY <2>1, <2>7, <2>9, <2>10, <2>11, <1>1, <1>2 DEF WalkInv, Promises
<1> QED BY <1>4, <1>5

(* Every step of the walk keeps the invariant.                             *)
LEMMA WalkStep ==
  ASSUME WalkInv, Next
  PROVE  WalkInv'
<1>1. ASSUME CallNode PROVE WalkInv'
  <2>1. /\ status = "running" /\ stack = <<>> /\ Executed # Nodes
        /\ stack' = Called(stack, Min(Nodes \ Executed))
        /\ UNCHANGED <<inputVars, status, waiting, results, delivered, order, totals>>
    BY <1>1 DEF CallNode
  <2>2. Min(Nodes \ Executed) \in Nodes \ Executed
    <3>1. Nodes \ Executed \in SUBSET Nat /\ Nodes \ Executed # {}
      BY <2>1 DEF Nodes, Executed
    <3> QED BY <3>1, MinNat
  <2>3. /\ stack \in Seq(Frame) /\ Len(stack) = 0 /\ 1 .. Len(stack) = {} /\ ~ waiting
    BY <2>1 DEF WalkInv, TypeOK
  <2> QED BY <2>1, <2>2, <2>3, CallKeepsWalkInv
<1>2. ASSUME Complete PROVE WalkInv'
  <2>1. /\ status = "running" /\ stack = <<>> /\ status' = "completed"
        /\ UNCHANGED <<inputVars, stack, waiting, results, delivered, order, totals>>
    BY <1>2 DEF Complete
  <2>2. Executed' = Executed /\ Failed' = Failed
    BY <2>1 DEF Executed, Failed
  <2>3. TypeOK'
    <3>1. TypeOK /\ deps \in Graphs(Nodes)
      BY <2>1 DEF WalkInv
    <3> QED BY <3>1, <2>1 DEF TypeOK, inputVars
  <2>4. WalkStack'
    <3>1. stack' = <<>> /\ DOMAIN stack' = {} /\ Len(stack') = 0 /\ ~ waiting'
      BY <2>1 DEF WalkInv, TypeOK
    <3> QED BY <3>1 DEF WalkStack
  <2>5. Recorded' /\ Promises'
    BY <2>1, <2>2 DEF WalkInv, Recorded, Promises, TopologicalOrder, FailureBlocks, InputsProduced,
                      FailureEnds, IsContainer, inputVars
  <2> QED BY <2>1, <2>3, <2>4, <2>5 DEF WalkInv
<1>3. ASSUME NEW d \in Nodes, VisitDependency(d) PROVE WalkInv'
  <2>1. /\ ~ waiting /\ stack # <<>> /\ d \in Top.left
        /\ UNCHANGED <<inputVars, results, delivered, order, totals>>
    BY <1>3 DEF VisitDependency, AtDependency
  <2>2. CASE d \notin Executed
    <3>1. stack' = Called(Entered(d), d) /\ UNCHANGED <<status, waiting>>
      BY <1>3, <2>2 DEF VisitDependency
    <3>2. status = "running"
      BY <2>1, CallsFacts
    <3> QED BY <2>1, <2>2, <3>1, <3>2, TopWritten, CallKeepsWalkInv
  <2>3. CASE d \in Executed /\ DependencyFailed(d)
    <3>1. Abort
      BY <1>3, <2>3 DEF VisitDependency
    <3> QED BY <2>1, <3>1, AbortKeepsWalkInv
  <2>4. CASE d \in Executed /\ ~ DependencyFailed(d)
    <3>1. stack' = Passed(d) /\ UNCHANGED <<status, waiting>>
      BY <1>3, <2>4 DEF VisitDependency
    <3> QED BY <2>1, <2>4, <3>1, PassKeepsWalkInv
  <2> QED BY <2>2, <2>3, <2>4
<1>4. ASSUME InputFails \/ DownloadFails PROVE WalkInv'
  BY <1>4, AbortKeepsWalkInv DEF InputFails, DownloadFails, Ready
<1> QED BY <1>1, <1>2, <1>3, <1>4, StartKeepsWalkInv, EndKeepsWalkInv DEF Next

(* Where the variables of the walk stay, so does the invariant.            *)
LEMMA WalkStutter ==
  ASSUME WalkInv, UNCHANGED vars
  PROVE  WalkInv'
<1>1. UNCHANGED <<deps, wants, failFast, stops, status, stack, waiting, results, delivered, order, totals>>
  BY DEF vars, inputVars, walkVars
<1>2. Executed' = Executed /\ Failed' = Failed /\ Top' = Top
  BY <1>1 DEF Executed, Failed, Top
<1>3. TypeOK' /\ (status' = "validating" => WalkInit')
  BY <1>1 DEF WalkInv, TypeOK, WalkInit
<1>4. WalkStack'
  <2>1. ASSUME NEW i \in DOMAIN stack PROVE CallOK(stack[i])'
    BY <1>1, <1>2 DEF WalkInv, WalkStack, CallOK
  <2>2. ASSUME waiting PROVE MissingInputs(Top.node)' = {} /\ MissingArtifacts(Top.node)' = {}
    BY <1>1, <1>2, <2>2
    DEF WalkInv, WalkStack, MissingInputs, UnresolvedInputs, Resolved, MissingArtifacts, IsContainer
  <2> QED BY <1>1, <1>2, <2>1, <2>2 DEF WalkInv, WalkStack
<1>5. Recorded' /\ Promises'
  BY <1>1, <1>2 DEF WalkInv, Recorded, Promises, TopologicalOrder, FailureBlocks, InputsProduced,
                    FailureEnds, IsContainer
<1> QED BY <1>1, <1>3, <1>4, <1>5 DEF WalkInv

(* The walk starts on a graph that Validate accepted, and only there.      *)
LEMMA WorkflowKeepsWalkInv ==
  SearchInv /\ WalkInv /\ [WorkflowNext]_<<vars, searchVars>> => WalkInv'
<1>1. SearchInv /\ WalkInv /\ Begin => WalkInv'
  <2> DEFINE Typed ==
        /\ deps \in [Nodes -> SUBSET (0 .. Count)]
        /\ status \in {"validating", "running", "failed"}
        /\ status = "running" => deps \in Graphs(Nodes) /\ Acyclic(Nodes, deps)
        /\ wants \in [Nodes -> SUBSET (Kinds \X Nodes)]
        /\ failFast \in BOOLEAN
        /\ stops \in {FunctionStops, ContainerStops}
  <2>1. SearchInv /\ WalkInv /\ Begin => WalkInit' /\ Typed'
    <3> SUFFICES ASSUME SearchInv, WalkInv, Begin PROVE WalkInit' /\ Typed'
      OBVIOUS
    <3>1. /\ status = "validating" /\ verdict = "accepted" /\ status' = "running"
          /\ wants' \in Wants /\ failFast' \in BOOLEAN /\ stops' \in {FunctionStops, ContainerStops}
          /\ UNCHANGED <<deps, walkVars>>
      BY DEF Begin
    <3>2. deps \in Graphs(Nodes) /\ Acyclic(Nodes, deps)
      BY <3>1, SearchInvDecides, SearchGraphs DEF VerdictCorrect, Search!VerdictCorrect
    <3>3. WalkInit'
      BY <3>1 DEF WalkInv, WalkInit, walkVars
    <3>4. deps \in [Nodes -> SUBSET (0 .. Count)]
      BY DEF WalkInv, TypeOK
    <3>5. wants' \in [Nodes -> SUBSET (Kinds \X Nodes)]
      BY <3>1, WantsAssumption
    <3> QED BY <3>1, <3>2, <3>3, <3>4, <3>5
  <2>2. WalkInit /\ Typed => WalkInv
    BY WalkStarts
  <2>3. WalkInit' /\ Typed' => WalkInv'
    BY <2>2, PTL
  <2> QED BY <2>1, <2>3
<1>2. WalkInv /\ Validate => WalkInv'
  <2> SUFFICES ASSUME WalkInv, Validate PROVE WalkInv'
    OBVIOUS
  <2>1. UNCHANGED <<wants, failFast, stops, status, walkVars>>
    BY DEF Validate
  <2>2. deps' = deps
    BY DEF Validate, Search!Next, Search!CheckNames, Search!CallRoot, Search!VisitDependency, Search!Leave
  <2> QED BY <2>1, <2>2, WalkStutter DEF vars, inputVars
<1>3. WalkInv /\ InvalidInput => WalkInv'
  <2> SUFFICES ASSUME WalkInv, InvalidInput PROVE WalkInv'
    OBVIOUS
  <2>1. status = "validating" /\ status' = "failed" /\ UNCHANGED <<inputVars, walkVars>>
    BY DEF InvalidInput
  <2>2. WalkInit
    BY <2>1 DEF WalkInv
  <2>3. Executed = {} /\ Executed' = {} /\ Failed = {} /\ Failed' = {}
    BY <2>1, <2>2 DEF WalkInit, Executed, Failed, Failures, walkVars
  <2>4. TypeOK'
    BY <2>1 DEF WalkInv, TypeOK, inputVars, walkVars
  <2>5. stack' = <<>> /\ Len(stack') = 0 /\ DOMAIN stack' = {} /\ ~ waiting'
    BY <2>1, <2>2 DEF WalkInit, walkVars
  <2>6. WalkStack'
    BY <2>5 DEF WalkStack
  <2>7. order' = <<>> /\ DOMAIN order' = {} /\ delivered' = {}
    BY <2>1, <2>2 DEF WalkInit, walkVars
  <2>8. Recorded' /\ Promises'
    BY <2>3, <2>7 DEF Recorded, Promises, TopologicalOrder, FailureBlocks, InputsProduced, FailureEnds
  <2> QED BY <2>1, <2>4, <2>5, <2>6, <2>8 DEF WalkInv
<1>4. WalkInv /\ Walk => WalkInv'
  BY WalkStep DEF Walk
<1>5. WalkInv /\ UNCHANGED <<vars, searchVars>> => WalkInv'
  BY WalkStutter
<1> QED BY <1>1, <1>2, <1>3, <1>4, <1>5 DEF WorkflowNext

(* Both invariants hold from the submission of a graph on.                 *)
LEMMA WorkflowInvariant == WorkflowSpec => [](SearchInv /\ WalkInv)
<1>1. WorkflowInit => SearchInv
  BY SearchInit DEF WorkflowInit
<1>2. WorkflowInit => WalkInv
  <2> SUFFICES ASSUME WorkflowInit PROVE WalkInv
    OBVIOUS
  <2>1. deps \in [Nodes -> SUBSET (0 .. Count)]
    BY SearchGraphs DEF WorkflowInit, Search!Init
  <2>2. /\ WalkInit /\ status = "validating" /\ wants \in [Nodes -> SUBSET (Kinds \X Nodes)]
        /\ failFast \in BOOLEAN /\ stops \in {FunctionStops, ContainerStops}
    BY DEF WorkflowInit
  <2> QED BY <2>1, <2>2, WalkStarts
<1>3. SearchInv /\ [WorkflowNext]_<<vars, searchVars>> => SearchInv'
  BY WorkflowKeepsSearchInv
<1> QED BY <1>1, <1>2, <1>3, WorkflowKeepsWalkInv, PTL DEF WorkflowSpec

(* The types of the search and of the walk.                                *)
THEOREM WorkflowTypes == WorkflowSpec => []WorkflowTypeOK
<1>1. SearchInv /\ WalkInv => WorkflowTypeOK
  BY DEF SearchInv, WalkInv, WorkflowTypeOK
<1> QED BY <1>1, WorkflowInvariant, PTL

(* Nodes are executed in a topological order, none of them twice: the walk *)
(* of executeNode, with its results map as the mark of what is done.       *)
THEOREM NodesRunInTopologicalOrder == WorkflowSpec => []TopologicalOrder
<1>1. WalkInv => TopologicalOrder
  BY WalkInvPromises
<1> QED BY <1>1, WorkflowInvariant, PTL

(* Under FailFast nothing runs downstream of a failed node, in either      *)
(* package and whatever the failure does to the walk.                      *)
THEOREM FailureBlocksDownstream == WorkflowSpec => []FailureBlocks
<1>1. WalkInv => FailureBlocks
  BY WalkInvPromises
<1> QED BY <1>1, WorkflowInvariant, PTL

(* In the function package a failure under FailFast is the end: no         *)
(* activity starts after it, and the run does not complete.                *)
THEOREM FunctionFailureEnds == WorkflowSpec => []FunctionFailFast
<1>1. WalkInv => FunctionFailFast
  BY WalkInvPromises
<1> QED BY <1>1, WorkflowInvariant, PTL

(* A node that was executed had every required input and artifact, from a  *)
(* node that was executed before it and succeeded.                         *)
THEOREM RequiredInputsAreProduced == WorkflowSpec => []InputsProduced
<1>1. WalkInv => InputsProduced
  BY WalkInvPromises
<1> QED BY <1>1, WorkflowInvariant, PTL
=============================================================================
