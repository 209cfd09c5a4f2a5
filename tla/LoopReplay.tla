----------------------------- MODULE LoopReplay -----------------------------
(***************************************************************************)
(* ParameterizedLoopWorkflow of src/workflow: a batch whose tasks are the  *)
(* combinations that GenerateParameterCombinations computes, by ranging    *)
(* over a Go map.  Every execution of the workflow function, the first one *)
(* and each replay after the worker lost its cached state, picks an order  *)
(* of the keys.  Temporal matches a replayed activity to its history by    *)
(* position and activity name, which all iterations share, and not by its  *)
(* input; the other loops compute the same tasks in every replay.          *)
(***************************************************************************)
EXTENDS TaskBatch, SequencesExt

CONSTANTS
  ParameterSets,   \* the Parameters considered: [key -> list of values]
  MaxReplays       \* bound: number of replays

VARIABLES
  parameters,  \* input: Parameters
  keys,        \* order of the keys in the function's current execution
  executed,    \* combination of each activity in the history, by position
  replays

loopVars == <<parameters, keys, executed, replays>>

KeyOrders(P) == SetToSeqs(DOMAIN P)

(* generate(0, {}): the product in lexicographic order, first key first.   *)
(* The faulty variant appends the shared map "current" and not a copy.     *)
Extended(P, combination, k) ==
  [j \in DOMAIN P[k] |-> [combination EXCEPT ![k] = P[k][j]]]

Blank(P) == [k \in DOMAIN P |-> ""]

CombinationsAliased(P, order) ==
  LET all == FoldLeft(LAMBDA acc, k :
               FlattenSeq([j \in DOMAIN acc |-> Extended(P, acc[j], k)]),
               <<Blank(P)>>, order)
  IN  [j \in DOMAIN all |-> all[Len(all)]]

Combinations(P, order) ==
  FoldLeft(LAMBDA acc, k :
             FlattenSeq([j \in DOMAIN acc |-> Extended(P, acc[j], k)]),
           <<Blank(P)>>, order)

ASSUME ReplayAssumption == MaxReplays \in Nat

(* Parameters is a map of lists; a value that is given twice would make    *)
(* two activities of what is one combination.                              *)
ASSUME ParametersAssumption ==
  \A P \in ParameterSets :
    /\ IsFiniteSet(DOMAIN P)
    /\ \A k \in DOMAIN P : P[k] \in Seq(ToSet(P[k])) /\ IsInjective(P[k])
    /\ \A order \in KeyOrders(P) : Len(Combinations(P, order)) = Count

LoopTypeOK ==
  /\ TypeOK
  /\ parameters \in ParameterSets
  /\ keys \in KeyOrders(parameters)
  /\ DOMAIN executed = Launched
  /\ replays \in 0 .. MaxReplays
-----------------------------------------------------------------------------
LoopInit ==
  /\ Init
  /\ parameters \in ParameterSets
  /\ keys \in KeyOrders(parameters)
  /\ executed = <<>>
  /\ replays = 0

(* The activities that are new are those of the current plan. *)
Launch ==
  /\ LaunchAll \/ LaunchNext
  /\ executed' = executed \o
       SubSeq(Combinations(parameters, keys),
              Len(executed) + 1, Cardinality(Launched'))
  /\ UNCHANGED <<parameters, keys, replays>>

Proceed ==
  /\ Collect \/ \E i \in Tasks, o \in Outcomes : TaskEnds(i, o)
  /\ UNCHANGED loopVars

(* The worker restarts or evicts the workflow: the function runs again     *)
(* from its start against the history.                                     *)
Replay ==
  /\ returned = "none"
  /\ replays < MaxReplays
  /\ replays' = replays + 1
  /\ keys' \in KeyOrders(parameters)
  /\ UNCHANGED <<vars, parameters, executed>>

LoopNext == Launch \/ Proceed \/ Replay

LoopSpec == LoopInit /\ [][LoopNext]_<<vars, loopVars>> /\ Fairness
-----------------------------------------------------------------------------
AllCombinations ==
  {c \in [DOMAIN parameters ->
            UNION {ToSet(parameters[k]) : k \in DOMAIN parameters}] :
     \A k \in DOMAIN parameters : c[k] \in ToSet(parameters[k])}

(* "ParameterizedLoopWorkflow executes a task template for each parameter  *)
(* combination" (loop.go:83): a loop that returns without an error has     *)
(* executed every combination, and each of them once.                      *)
EachCombinationOnce ==
  returned = "ok" =>
    \A c \in AllCombinations : Cardinality({i \in Launched : executed[i] = c}) = 1

(* It does when another order of the keys changes nothing: with one key,   *)
(* with all activities launched by the first execution, or with no replay. *)
StableLoopComplete ==
  parallel \/ Cardinality(DOMAIN parameters) = 1 \/ replays = 0
    => EachCombinationOnce
=============================================================================
