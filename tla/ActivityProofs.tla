--------------------------- MODULE ActivityProofs ---------------------------
(***************************************************************************)
(* Proofs about the activities of a workflow.  For a batch of any number   *)
(* of tasks, in sequence or in parallel and with or without stopping at a  *)
(* failure: results and totals are those of the tasks, whatever the order  *)
(* in which the activities end; a loop over parameters is such a batch,    *)
(* however often its workflow function is replayed; its combinations are   *)
(* all those of the parameters, each once, and so are its activities where *)
(* no replay can change their order.  For the attempts of one activity,    *)
(* for any number of attempts, faults and clients and for all time-outs:   *)
(* what a container's activity leaves behind, retries and reports; that an *)
(* attempt at work is never taken for dead, and that one that was given up *)
(* calls nobody any more.                                                  *)
(***************************************************************************)
EXTENDS LoopReplay, ContainerJob, PartitionAttempt, FiniteInduction

-----------------------------------------------------------------------------
(* Batches and loops                                                       *)

(* The positions whose result satisfies a test, counted by the totals.     *)
Succeeded == {i \in 1 .. Collected : results[i] = "ok"}

FailedOnes == {i \in 1 .. Collected : results[i] # "ok"}

(* Until it returns, a batch that stops at failures has collected none.    *)
NoFailureYet == stopOnFail /\ returned = "none" => totals.failed = 0

BatchInv == TypeOK /\ ReturnJustified /\ NoFailureYet

(* What the steps need to know of the results collected so far.            *)
LEMMA CollectedFacts ==
  ASSUME TypeOK
  PROVE  /\ Collected \in Nat /\ DOMAIN results = 1 .. Collected
         /\ \A i \in 1 .. Collected : i \in Tasks /\ results[i] \in Outcomes
         /\ IsFiniteSet(Succeeded) /\ IsFiniteSet(FailedOnes)
         /\ Cardinality(Succeeded) \in 0 .. Collected
         /\ Cardinality(FailedOnes) \in 0 .. Collected
<1>1. Collected \in Nat /\ DOMAIN results = 1 .. Collected /\ Collected <= Count /\ Count \in Nat
  BY CountAssumption DEF TypeOK, Collected
<1>2. \A i \in 1 .. Collected : i \in Tasks /\ results[i] \in Outcomes
  BY <1>1 DEF TypeOK, Tasks
<1>3. IsFiniteSet(1 .. Collected) /\ Cardinality(1 .. Collected) = Collected
  BY <1>1, FS_Interval
<1>4. ASSUME NEW S \in SUBSET (1 .. Collected)
      PROVE  IsFiniteSet(S) /\ Cardinality(S) \in 0 .. Collected
  <2>1. IsFiniteSet(S) /\ Cardinality(S) <= Collected
    BY <1>3, FS_Subset
  <2>2. Cardinality(S) \in Nat
    BY <2>1, FS_CardinalityType
  <2> QED BY <2>1, <2>2, <1>1
<1>5. Succeeded \in SUBSET (1 .. Collected) /\ FailedOnes \in SUBSET (1 .. Collected)
  BY DEF Succeeded, FailedOnes
<1> QED BY <1>1, <1>2, <1>4, <1>5

(* Before anything is launched there is nothing to account for.            *)
LEMMA BatchInit ==
  ASSUME Init
  PROVE  BatchInv
<1>1. Collected = 0 /\ results = <<>> /\ 1 .. Collected = {}
  BY DEF Init, Collected
<1>2. TypeOK
  BY <1>1, CountAssumption DEF Init, TypeOK, Collected
<1>3. {i \in 1 .. Collected : results[i] = "ok"} = {} /\ {i \in 1 .. Collected : results[i] # "ok"} = {}
  BY <1>1
<1>4. ReturnJustified
  BY <1>1, <1>3, FS_EmptySet DEF Init, ReturnJustified, ResultsInOrder
<1> QED BY <1>2, <1>4 DEF BatchInv, NoFailureYet, Init

(* Launching or ending an activity changes no result that was collected.   *)
LEMMA TasksKeepBatchInv ==
  ASSUME BatchInv, TypeOK',
         UNCHANGED <<parallel, stopOnFail, results, totals, returned>>,
         \A i \in 1 .. Collected : task'[i] = task[i]
  PROVE  BatchInv'
<1>1. Collected' = Collected
  BY DEF Collected
<1>2. ReturnJustified'
  BY <1>1 DEF BatchInv, ReturnJustified, ResultsInOrder
<1> QED BY <1>2 DEF BatchInv, NoFailureYet

(* The next result is appended and counted.                                *)
LEMMA CollectKeepsBatchInv ==
  ASSUME BatchInv, Collect
  PROVE  BatchInv'
<1> DEFINE K == Collected
<1>1. PICK i \in NextFuture :
            /\ results' = Append(results, task[i])
            /\ totals' = Totals(task[i])
            /\ returned' = CASE Stops(task[i])                          -> "error"
                             [] ~ Stops(task[i]) /\ K + 1 = Count -> "ok"
                             [] ~ Stops(task[i]) /\ K + 1 < Count -> "none"
  BY DEF Collect
<1> DEFINE o == task[i]
<1>2. /\ returned = "none" /\ UNCHANGED <<parallel, stopOnFail, task>>
      /\ i = K + 1 /\ i \in Tasks /\ o \in Outcomes
      /\ TypeOK /\ ResultsInOrder /\ K \in Nat /\ Count \in Nat
      /\ results \in Seq(Outcomes) /\ DOMAIN results = 1 .. K
  BY CountAssumption, CollectedFacts
  DEF Collect, NextFuture, BatchInv, ReturnJustified, TypeOK
<1>3. K + 1 <= Count
  BY <1>2 DEF Tasks
<1>4. /\ results' \in Seq(Outcomes) /\ Collected' = K + 1
      /\ \A j \in 1 .. K : results'[j] = results[j]
      /\ results'[K + 1] = o
  BY <1>1, <1>2 DEF Collected
<1>5. \A j \in 1 .. (K + 1) : j \in 1 .. K \/ j = K + 1
  BY <1>2
<1>6. /\ Succeeded' = IF o = "ok" THEN Succeeded \cup {K + 1} ELSE Succeeded
      /\ FailedOnes' = IF o = "ok" THEN FailedOnes ELSE FailedOnes \cup {K + 1}
      /\ K + 1 \notin Succeeded /\ K + 1 \notin FailedOnes
  <2>1. \A j \in 1 .. K : j \in 1 .. (K + 1) /\ j # K + 1
    BY <1>2
  <2>2. K + 1 \in 1 .. (K + 1)
    BY <1>2
  <2> QED BY <2>1, <2>2, <1>4, <1>5 DEF Succeeded, FailedOnes
<1>7. /\ totals.success = Cardinality(Succeeded) /\ totals.failed = Cardinality(FailedOnes)
      /\ totals \in [success : 0 .. Count, failed : 0 .. Count]
  BY <1>2 DEF ResultsInOrder, Succeeded, FailedOnes, TypeOK
<1>8. /\ Cardinality(Succeeded \cup {K + 1}) = Cardinality(Succeeded) + 1
      /\ Cardinality(FailedOnes \cup {K + 1}) = Cardinality(FailedOnes) + 1
  BY <1>2, <1>6, CollectedFacts, FS_AddElement
<1>9. /\ totals'.success = IF o = "ok" THEN totals.success + 1 ELSE totals.success
      /\ totals'.failed = IF o = "ok" THEN totals.failed ELSE totals.failed + 1
      /\ totals' \in [success : 0 .. Count, failed : 0 .. Count]
  <2>1. totals.success \in 0 .. K /\ totals.failed \in 0 .. K
    BY <1>2, <1>7, CollectedFacts
  <2> QED BY <2>1, <1>1, <1>2, <1>3, <1>7 DEF Totals
<1>10. totals'.success = Cardinality(Succeeded') /\ totals'.failed = Cardinality(FailedOnes')
  BY <1>6, <1>7, <1>8, <1>9
<1>11. ResultsInOrder'
  <2>1. \A j \in 1 .. (K + 1) : results'[j] = task'[j]
    BY <1>2, <1>4, <1>5 DEF ResultsInOrder
  <2> QED BY <2>1, <1>4, <1>10 DEF ResultsInOrder, Succeeded, FailedOnes
<1>12. stopOnFail => totals.failed = 0
  BY <1>2 DEF BatchInv, NoFailureYet
<1>13. o = "ok" <=> o \notin Failures
  BY <1>2 DEF Outcomes, Failures
<1>14. CASE Stops(o)
  <2>1. returned' = "error" /\ stopOnFail /\ o \in Failures
    BY <1>1, <1>14 DEF Stops
  <2>2. ReturnJustified' /\ NoFailureYet'
    BY <2>1, <1>2, <1>4, <1>11 DEF ReturnJustified, NoFailureYet
  <2>3. TypeOK'
    BY <2>1, <1>2, <1>3, <1>4, <1>9 DEF TypeOK, Collected
  <2> QED BY <2>2, <2>3 DEF BatchInv
<1>15. CASE ~ Stops(o)
  <2>1. returned' = IF K + 1 = Count THEN "ok" ELSE "none"
    BY <1>1, <1>2, <1>3, <1>15
  <2>2. stopOnFail' => totals'.failed = 0
    BY <1>2, <1>9, <1>12, <1>13, <1>15 DEF Stops
  <2>3. ReturnJustified' /\ NoFailureYet'
    BY <2>1, <2>2, <1>4, <1>11 DEF ReturnJustified, NoFailureYet
  <2>4. TypeOK'
    BY <2>1, <1>2, <1>3, <1>4, <1>9 DEF TypeOK, Collected
  <2> QED BY <2>3, <2>4 DEF BatchInv
<1> QED BY <1>14, <1>15

(* Every step keeps the invariant.                                         *)
LEMMA BatchStep ==
  ASSUME BatchInv, [Next]_vars
  PROVE  BatchInv'
<1>0. /\ TypeOK /\ ResultsInOrder /\ Count \in Nat /\ Collected \in Nat
      /\ \A i \in 1 .. Collected : i \in Tasks /\ results[i] \in Outcomes /\ task[i] = results[i]
  BY CollectedFacts, CountAssumption DEF BatchInv, ReturnJustified, ResultsInOrder
<1>1. CASE LaunchAll
  <2>1. \A i \in 1 .. Collected : task'[i] = task[i]
    BY <1>0, <1>1 DEF LaunchAll, Launched, Outcomes, Failures
  <2>2. TypeOK'
    BY <1>0, <1>1 DEF LaunchAll, TypeOK
  <2> QED BY <2>1, <2>2, <1>1, TasksKeepBatchInv DEF LaunchAll
<1>2. CASE LaunchNext
  <2>1. \A i \in 1 .. Collected : task'[i] = task[i]
    BY <1>0, <1>2 DEF LaunchNext, TypeOK
  <2>2. TypeOK'
    BY <1>0, <1>2 DEF LaunchNext, TypeOK
  <2> QED BY <2>1, <2>2, <1>2, TasksKeepBatchInv DEF LaunchNext
<1>3. ASSUME NEW i \in Tasks, NEW o \in Outcomes, TaskEnds(i, o) PROVE BatchInv'
  <2>1. \A j \in 1 .. Collected : task'[j] = task[j]
    BY <1>0, <1>3 DEF TaskEnds, TypeOK, Outcomes, Failures
  <2>2. TypeOK'
    BY <1>0, <1>3 DEF TaskEnds, TypeOK
  <2> QED BY <2>1, <2>2, <1>3, TasksKeepBatchInv DEF TaskEnds
<1>4. CASE Collect
  BY <1>4, CollectKeepsBatchInv
<1>5. CASE UNCHANGED vars
  BY <1>5 DEF vars, BatchInv, TypeOK, ReturnJustified, ResultsInOrder, NoFailureYet, Collected
<1> QED BY <1>1, <1>2, <1>3, <1>4, <1>5 DEF Next

(* The invariant holds throughout a batch.                                 *)
LEMMA BatchInvariant == Spec => []BatchInv
<1>1. Init => BatchInv
  BY BatchInit
<1>2. BatchInv /\ [Next]_vars => BatchInv'
  BY BatchStep
<1> QED BY <1>1, <1>2, PTL DEF Spec

(* The types of a batch: no more results than tasks, no total beyond them. *)
THEOREM BatchTypes == Spec => []TypeOK
<1>1. BatchInv => TypeOK
  BY DEF BatchInv
<1> QED BY <1>1, BatchInvariant, PTL

(* Results[i] is the result of Tasks[i] in whatever order the activities   *)
(* of ParallelWorkflow end, the totals count them, and the workflow        *)
(* returns an error exactly when it stopped at a failure.                  *)
THEOREM BatchReturnsWhatTasksDid == Spec => []ReturnJustified
<1>1. BatchInv => ReturnJustified
  BY DEF BatchInv
<1> QED BY <1>1, BatchInvariant, PTL

(* ParameterizedLoopWorkflow is a batch: a replay, whatever order of the   *)
(* keys it picks, launches nothing that the batch would not, and collects  *)
(* no result twice.                                                        *)
THEOREM LoopIsBatch == LoopSpec => Spec
<1>1. LoopInit => Init
  BY DEF LoopInit
<1>2. [LoopNext]_<<vars, loopVars>> => [Next]_vars
  BY DEF LoopNext, Launch, Proceed, Replay, Next, vars
<1> QED BY <1>1, <1>2, PTL DEF LoopSpec, Spec

(* So a replayed loop returns what its tasks did, too.                     *)
THEOREM LoopReturnsWhatTasksDid == LoopSpec => []ReturnJustified
BY LoopIsBatch, BatchReturnsWhatTasksDid, PTL
-----------------------------------------------------------------------------
(* The combinations of a loop                                              *)

(* The list l has each element of S, once. *)
Lists(l, S) ==
  /\ l \in Seq(S)
  /\ IsInjective(l)
  /\ \A c \in S : \E q \in DOMAIN l : l[q] = c

(* l has the elements of the first m lists of s, those of each list where  *)
(* row and col say.                                                        *)
Flattens(l, s, m, row, col) ==
  /\ \A q \in 1 .. Len(l) :
       row[q] \in 1 .. m /\ col[q] \in 1 .. Len(s[row[q]]) /\ l[q] = s[row[q]][col[q]]
  /\ \A q, r \in 1 .. Len(l) : row[q] = row[r] /\ col[q] = col[r] => q = r
  /\ \A i \in 1 .. m : \A j \in 1 .. Len(s[i]) : \E q \in 1 .. Len(l) : row[q] = i /\ col[q] = j

(* One more list.                                                          *)
LEMMA FlattensNext ==
  ASSUME NEW T, NEW s \in Seq(Seq(T)), NEW m \in Nat, m < Len(s), NEW l \in Seq(T), NEW row, NEW col,
         Flattens(l, s, m, row, col)
  PROVE  \E row1, col1 : Flattens(l \o s[m + 1], s, m + 1, row1, col1)
<1> DEFINE n == Len(l)
           x == s[m + 1]
           w == l \o x
           row1 == [q \in 1 .. Len(w) |-> IF q <= n THEN row[q] ELSE m + 1]
           col1 == [q \in 1 .. Len(w) |-> IF q <= n THEN col[q] ELSE q - n]
<1>1. /\ x \in Seq(T) /\ n \in Nat /\ Len(x) \in Nat /\ Len(w) = n + Len(x)
      /\ \A q \in 1 .. n : w[q] = l[q]
      /\ \A j \in 1 .. Len(x) : w[n + j] = x[j]
  OBVIOUS
<1>2. /\ \A q \in 1 .. Len(w) : q <= n => q \in 1 .. n /\ row1[q] = row[q] /\ col1[q] = col[q]
      /\ \A q \in 1 .. Len(w) : q > n => q - n \in 1 .. Len(x) /\ row1[q] = m + 1 /\ col1[q] = q - n
                                        /\ w[q] = x[q - n]
  BY <1>1
<1>3. \A q \in 1 .. Len(w) : q <= n \/ q > n
  BY <1>1
<1>4. \A q \in 1 .. n : row[q] \in 1 .. m /\ row[q] \in 1 .. (m + 1) /\ row[q] # m + 1
                        /\ col[q] \in 1 .. Len(s[row[q]]) /\ l[q] = s[row[q]][col[q]]
  <2>1. \A q \in 1 .. n : row[q] \in 1 .. m /\ col[q] \in 1 .. Len(s[row[q]]) /\ l[q] = s[row[q]][col[q]]
    BY DEF Flattens
  <2>2. \A i \in 1 .. m : i \in 1 .. (m + 1) /\ i # m + 1
    OBVIOUS
  <2> HIDE DEF n
  <2> QED BY <2>1, <2>2
<1>5. \A q \in 1 .. n : q \in 1 .. Len(w) /\ q <= n
  BY <1>1
<1>6. \A j \in 1 .. Len(x) : n + j \in 1 .. Len(w) /\ n + j > n /\ (n + j) - n = j
  BY <1>1
<1>x. x = s[m + 1]
  OBVIOUS
<1> HIDE DEF n, x, w, row1, col1
<1>7. ASSUME NEW q \in 1 .. Len(w)
      PROVE  row1[q] \in 1 .. (m + 1) /\ col1[q] \in 1 .. Len(s[row1[q]]) /\ w[q] = s[row1[q]][col1[q]]
  <2>1. CASE q <= n
    <3>1. q \in 1 .. n /\ row1[q] = row[q] /\ col1[q] = col[q] /\ w[q] = l[q]
      BY <1>1, <1>2, <2>1
    <3> QED BY <1>4, <3>1
  <2>2. CASE q > n
    <3>1. q - n \in 1 .. Len(x) /\ row1[q] = m + 1 /\ col1[q] = q - n /\ w[q] = x[q - n]
      BY <1>2, <2>2
    <3> QED BY <1>x, <3>1
  <2> QED BY <1>3, <2>1, <2>2
<1>8. ASSUME NEW q \in 1 .. Len(w), NEW r \in 1 .. Len(w), row1[q] = row1[r], col1[q] = col1[r]
      PROVE  q = r
  <2>1. CASE q <= n /\ r <= n
    <3>1. q \in 1 .. n /\ r \in 1 .. n /\ row[q] = row[r] /\ col[q] = col[r]
      BY <1>2, <1>8, <2>1
    <3> QED BY <3>1 DEF Flattens, n
  <2>2. CASE q > n /\ r > n
    <3>1. q - n = r - n
      BY <1>2, <1>8, <2>2
    <3> QED BY <1>1, <3>1
  <2>3. CASE q <= n /\ r > n
    BY <1>2, <1>4, <1>8, <2>3
  <2>4. CASE q > n /\ r <= n
    BY <1>2, <1>4, <1>8, <2>4
  <2> QED BY <1>3, <2>1, <2>2, <2>3, <2>4
<1>9. ASSUME NEW i \in 1 .. (m + 1), NEW j \in 1 .. Len(s[i])
      PROVE  \E q \in 1 .. Len(w) : row1[q] = i /\ col1[q] = j
  <2>1. CASE i = m + 1
    <3>1. j \in 1 .. Len(x)
      BY <1>x, <2>1
    <3>2. n + j \in 1 .. Len(w) /\ row1[n + j] = i /\ col1[n + j] = j
      BY <1>2, <1>6, <2>1, <3>1
    <3> QED BY <3>2
  <2>2. CASE i # m + 1
    <3>1. i \in 1 .. m
      BY <2>2
    <3>2. PICK q \in 1 .. n : row[q] = i /\ col[q] = j
      BY <3>1 DEF Flattens, n
    <3>3. q \in 1 .. Len(w) /\ row1[q] = i /\ col1[q] = j
      BY <1>2, <1>5, <3>2
    <3> QED BY <3>3
  <2> QED BY <2>1, <2>2
<1>10. Flattens(w, s, m + 1, row1, col1)
  BY <1>7, <1>8, <1>9 DEF Flattens
<1> QED BY <1>10 DEF w, x

(* FlattenSeq has every element of every list at a place of its own.       *)
LEMMA Flattened ==
  ASSUME NEW T, NEW s \in Seq(Seq(T))
  PROVE  /\ FlattenSeq(s) \in Seq(T)
         /\ \E row, col : Flattens(FlattenSeq(s), s, Len(s), row, col)
<1> DEFINE n == Len(s)
           Joined(f) == f = [i \in 1 .. n |-> IF i = 1 THEN s[i] ELSE f[i - 1] \o s[i]]
           h == CHOOSE f : Joined(f)
           step == [k \in 1 .. n |-> [b \in Seq(T) |-> b \o s[k]]]
<1>0. n \in Nat /\ \A k \in 1 .. n : s[k] \in Seq(T)
  OBVIOUS
<1>1. CASE n = 0
  <2>1. FlattenSeq(s) = s /\ s = <<>>
    BY <1>1 DEF FlattenSeq
  <2>2. Flattens(s, s, Len(s), <<>>, <<>>)
    BY <1>1, <2>1 DEF Flattens
  <2>3. s \in Seq(T)
    BY <2>1
  <2> QED BY <2>1, <2>2, <2>3
<1>2. CASE n # 0
  <2>1. FlattenSeq(s) = h[n]
    BY <1>2 DEF FlattenSeq
  <2>2. \A k \in 1 .. n, b \in Seq(T) : step[k][b] = b \o s[k] /\ step[k][b] \in Seq(T)
    BY <1>0
  <2>3. PICK g : IsLeftFold(g, n, Seq(T), <<>>, step)
    <3>1. <<>> \in Seq(T) /\ \A k \in 1 .. n, b \in Seq(T) : step[k][b] \in Seq(T)
      BY <2>2
    <3> HIDE DEF step
    <3> QED BY <1>0, <3>1, LeftFoldDefined
  <2> HIDE DEF step
  <2> DEFINE f == [i \in 1 .. n |-> g[1 .. i]]
  <2>4. \A i \in 1 .. n : g[1 .. (i - 1)] \in Seq(T) /\ g[1 .. i] = g[1 .. (i - 1)] \o s[i]
    <3> SUFFICES ASSUME NEW i \in 1 .. n
                 PROVE  g[1 .. (i - 1)] \in Seq(T) /\ g[1 .. i] = g[1 .. (i - 1)] \o s[i]
      OBVIOUS
    <3>1. g[1 .. (i - 1)] \in Seq(T) /\ g[1 .. i] = step[i][g[1 .. (i - 1)]]
      BY <1>0, <2>3, LeftFoldPrefix
    <3> QED BY <2>2, <3>1
  <2>5. Joined(f)
    <3>1. ASSUME NEW i \in 1 .. n PROVE f[i] = IF i = 1 THEN s[i] ELSE f[i - 1] \o s[i]
      <4>1. CASE i = 1
        <5>1. g[1 .. (i - 1)] = <<>>
          BY <2>3, <4>1 DEF IsLeftFold
        <5>2. g[1 .. i] = <<>> \o s[i] /\ f[i] = g[1 .. i]
          BY <2>4, <5>1
        <5>3. <<>> \o s[i] = s[i]
          BY <1>0
        <5> HIDE DEF f
        <5> QED BY <4>1, <5>2, <5>3
      <4>2. CASE i # 1
        <5>1. i - 1 \in 1 .. n
          BY <1>0, <4>2
        <5>2. f[i] = g[1 .. i] /\ f[i - 1] = g[1 .. (i - 1)]
          BY <5>1
        <5>3. g[1 .. i] = g[1 .. (i - 1)] \o s[i]
          BY <2>4
        <5> HIDE DEF f
        <5>4. f[i] = f[i - 1] \o s[i]
          BY <5>2, <5>3
        <5> QED BY <4>2, <5>4
      <4> QED BY <4>1, <4>2
    <3> QED BY <3>1
  <2>6. Joined(h)
    <3> HIDE DEF Joined, f
    <3> QED BY <2>5
  <2> HIDE DEF h
  <2>7. /\ h[1] = s[1]
        /\ \A i \in 1 .. n : i > 1 => h[i] = h[i - 1] \o s[i]
    <3>1. \A i \in 1 .. n : h[i] = IF i = 1 THEN s[i] ELSE h[i - 1] \o s[i]
      BY <2>6
    <3>2. 1 \in 1 .. n
      BY <1>0, <1>2
    <3>3. h[1] = s[1]
      BY <3>1, <3>2
    <3>4. ASSUME NEW i \in 1 .. n, i > 1 PROVE h[i] = h[i - 1] \o s[i]
      <4>1. i # 1
        BY <3>4
      <4> QED BY <3>1, <4>1
    <3> QED BY <3>3, <3>4
  <2> DEFINE Q == {m \in Nat : m \in 1 .. n => h[m] \in Seq(T) /\ \E row, col : Flattens(h[m], s, m, row, col)}
  <2>8. 0 \in Q
    OBVIOUS
  <2>9. ASSUME NEW m \in Q PROVE m + 1 \in Q
    <3> SUFFICES ASSUME m + 1 \in 1 .. n
                 PROVE  h[m + 1] \in Seq(T) /\ \E row, col : Flattens(h[m + 1], s, m + 1, row, col)
      OBVIOUS
    <3>1. PICK l \in Seq(T) : h[m + 1] = l \o s[m + 1] /\ \E row, col : Flattens(l, s, m, row, col)
      <4>1. CASE m = 0
        <5>1. Flattens(<<>>, s, 0, <<>>, <<>>)
          BY DEF Flattens
        <5>2. <<>> \in Seq(T) /\ h[m + 1] = <<>> \o s[m + 1]
          BY <1>0, <2>7, <4>1
        <5> QED BY <4>1, <5>1, <5>2
      <4>2. CASE m # 0
        <5>1. m \in 1 .. n /\ m + 1 > 1 /\ (m + 1) - 1 = m
          BY <1>0, <4>2
        <5> QED BY <2>7, <5>1
      <4> QED BY <4>1, <4>2
    <3>2. PICK row, col : Flattens(l, s, m, row, col)
      BY <3>1
    <3>3. m \in Nat /\ m < Len(s)
      BY <1>0
    <3>4. l \o s[m + 1] \in Seq(T)
      BY <1>0
    <3> QED BY <3>1, <3>2, <3>3, <3>4, FlattensNext
  <2>10. Q = Nat
    <3>1. Q \in SUBSET Nat
      OBVIOUS
    <3> HIDE DEF Q
    <3> QED BY <2>8, <2>9, <3>1, NatInSet
  <2>11. n \in 1 .. n /\ n \in Nat
    BY <1>0, <1>2
  <2> QED BY <2>1, <2>10, <2>11
<1> QED BY <1>1, <1>2

(* The combinations of the first m keys, the other keys being blank.       *)
Partial(P, order, m) ==
  {c \in [DOMAIN P -> (UNION {ToSet(P[k]) : k \in DOMAIN P}) \cup {""}] :
     \A j \in DOMAIN order :
       IF j <= m THEN c[order[j]] \in ToSet(P[order[j]]) ELSE c[order[j]] = ""}

(* All combinations of the values of P.                                    *)
CombinationsOf(P) ==
  {c \in [DOMAIN P -> UNION {ToSet(P[k]) : k \in DOMAIN P}] : \A k \in DOMAIN P : c[k] \in ToSet(P[k])}

IsParameters(P) ==
  /\ IsFiniteSet(DOMAIN P)
  /\ \A k \in DOMAIN P : P[k] \in Seq(ToSet(P[k])) /\ IsInjective(P[k])

(* An order of the keys has each key once.                                 *)
LEMMA OrderFacts ==
  ASSUME NEW P, IsParameters(P), NEW order \in KeyOrders(P)
  PROVE  LET n == Cardinality(DOMAIN P)
         IN  /\ n \in Nat /\ DOMAIN order = 1 .. n
             /\ \A j \in 1 .. n : order[j] \in DOMAIN P
             /\ \A i, j \in 1 .. n : order[i] = order[j] => i = j
             /\ \A k \in DOMAIN P : \E j \in 1 .. n : order[j] = k
<1> DEFINE K == DOMAIN P
           n == Cardinality(K)
<1>1. IsFiniteSet(K) /\ n \in Nat
  BY FS_CardinalityType DEF IsParameters
<1>2. order \in [1 .. n -> K] /\ \A i, j \in 1 .. n : i # j => order[i] # order[j]
  BY DEF KeyOrders, SetToSeqs
<1> HIDE DEF K
<1>3. order \in Injection(1 .. n, K)
  BY <1>2 DEF Injection, IsInjective
<1>4. Cardinality(1 .. n) = n
  BY <1>1, FS_Interval
<1>5. order \in Surjection(1 .. n, K)
  BY <1>1, <1>3, <1>4, FS_Injection
<1> QED BY <1>1, <1>2, <1>5 DEF Surjection, K

(* What one more key makes of a list of partial combinations.              *)
LEMMA ExtendedLists ==
  ASSUME NEW P, IsParameters(P), NEW order \in KeyOrders(P), NEW m \in 1 .. Cardinality(DOMAIN P),
         NEW acc, Lists(acc, Partial(P, order, m - 1))
  PROVE  Lists(FlattenSeq([j \in DOMAIN acc |-> Extended(P, acc[j], order[m])]), Partial(P, order, m))
<1> DEFINE n == Cardinality(DOMAIN P)
           k == order[m]
           s == [j \in DOMAIN acc |-> Extended(P, acc[j], k)]
           V == (UNION {ToSet(P[x]) : x \in DOMAIN P}) \cup {""}
           A == Partial(P, order, m - 1)
           B == Partial(P, order, m)
           l == FlattenSeq(s)
<1>1. /\ n \in Nat /\ DOMAIN order = 1 .. n
      /\ \A j \in 1 .. n : order[j] \in DOMAIN P
      /\ \A i, j \in 1 .. n : order[i] = order[j] => i = j
      /\ \A x \in DOMAIN P : \E j \in 1 .. n : order[j] = x
  BY OrderFacts
<1>2. /\ k \in DOMAIN P /\ P[k] \in Seq(ToSet(P[k])) /\ DOMAIN P[k] = 1 .. Len(P[k]) /\ Len(P[k]) \in Nat
      /\ \A i, j \in 1 .. Len(P[k]) : P[k][i] = P[k][j] => i = j
      /\ \A v \in ToSet(P[k]) : \E j \in 1 .. Len(P[k]) : P[k][j] = v
      /\ \A j \in 1 .. Len(P[k]) : P[k][j] \in ToSet(P[k])
  <2>1. k \in DOMAIN P
    BY <1>1
  <2> HIDE DEF k
  <2>2. P[k] \in Seq(ToSet(P[k])) /\ \A i, j \in DOMAIN P[k] : P[k][i] = P[k][j] => i = j
    BY <2>1 DEF IsParameters, IsInjective
  <2>3. ToSet(P[k]) = {P[k][i] : i \in DOMAIN P[k]}
    BY DEF ToSet
  <2>4. DOMAIN P[k] = 1 .. Len(P[k]) /\ Len(P[k]) \in Nat
    BY <2>2
  <2> QED BY <2>1, <2>2, <2>3, <2>4
<1>3. /\ acc \in Seq(A) /\ DOMAIN acc = 1 .. Len(acc) /\ Len(acc) \in Nat
      /\ \A i, j \in 1 .. Len(acc) : acc[i] = acc[j] => i = j
      /\ \A c \in A : \E q \in 1 .. Len(acc) : acc[q] = c
      /\ \A q \in 1 .. Len(acc) : acc[q] \in A
  BY DEF Lists, IsInjective
<1>4. /\ \A c \in A : c \in [DOMAIN P -> V] /\ c[k] = ""
      /\ ToSet(P[k]) \subseteq V /\ "" \in V
  <2>1. ~ (m <= m - 1) /\ m \in DOMAIN order
    BY <1>1
  <2>2. \A c \in A : c \in [DOMAIN P -> V] /\ c[k] = ""
    BY <2>1 DEF Partial
  <2>3. ToSet(P[k]) \subseteq V /\ "" \in V
    <3>1. k \in DOMAIN P
      BY <1>2
    <3> HIDE DEF k
    <3>2. ToSet(P[k]) \in {ToSet(P[x]) : x \in DOMAIN P}
      BY <3>1
    <3>3. ASSUME NEW v \in ToSet(P[k]) PROVE v \in UNION {ToSet(P[x]) : x \in DOMAIN P}
      BY <3>2
    <3>4. \A v \in ToSet(P[k]) : v \in V
      BY <3>3
    <3>5. "" \in V
      OBVIOUS
    <3> HIDE DEF V
    <3> QED BY <3>4, <3>5
  <2> QED BY <2>2, <2>3
<1>5. ASSUME NEW c \in A, NEW v \in ToSet(P[k]) PROVE [c EXCEPT ![k] = v] \in B
  <2> DEFINE d == [c EXCEPT ![k] = v]
  <2>1. d \in [DOMAIN P -> V] /\ d[k] = v /\ \A x \in DOMAIN P : x # k => d[x] = c[x]
    BY <1>2, <1>4
  <2> HIDE DEF d
  <2>2. ASSUME NEW j \in 1 .. n
        PROVE  IF j <= m THEN d[order[j]] \in ToSet(P[order[j]]) ELSE d[order[j]] = ""
    <3>1. CASE j = m
      <4>1. d[order[m]] \in ToSet(P[order[m]])
        BY <2>1
      <4>2. j <= m
        BY <1>1, <3>1
      <4> QED BY <3>1, <4>1, <4>2
    <3>2. CASE j # m
      <4>1. order[j] \in DOMAIN P /\ order[j] # k
        BY <1>1, <3>2
      <4>2. IF j <= m - 1 THEN c[order[j]] \in ToSet(P[order[j]]) ELSE c[order[j]] = ""
        BY <1>1 DEF Partial
      <4>3. j <= m <=> j <= m - 1
        BY <1>1, <3>2
      <4>4. d[order[j]] = c[order[j]]
        BY <2>1, <4>1
      <4> QED BY <4>2, <4>3, <4>4
    <3> QED BY <3>1, <3>2
  <2>3. d \in B
    BY <1>1, <2>1, <2>2 DEF Partial
  <2> QED BY <2>3 DEF d
<1>6. ASSUME NEW d \in B PROVE \E c \in A, v \in ToSet(P[k]) : d = [c EXCEPT ![k] = v]
  <2> DEFINE c == [d EXCEPT ![k] = ""]
             v == d[k]
  <2>1. d \in [DOMAIN P -> V] /\ v \in ToSet(P[k])
    <3>1. m <= m /\ m \in DOMAIN order
      BY <1>1
    <3> QED BY <3>1 DEF Partial
  <2>2. c \in [DOMAIN P -> V] /\ c[k] = "" /\ (\A x \in DOMAIN P : x # k => c[x] = d[x]) /\ d = [c EXCEPT ![k] = v]
    BY <1>2, <1>4, <2>1
  <2> HIDE DEF c
  <2>3. ASSUME NEW j \in 1 .. n
        PROVE  IF j <= m - 1 THEN c[order[j]] \in ToSet(P[order[j]]) ELSE c[order[j]] = ""
    <3>1. CASE j = m
      <4>1. c[order[m]] = ""
        BY <2>2
      <4>2. ~ (j <= m - 1)
        BY <1>1, <3>1
      <4> QED BY <3>1, <4>1, <4>2
    <3>2. CASE j # m
      <4>1. order[j] \in DOMAIN P /\ order[j] # k
        BY <1>1, <3>2
      <4>2. IF j <= m THEN d[order[j]] \in ToSet(P[order[j]]) ELSE d[order[j]] = ""
        BY <1>1 DEF Partial
      <4>3. j <= m <=> j <= m - 1
        BY <1>1, <3>2
      <4>4. d[order[j]] = c[order[j]]
        BY <2>2, <4>1
      <4> QED BY <4>2, <4>3, <4>4
    <3> QED BY <3>1, <3>2
  <2>4. c \in A
    BY <1>1, <2>2, <2>3 DEF Partial
  <2> QED BY <2>1, <2>2, <2>4
<1> HIDE DEF A, B, V, k
<1>7. \A j \in 1 .. Len(acc) :
        /\ s[j] \in Seq(B) /\ Len(s[j]) = Len(P[k])
        /\ \A i \in 1 .. Len(P[k]) : s[j][i] = [acc[j] EXCEPT ![k] = P[k][i]]
  <2> SUFFICES ASSUME NEW j \in 1 .. Len(acc)
               PROVE  /\ s[j] \in Seq(B) /\ Len(s[j]) = Len(P[k])
                      /\ \A i \in 1 .. Len(P[k]) : s[j][i] = [acc[j] EXCEPT ![k] = P[k][i]]
    OBVIOUS
  <2>1. s[j] = [i \in 1 .. Len(P[k]) |-> [acc[j] EXCEPT ![k] = P[k][i]]]
    BY <1>2, <1>3 DEF Extended
  <2>2. \A i \in 1 .. Len(P[k]) : [acc[j] EXCEPT ![k] = P[k][i]] \in B
    BY <1>2, <1>3, <1>5
  <2> HIDE DEF s
  <2> QED BY <1>2, <2>1, <2>2
<1>8. s \in Seq(Seq(B)) /\ Len(s) = Len(acc)
  BY <1>3, <1>7
<1> HIDE DEF s
<1>9. l \in Seq(B) /\ \E row, col : Flattens(l, s, Len(acc), row, col)
  BY <1>8, Flattened
<1> HIDE DEF l
<1>10. PICK row, col : Flattens(l, s, Len(acc), row, col)
  BY <1>9
<1>11. /\ \A q \in 1 .. Len(l) : row[q] \in 1 .. Len(acc) /\ col[q] \in 1 .. Len(P[k])
                                 /\ l[q] = [acc[row[q]] EXCEPT ![k] = P[k][col[q]]]
       /\ \A q, r \in 1 .. Len(l) : row[q] = row[r] /\ col[q] = col[r] => q = r
       /\ \A i \in 1 .. Len(acc), j \in 1 .. Len(P[k]) :
            \E q \in 1 .. Len(l) : row[q] = i /\ col[q] = j
  <2>1. ASSUME NEW q \in 1 .. Len(l)
        PROVE  row[q] \in 1 .. Len(acc) /\ col[q] \in 1 .. Len(P[k])
               /\ l[q] = [acc[row[q]] EXCEPT ![k] = P[k][col[q]]]
    <3>1. row[q] \in 1 .. Len(acc) /\ col[q] \in 1 .. Len(s[row[q]]) /\ l[q] = s[row[q]][col[q]]
      BY <1>10 DEF Flattens
    <3>2. col[q] \in 1 .. Len(P[k])
      BY <1>7, <3>1
    <3> QED BY <1>7, <3>1, <3>2
  <2>2. ASSUME NEW i \in 1 .. Len(acc), NEW j \in 1 .. Len(P[k])
        PROVE  \E q \in 1 .. Len(l) : row[q] = i /\ col[q] = j
    <3>1. j \in 1 .. Len(s[i])
      BY <1>7
    <3> QED BY <1>10, <3>1 DEF Flattens
  <2>3. \A q, r \in 1 .. Len(l) : row[q] = row[r] /\ col[q] = col[r] => q = r
    BY <1>10 DEF Flattens
  <2> QED BY <2>1, <2>2, <2>3
<1>13. ASSUME NEW q \in 1 .. Len(l), NEW r \in 1 .. Len(l), l[q] = l[r] PROVE q = r
  <2> DEFINE c == acc[row[q]]
             e == acc[row[r]]
             v == P[k][col[q]]
             w == P[k][col[r]]
             d == l[q]
  <2>1. c \in A /\ e \in A /\ d = [c EXCEPT ![k] = v] /\ d = [e EXCEPT ![k] = w]
    BY <1>3, <1>11, <1>13
  <2>2. c = e /\ v = w
    <3> HIDE DEF c, e, v, w, d
    <3>1. c \in [DOMAIN P -> V] /\ e \in [DOMAIN P -> V] /\ c[k] = "" /\ e[k] = "" /\ k \in DOMAIN P
      BY <1>2, <1>4, <2>1
    <3>2. d[k] = v /\ d[k] = w
      BY <2>1, <3>1
    <3>3. \A x \in DOMAIN P : x # k => c[x] = d[x] /\ e[x] = d[x]
      BY <2>1, <3>1
    <3>4. \A x \in DOMAIN P : c[x] = e[x]
      BY <3>1, <3>3
    <3>5. c = [x \in DOMAIN P |-> c[x]] /\ e = [x \in DOMAIN P |-> e[x]]
      BY <3>1
    <3>6. [x \in DOMAIN P |-> c[x]] = [x \in DOMAIN P |-> e[x]]
      BY <3>4
    <3> QED BY <3>2, <3>5, <3>6
  <2>3. row[q] = row[r] /\ col[q] = col[r]
    <3>1. row[q] \in 1 .. Len(acc) /\ row[r] \in 1 .. Len(acc)
      BY <1>11
    <3>2. col[q] \in 1 .. Len(P[k]) /\ col[r] \in 1 .. Len(P[k])
      BY <1>11
    <3>3. row[q] = row[r]
      BY <1>3, <2>2, <3>1
    <3>4. col[q] = col[r]
      BY <1>2, <2>2, <3>2
    <3> QED BY <3>3, <3>4
  <2> QED BY <1>11, <2>3
<1>14. ASSUME NEW d \in B PROVE \E q \in 1 .. Len(l) : l[q] = d
  <2>1. PICK c \in A, v \in ToSet(P[k]) : d = [c EXCEPT ![k] = v]
    BY <1>6
  <2>2. PICK i \in 1 .. Len(acc) : acc[i] = c
    BY <1>3
  <2>3. PICK j \in 1 .. Len(P[k]) : P[k][j] = v
    BY <1>2
  <2>4. PICK q \in 1 .. Len(l) : row[q] = i /\ col[q] = j
    BY <1>11
  <2>5. l[q] = [acc[i] EXCEPT ![k] = P[k][j]]
    BY <1>11, <2>4
  <2> QED BY <2>1, <2>2, <2>3, <2>5
<1>15. DOMAIN l = 1 .. Len(l)
  BY <1>9
<1>16. Lists(l, B)
  BY <1>9, <1>13, <1>14, <1>15 DEF Lists, IsInjective
<1> QED BY <1>16 DEF l, B, s, k

(* GenerateParameterCombinations lists every combination of the values,    *)
(* each once, in whatever order it ranges over the keys of the map.        *)
THEOREM CombinationsComplete ==
  ASSUME NEW P, IsParameters(P), NEW order \in KeyOrders(P)
  PROVE  Lists(Combinations(P, order), CombinationsOf(P))
<1> DEFINE n == Cardinality(DOMAIN P)
           S == 1 .. n
           V == (UNION {ToSet(P[x]) : x \in DOMAIN P}) \cup {""}
           T == Seq([DOMAIN P -> V])
           base == <<Blank(P)>>
           Grow(k, acc) == FlattenSeq([j \in DOMAIN acc |-> Extended(P, acc[j], order[k])])
           Folds(g) == g = [s \in SUBSET S |->
                              IF s = {} THEN base ELSE Grow(Max(s), g[s \ {Max(s)}])]
           h == CHOOSE g : Folds(g)
           step == [k \in S |-> [b \in T |-> Grow(k, b)]]
<1>1. /\ n \in Nat /\ DOMAIN order = 1 .. n
      /\ \A j \in 1 .. n : order[j] \in DOMAIN P
      /\ \A x \in DOMAIN P : \E j \in 1 .. n : order[j] = x
  BY OrderFacts
<1>2. Combinations(P, order) = h[S]
  BY <1>1 DEF Combinations, FoldLeft, MapThenFoldSet
<1>3. ASSUME NEW k \in S, NEW acc \in T PROVE Grow(k, acc) \in T
  <2> DEFINE F == [DOMAIN P -> V]
             s == [j \in DOMAIN acc |-> Extended(P, acc[j], order[k])]
             x == order[k]
  <2>1. x \in DOMAIN P /\ P[x] \in Seq(ToSet(P[x])) /\ \A i \in DOMAIN P[x] : P[x][i] \in V
    <3>1. x \in DOMAIN P
      BY <1>1
    <3> HIDE DEF x
    <3>2. P[x] \in Seq(ToSet(P[x]))
      BY <3>1 DEF IsParameters
    <3>3. ASSUME NEW i \in DOMAIN P[x] PROVE P[x][i] \in V
      <4>1. ToSet(P[x]) \in {ToSet(P[y]) : y \in DOMAIN P}
        BY <3>1
      <4>2. P[x][i] \in ToSet(P[x])
        BY DEF ToSet
      <4>3. P[x][i] \in UNION {ToSet(P[y]) : y \in DOMAIN P}
        BY <4>1, <4>2
      <4> QED BY <4>3
    <3> QED BY <3>1, <3>2, <3>3
  <2> HIDE DEF x, V
  <2>2. acc \in Seq(F) /\ DOMAIN acc = 1 .. Len(acc) /\ Len(acc) \in Nat
    <3>1. acc \in Seq(F)
      OBVIOUS
    <3> HIDE DEF F
    <3> QED BY <3>1
  <2>3. ASSUME NEW j \in DOMAIN acc PROVE Extended(P, acc[j], x) \in Seq(F)
    <3>1. acc[j] \in F
      BY <2>2
    <3>2. DOMAIN P[x] = 1 .. Len(P[x]) /\ Len(P[x]) \in Nat
      BY <2>1
    <3>3. \A i \in DOMAIN P[x] : [acc[j] EXCEPT ![x] = P[x][i]] \in F
      BY <2>1, <3>1
    <3> HIDE DEF F
    <3> QED BY <3>2, <3>3 DEF Extended
  <2>4. s \in Seq(Seq(F))
    <3> HIDE DEF F
    <3> QED BY <2>2, <2>3 DEF x
  <2> HIDE DEF s
  <2>5. FlattenSeq(s) \in Seq(F)
    BY <2>4, Flattened
  <2> QED BY <2>5 DEF s
<1>b. Blank(P) \in [DOMAIN P -> V] /\ \A x \in DOMAIN P : Blank(P)[x] = ""
  <2>1. "" \in V
    OBVIOUS
  <2> HIDE DEF V
  <2> QED BY <2>1 DEF Blank
<1>4. base \in T
  <2> DEFINE F == [DOMAIN P -> V]
             b == Blank(P)
  <2>1. b \in F
    BY <1>b
  <2> HIDE DEF F, b
  <2>2. <<b>> \in Seq(F)
    BY <2>1
  <2> QED BY <2>2 DEF F, b
<1> HIDE DEF T
<1>5. \A k \in S, b \in T : step[k][b] = Grow(k, b) /\ step[k][b] \in T
  <2> HIDE DEF Grow
  <2> QED BY <1>3
<1>6. PICK g : IsLeftFold(g, n, T, base, step)
  <2>1. \A k \in 1 .. n, b \in T : step[k][b] \in T
    BY <1>5
  <2> HIDE DEF step
  <2> QED BY <1>1, <1>4, <2>1, LeftFoldDefined
<1>7. ASSUME NEW s \in SUBSET S, s # {}, NEW f, f[s \ {Max(s)}] \in T
      PROVE  Grow(Max(s), f[s \ {Max(s)}]) = step[Max(s)][f[s \ {Max(s)}]]
  <2>1. Max(s) \in S
    BY <1>6, <1>7 DEF IsLeftFold
  <2> HIDE DEF step, Grow
  <2> QED BY <1>5, <1>7, <2>1
<1> HIDE DEF base
<1>8. Folds(g)
  <2>1. ASSUME NEW s \in SUBSET S, s # {} PROVE g[s] = Grow(Max(s), g[s \ {Max(s)}])
    <3>1. g[s] = step[Max(s)][g[s \ {Max(s)}]] /\ g[s \ {Max(s)}] \in T
      BY <1>6, <2>1 DEF IsLeftFold
    <3> HIDE DEF step, Grow
    <3> QED BY <1>7, <2>1, <3>1
  <2> HIDE DEF Grow, step
  <2> QED BY <1>6, <2>1 DEF IsLeftFold
<1>9. Folds(h)
  <2> HIDE DEF Folds
  <2> QED BY <1>8
<1>10. h[{}] = base
  <2> HIDE DEF h, Grow
  <2> QED BY <1>9
<1>11. \A s \in SUBSET (1 .. n) : s # {} /\ h[s \ {Max(s)}] \in T =>
         h[s] = step[Max(s)][h[s \ {Max(s)}]]
  <2> SUFFICES ASSUME NEW s \in SUBSET S, s # {}, h[s \ {Max(s)}] \in T
               PROVE  h[s] = step[Max(s)][h[s \ {Max(s)}]]
    OBVIOUS
  <2>1. h[s] = Grow(Max(s), h[s \ {Max(s)}])
    <3> HIDE DEF h, Grow
    <3> QED BY <1>9
  <2> HIDE DEF h, Grow, step
  <2> QED BY <2>1, <1>7
<1>12. \A s \in SUBSET (1 .. n) : h[s] = g[s]
  <2> HIDE DEF h, step
  <2> QED BY <1>1, <1>6, <1>10, <1>11, LeftFoldUnique
<1>13. \A m \in 1 .. n : g[1 .. (m - 1)] \in T /\ g[1 .. m] = Grow(m, g[1 .. (m - 1)])
  <2> SUFFICES ASSUME NEW m \in 1 .. n
               PROVE  g[1 .. (m - 1)] \in T /\ g[1 .. m] = Grow(m, g[1 .. (m - 1)])
    OBVIOUS
  <2>1. g[1 .. (m - 1)] \in T /\ g[1 .. m] = step[m][g[1 .. (m - 1)]]
    <3> HIDE DEF step
    <3> QED BY <1>1, <1>6, LeftFoldPrefix
  <2> HIDE DEF step, Grow
  <2> QED BY <1>5, <2>1
<1> DEFINE Q == {m \in Nat : m <= n => Lists(g[1 .. m], Partial(P, order, m))}
<1>14. 0 \in Q
  <2>1. g[1 .. 0] = <<Blank(P)>>
    BY <1>6 DEF IsLeftFold, base
  <2>2. ASSUME NEW c PROVE c \in Partial(P, order, 0) <=> c = Blank(P)
    <3>1. \A j \in 1 .. n : ~ (j <= 0)
      BY <1>1
    <3>4. Partial(P, order, 0) =
            {e \in [DOMAIN P -> V] :
               \A j \in DOMAIN order :
                 IF j <= 0 THEN e[order[j]] \in ToSet(P[order[j]]) ELSE e[order[j]] = ""}
      BY DEF Partial
    <3> HIDE DEF V
    <3>2. ASSUME c \in Partial(P, order, 0) PROVE c = Blank(P)
      <4>1. c \in [DOMAIN P -> V] /\ \A j \in 1 .. n : c[order[j]] = ""
        BY <1>1, <3>1, <3>2, <3>4
      <4>2. \A x \in DOMAIN P : c[x] = ""
        BY <1>1, <4>1
      <4> QED BY <4>1, <4>2 DEF Blank
    <3>3. ASSUME c = Blank(P) PROVE c \in Partial(P, order, 0)
      <4>1. \A j \in DOMAIN order : ~ (j <= 0) /\ c[order[j]] = ""
        BY <1>1, <1>b, <3>1, <3>3
      <4> QED BY <1>b, <3>3, <3>4, <4>1
    <3> QED BY <3>2, <3>3
  <2> DEFINE B == Partial(P, order, 0)
             b == Blank(P)
  <2> HIDE DEF B, b
  <2>3. Lists(<<b>>, B)
    <3>1. \A c : c \in B <=> c = b
      BY <2>2 DEF B, b
    <3>2. <<b>> \in Seq(B) /\ DOMAIN <<b>> = {1} /\ <<b>>[1] = b
      BY <3>1
    <3> QED BY <3>1, <3>2 DEF Lists, IsInjective
  <2>4. Lists(g[1 .. 0], Partial(P, order, 0))
    BY <2>1, <2>3 DEF B, b
  <2> QED BY <2>4
<1>15. ASSUME NEW m \in Q PROVE m + 1 \in Q
  <2> SUFFICES ASSUME m + 1 <= n PROVE Lists(g[1 .. (m + 1)], Partial(P, order, m + 1))
    OBVIOUS
  <2>1. m + 1 \in 1 .. n /\ (m + 1) - 1 = m
    BY <1>1
  <2>2. Lists(g[1 .. m], Partial(P, order, m))
    BY <1>1
  <2>3. g[1 .. (m + 1)] = Grow(m + 1, g[1 .. m])
    <3> HIDE DEF Grow
    <3> QED BY <1>13, <2>1
  <2> DEFINE acc == g[1 .. m]
  <2>4. Lists(acc, Partial(P, order, (m + 1) - 1))
    BY <2>1, <2>2
  <2> HIDE DEF acc
  <2>5. Lists(Grow(m + 1, acc), Partial(P, order, m + 1))
    BY <2>1, <2>4, ExtendedLists
  <2> HIDE DEF Grow
  <2> QED BY <2>3, <2>5 DEF acc
<1>16. n \in Q
  <2>1. Q \in SUBSET Nat
    OBVIOUS
  <2> HIDE DEF Q
  <2>2. Q = Nat
    BY <1>14, <1>15, <2>1, NatInSet
  <2> QED BY <1>1, <2>2
<1>17. Lists(h[S], Partial(P, order, n))
  <2>1. n <= n /\ h[S] = g[1 .. n]
    <3> HIDE DEF h
    <3> QED BY <1>1, <1>12
  <2> HIDE DEF h
  <2> QED BY <1>16, <2>1
<1>18. Partial(P, order, n) = CombinationsOf(P)
  <2> DEFINE W == UNION {ToSet(P[x]) : x \in DOMAIN P}
  <2>1. \A c : c \in Partial(P, order, n) <=>
          c \in [DOMAIN P -> W \cup {""}] /\ \A j \in 1 .. n : c[order[j]] \in ToSet(P[order[j]])
    <3>1. \A j \in DOMAIN order : j <= n
      BY <1>1
    <3>2. Partial(P, order, n) =
            {e \in [DOMAIN P -> W \cup {""}] :
               \A j \in DOMAIN order :
                 IF j <= n THEN e[order[j]] \in ToSet(P[order[j]]) ELSE e[order[j]] = ""}
      BY DEF Partial
    <3> HIDE DEF W
    <3> QED BY <1>1, <3>1, <3>2
  <2>2. \A c : (\A j \in 1 .. n : c[order[j]] \in ToSet(P[order[j]]))
                 <=> \A x \in DOMAIN P : c[x] \in ToSet(P[x])
    BY <1>1
  <2>3. \A x \in DOMAIN P : \A v \in ToSet(P[x]) : v \in W
    <3>1. \A x \in DOMAIN P : ToSet(P[x]) \in {ToSet(P[y]) : y \in DOMAIN P}
      OBVIOUS
    <3> QED BY <3>1
  <2> HIDE DEF W
  <2>4. \A c : (\A x \in DOMAIN P : c[x] \in ToSet(P[x])) =>
                 (c \in [DOMAIN P -> W \cup {""}] <=> c \in [DOMAIN P -> W])
    BY <2>3
  <2>5. \A c : c \in CombinationsOf(P) <=>
          c \in [DOMAIN P -> W] /\ \A x \in DOMAIN P : c[x] \in ToSet(P[x])
    BY DEF CombinationsOf, W
  <2>6. \A c : c \in Partial(P, order, n) <=> c \in CombinationsOf(P)
    BY <2>1, <2>2, <2>4, <2>5
  <2> QED BY <2>6
<1> HIDE DEF h
<1> QED BY <1>2, <1>17, <1>18

(* What the executions of the workflow function have launched: the first   *)
(* tasks, and, where another order of the keys changes nothing, with the   *)
(* combinations of one order.                                              *)
Follow(order) ==
  \A i \in 1 .. Len(executed) : executed[i] = Combinations(parameters, order)[i]

LoopInv ==
  /\ BatchInv
  /\ parameters \in ParameterSets
  /\ keys \in KeyOrders(parameters)
  /\ replays \in Nat
  /\ executed \in Seq(CombinationsOf(parameters))
  /\ Len(executed) <= Count
  /\ Launched = 1 .. Len(executed)
  /\ parallel => Len(executed) \in {0, Count} /\ \E order \in KeyOrders(parameters) : Follow(order)
  /\ Cardinality(DOMAIN parameters) = 1 \/ replays = 0 => Follow(keys)

(* The tasks a loop plans: as many as Count, whatever the order.           *)
LEMMA PlanFacts ==
  ASSUME NEW P \in ParameterSets, NEW order \in KeyOrders(P)
  PROVE  LET C == Combinations(P, order)
         IN  Lists(C, CombinationsOf(P)) /\ Len(C) = Count /\ DOMAIN C = 1 .. Count
<1> DEFINE C == Combinations(P, order)
<1>1. IsParameters(P) /\ Len(C) = Count
  BY ParametersAssumption DEF IsParameters
<1>2. Lists(C, CombinationsOf(P))
  <2> HIDE DEF C
  <2> QED BY <1>1, CombinationsComplete DEF C
<1>3. DOMAIN C = 1 .. Count
  <2> HIDE DEF C
  <2> QED BY <1>1, <1>2 DEF Lists
<1> QED BY <1>1, <1>2, <1>3

(* One key has one order.                                                  *)
LEMMA OneOrder ==
  ASSUME NEW P, Cardinality(DOMAIN P) = 1, IsFiniteSet(DOMAIN P),
         NEW a \in KeyOrders(P), NEW b \in KeyOrders(P)
  PROVE  a = b
<1>1. PICK k : DOMAIN P = {k}
  BY FS_Singleton
<1>2. a \in [1 .. 1 -> {k}] /\ b \in [1 .. 1 -> {k}]
  BY <1>1 DEF KeyOrders, SetToSeqs
<1>3. \A i \in 1 .. 1 : a[i] = b[i]
  BY <1>2
<1> QED BY <1>2, <1>3

(* The first execution begins with nothing launched.                       *)
LEMMA LoopStart ==
  ASSUME LoopInit
  PROVE  LoopInv
<1>1. BatchInv
  BY BatchInit DEF LoopInit
<1>2. /\ executed = <<>> /\ Len(executed) = 0 /\ replays = 0
      /\ parameters \in ParameterSets /\ keys \in KeyOrders(parameters)
  BY DEF LoopInit
<1>3. Launched = {} /\ 1 .. Len(executed) = {}
  BY <1>2 DEF LoopInit, Init, Launched
<1>4. executed \in Seq(CombinationsOf(parameters)) /\ Len(executed) <= Count
  BY <1>2, CountAssumption
<1>5. \A order \in KeyOrders(parameters) : Follow(order)
  BY <1>2 DEF Follow
<1> QED BY <1>1, <1>2, <1>3, <1>4, <1>5 DEF LoopInv

(* New activities are those of the current plan, from where it was left.   *)
LEMMA LaunchKeeps ==
  ASSUME LoopInv, Launch
  PROVE  LoopInv'
<1> DEFINE l == Len(executed)
           C == Combinations(parameters, keys)
           A == CombinationsOf(parameters)
           m == Cardinality(Launched')
<1>1. BatchInv'
  BY BatchStep DEF Launch, Next, LoopInv
<1>2. /\ UNCHANGED <<parameters, keys, replays, parallel>>
      /\ executed' = executed \o SubSeq(C, l + 1, m)
  BY DEF Launch, LaunchAll, LaunchNext
<1>3. /\ parameters \in ParameterSets /\ keys \in KeyOrders(parameters)
      /\ executed \in Seq(A) /\ l \in Nat /\ Count \in Nat /\ l <= Count
      /\ Launched = 1 .. l /\ replays \in Nat
  BY CountAssumption DEF LoopInv
<1>4. /\ C \in Seq(A) /\ Len(C) = Count /\ DOMAIN C = 1 .. Count
  BY <1>3, PlanFacts DEF Lists
<1>5. Cardinality(Launched) = l
  <2> HIDE DEF l
  <2>1. Cardinality(1 .. l) = l
    BY <1>3, FS_Interval
  <2> QED BY <1>3, <2>1
<1>6. /\ m \in Nat /\ l <= m /\ m <= Count /\ Launched' = 1 .. m
      /\ parallel => l = 0 /\ m = Count
  <2>1. CASE LaunchAll
    <3>1. Launched' = 1 .. Count
      BY <2>1 DEF LaunchAll, Launched, Tasks
    <3>2. m = Count
      BY <1>3, <3>1, FS_Interval, CountAssumption
    <3>3. l = 0
      BY <1>5, <2>1, FS_EmptySet DEF LaunchAll
    <3> QED BY <1>3, <3>1, <3>2, <3>3
  <2>2. CASE LaunchNext
    <3>1. Collected = l /\ l < Count /\ ~ parallel
      BY <1>5, <2>2 DEF LaunchNext
    <3>2. task \in [Tasks -> {"new", "running"} \cup Outcomes] /\ task' = [task EXCEPT ![l + 1] = "running"]
      BY <2>2, <3>1 DEF LaunchNext, LoopInv, BatchInv, TypeOK
    <3>3. \A i \in Tasks : i \in Launched' <=> i \in Launched \/ i = l + 1
      BY <3>2 DEF Launched
    <3>4. \A i \in 1 .. (l + 1) : i \in Tasks /\ (i \in 1 .. l \/ i = l + 1)
      BY <1>3, <3>1 DEF Tasks
    <3>5. Launched' \subseteq Tasks
      BY DEF Launched
    <3>6. Launched' = 1 .. (l + 1)
      <4> HIDE DEF l
      <4>1. \A i \in 1 .. l : i \in 1 .. (l + 1)
        BY <1>3
      <4>2. l + 1 \in 1 .. (l + 1)
        BY <1>3
      <4>3. \A i : i \in Launched' <=> i \in 1 .. (l + 1)
        BY <1>3, <3>3, <3>4, <3>5, <4>1, <4>2
      <4> QED BY <4>3
    <3>7. m = l + 1
      BY <1>3, <3>6, FS_Interval
    <3> QED BY <1>3, <3>1, <3>6, <3>7
  <2> QED BY <2>1, <2>2 DEF Launch
<1> HIDE DEF m, C, A
<1>7. /\ executed' \in Seq(A) /\ Len(executed') = m
      /\ \A i \in 1 .. l : executed'[i] = executed[i]
      /\ \A i \in 1 .. m : i > l => executed'[i] = C[i]
  <2> DEFINE rest == SubSeq(C, l + 1, m)
  <2>1. rest \in Seq(A) /\ Len(rest) = m - l
    BY <1>3, <1>4, <1>6
  <2>2. \A j \in 1 .. (m - l) : rest[j] = C[l + j]
    BY <1>3, <1>4, <1>6
  <2>3. executed' = executed \o rest
    BY <1>2
  <2> HIDE DEF rest
  <2>4. /\ executed' \in Seq(A) /\ Len(executed') = m
        /\ \A i \in 1 .. l : executed'[i] = executed[i]
        /\ \A j \in 1 .. (m - l) : executed'[l + j] = rest[j]
    BY <1>3, <1>6, <2>1, <2>3
  <2>5. \A i \in 1 .. m : i > l => i - l \in 1 .. (m - l) /\ l + (i - l) = i
    BY <1>3, <1>6
  <2> QED BY <2>2, <2>4, <2>5
<1>8. CombinationsOf(parameters)' = A
  BY <1>2 DEF CombinationsOf, A
<1>9. Follow(keys) => Follow(keys)'
  <2>1. Follow(keys) => \A i \in 1 .. m : executed'[i] = C[i]
    <3>1. \A i \in 1 .. m : i \in 1 .. l \/ i > l
      BY <1>3, <1>6
    <3> QED BY <1>7, <3>1 DEF Follow, C
  <2>2. Follow(keys)' <=> \A i \in 1 .. m : executed'[i] = C[i]
    BY <1>2, <1>7 DEF Follow, C
  <2> QED BY <2>1, <2>2
<1>10. parallel => Follow(keys)'
  <2>1. parallel => Follow(keys)
    BY <1>6 DEF Follow
  <2> QED BY <1>9, <2>1
<1>11. parallel' => Len(executed') \in {0, Count} /\ \E order \in KeyOrders(parameters)' : Follow(order)'
  <2>1. keys' \in KeyOrders(parameters)'
    BY <1>2, <1>3
  <2> QED BY <1>2, <1>6, <1>7, <1>10, <2>1 DEF Follow
<1>12. Cardinality(DOMAIN parameters') = 1 \/ replays' = 0 => Follow(keys)'
  BY <1>2, <1>9 DEF LoopInv
<1> QED BY <1>1, <1>2, <1>3, <1>6, <1>7, <1>8, <1>11, <1>12 DEF LoopInv

(* Results and ends of activities change nothing that was launched.        *)
LEMMA ProceedKeeps ==
  ASSUME LoopInv, Proceed \/ UNCHANGED <<vars, loopVars>>
  PROVE  LoopInv'
<1>1. BatchInv'
  BY BatchStep DEF Proceed, Next, LoopInv
<1>2. UNCHANGED <<parameters, keys, executed, replays, parallel>>
  BY DEF Proceed, loopVars, vars, Collect, TaskEnds
<1>3. Launched' = Launched
  <2>1. CASE \E i \in Tasks, o \in Outcomes : TaskEnds(i, o)
    <3>1. PICK i \in Tasks, o \in Outcomes : TaskEnds(i, o)
      BY <2>1
    <3>2. task[i] = "running" /\ task' = [task EXCEPT ![i] = o] /\ o # "new"
      BY <3>1 DEF TaskEnds, Outcomes, Failures
    <3>3. task \in [Tasks -> {"new", "running"} \cup Outcomes]
      BY DEF LoopInv, BatchInv, TypeOK
    <3> QED BY <3>2, <3>3 DEF Launched
  <2>2. CASE UNCHANGED task
    BY <2>2 DEF Launched
  <2> QED BY <2>1, <2>2 DEF Proceed, Collect, vars
<1> QED BY <1>1, <1>2, <1>3 DEF LoopInv, Follow, KeyOrders, CombinationsOf

(* A replay may pick another order, unless there is one key.               *)
LEMMA ReplayKeeps ==
  ASSUME LoopInv, Replay
  PROVE  LoopInv'
<1>1. /\ UNCHANGED <<vars, parameters, executed>> /\ replays' = replays + 1 /\ keys' \in KeyOrders(parameters)
      /\ replays \in Nat /\ parameters \in ParameterSets /\ keys \in KeyOrders(parameters)
  BY DEF Replay, LoopInv
<1>2. BatchInv'
  BY <1>1, BatchStep DEF LoopInv
<1>3. replays' # 0 /\ replays' \in Nat
  BY <1>1
<1>4. Cardinality(DOMAIN parameters) = 1 => keys' = keys
  BY <1>1, OneOrder, ParametersAssumption
<1>5. Launched' = Launched /\ parallel' = parallel
  BY <1>1 DEF Launched, vars
<1>6. Cardinality(DOMAIN parameters') = 1 \/ replays' = 0 => Follow(keys)'
  BY <1>1, <1>3, <1>4 DEF LoopInv, Follow
<1> QED BY <1>1, <1>2, <1>3, <1>5, <1>6 DEF LoopInv, Follow, KeyOrders, CombinationsOf

LEMMA LoopAlways == LoopSpec => []LoopInv
<1>1. LoopInit => LoopInv
  BY LoopStart
<1>2. LoopInv /\ [LoopNext]_<<vars, loopVars>> => LoopInv'
  BY LaunchKeeps, ProceedKeeps, ReplayKeeps DEF LoopNext
<1> QED BY <1>1, <1>2, PTL DEF LoopSpec

(* ParameterizedLoopWorkflow executes every combination of the parameters  *)
(* once before it returns without an error, for any parameters, when all   *)
(* activities are launched at once, when there is one key, or when the     *)
(* workflow function is not replayed.                                      *)
THEOREM StableLoopsAreComplete == LoopSpec => []StableLoopComplete
<1>1. LoopInv => StableLoopComplete
  <2> SUFFICES ASSUME LoopInv, returned = "ok",
                      parallel \/ Cardinality(DOMAIN parameters) = 1 \/ replays = 0
               PROVE  \A c \in AllCombinations : Cardinality({i \in Launched : executed[i] = c}) = 1
    BY DEF StableLoopComplete, EachCombinationOnce
  <2>1. PICK order \in KeyOrders(parameters) : Follow(order)
    BY DEF LoopInv
  <2> DEFINE C == Combinations(parameters, order)
  <2>2. Lists(C, CombinationsOf(parameters)) /\ DOMAIN C = 1 .. Count
    BY PlanFacts DEF LoopInv
  <2>3. Launched = 1 .. Count /\ Len(executed) = Count
    <3>1. Collected = Count /\ TypeOK /\ ResultsInOrder
      BY DEF LoopInv, BatchInv, ReturnJustified
    <3>2. \A i \in Tasks : task[i] \in Outcomes
      BY <3>1, CollectedFacts DEF ResultsInOrder, Tasks
    <3>3. Launched = 1 .. Count
      BY <3>2 DEF Launched, Tasks, Outcomes, Failures
    <3>4. Launched = 1 .. Len(executed) /\ Len(executed) \in Nat /\ Count \in Nat
      BY CountAssumption DEF LoopInv
    <3>5. Cardinality(1 .. Count) = Count /\ Cardinality(1 .. Len(executed)) = Len(executed)
      <4> DEFINE k == Len(executed)
      <4>1. k \in Nat /\ Count \in Nat
        BY <3>4
      <4> HIDE DEF k
      <4>2. Cardinality(1 .. k) = k /\ Cardinality(1 .. Count) = Count
        BY <4>1, FS_Interval
      <4> QED BY <4>2 DEF k
    <3> QED BY <3>3, <3>4, <3>5
  <2>4. \A i \in 1 .. Count : executed[i] = C[i]
    BY <2>1, <2>3 DEF Follow
  <2>5. AllCombinations = CombinationsOf(parameters)
    BY DEF AllCombinations, CombinationsOf
  <2> HIDE DEF C
  <2>6. ASSUME NEW c \in CombinationsOf(parameters)
        PROVE  Cardinality({i \in Launched : executed[i] = c}) = 1
    <3>1. PICK q \in 1 .. Count : C[q] = c
      BY <2>2 DEF Lists
    <3>2. \A i \in 1 .. Count : C[i] = c => i = q
      BY <2>2, <3>1 DEF Lists, IsInjective
    <3>3. {i \in Launched : executed[i] = c} = {q}
      BY <2>3, <2>4, <3>1, <3>2
    <3> QED BY <3>3, FS_Singleton
  <2> QED BY <2>5, <2>6
<1> QED BY <1>1, LoopAlways, PTL
-----------------------------------------------------------------------------
(* The container's workflow                                                *)

ContainerTypeOK ==
  /\ workflow \in {"none", "open", "failed", "stopped", "completed"}
  /\ current \in 0 .. MaxTries
  /\ phase \in [Attempts -> {"idle", "setup", "start", "wait", "cleanup", "report",
                             "ended", "crashed"}]
  /\ expired \in [Attempts -> BOOLEAN]
  /\ waited \in [Attempts -> {"none", "exit", "error"}]
  /\ container \in [Attempts -> {"none", "running", "exited", "removed"}]
  /\ exitCode \in [Attempts -> {0, 1}]

(* Attempts start one after the other, and an attempt that the workflow    *)
(* has left behind while it is at work is out of time.                     *)
InTurn(j) ==
  /\ j > current => phase[j] = "idle"
  /\ j < current /\ InFlight(j) => expired[j]

(* How far an attempt has come shows in its container and its wait.        *)
Progress(j) ==
  /\ phase[j] \in {"idle", "setup"} => container[j] = "none"
  /\ phase[j] \in {"idle", "setup", "start", "wait"} => waited[j] = "none"
  /\ phase[j] \in {"cleanup", "report"} => waited[j] # "none"
  /\ waited[j] = "exit" => container[j] # "running"

(* What went wrong with an attempt has been recorded.                      *)
Traced(j) ==
  /\ waited[j] = "error" => Cause(j)
  /\ phase[j] = "crashed" => <<j, "crash">> \in faults
  /\ Exists(j) /\ phase[j] \in {"report", "ended"} => MayLeave(j)

Justified(k) == Cause(k) \/ (input.named /\ \E j \in 1 .. (k - 1) : MayLeave(j))

(* The result of a completed workflow is the one its last attempt gave.    *)
Resulted ==
  workflow = "completed" =>
    /\ current \in Attempts
    /\ phase[current] = "ended"
    /\ output.attempt = current
    /\ waited[current] = "exit"
    /\ output.success <=> exitCode[current] = 0

Told == waiter = "Completed" \/ watcher = "Completed" => workflow = "completed"

ContainerInv ==
  /\ ContainerTypeOK
  /\ \A j \in Attempts : InTurn(j) /\ Progress(j) /\ Traced(j)
  /\ RetriedForCause
  /\ Resulted
  /\ Told

(* Causes and reasons to leave a container stay: no fault is forgotten and *)
(* no time given back.                                                     *)
LEMMA CausesStay ==
  ASSUME UNCHANGED input, faults \subseteq faults',
         \A j \in Attempts : expired[j] => expired'[j],
         NEW k \in Attempts
  PROVE  /\ Cause(k) => Cause(k)'
         /\ MayLeave(k) => MayLeave(k)'
         /\ Justified(k) => Justified(k)'
<1>1. ASSUME NEW j \in Attempts PROVE (Cause(j) => Cause(j)') /\ (MayLeave(j) => MayLeave(j)')
  BY DEF Cause, MayLeave
<1>2. 1 .. (k - 1) \subseteq Attempts
  BY TriesAssumption DEF Attempts
<1> QED BY <1>1, <1>2 DEF Justified

(* Before the workflow is submitted.                                       *)
LEMMA ContainerStart ==
  ASSUME ContainerInit
  PROVE  ContainerInv
<1>1. ContainerTypeOK
  BY TriesAssumption DEF ContainerInit, ContainerTypeOK
<1>2. \A j \in Attempts : InTurn(j) /\ Progress(j) /\ Traced(j)
  BY DEF ContainerInit, InTurn, Progress, Traced, Attempts, Exists, InFlight
<1>3. RetriedForCause
  BY DEF ContainerInit, RetriedForCause, Attempts
<1>4. Resulted /\ Told
  BY DEF ContainerInit, Resulted, Told
<1> QED BY <1>1, <1>2, <1>3, <1>4 DEF ContainerInv

(* An attempt ends or runs out of time: a workflow that waits for it goes  *)
(* on to the next one, or fails after the last.                            *)
LEMMA RetriedKeepsContainerInv ==
  ASSUME ContainerInv, NEW k \in Attempts, phase[k] # "idle",
         NEW f, f = phase \/ f = [phase EXCEPT ![k] = "ended"],
         f[k] = "ended" => (Exists(k) => MayLeave(k)'),
         InFlight(k) /\ f[k] # "ended" => expired'[k],
         Justified(k)',
         Retried(k, f),
         faults \subseteq faults', \A j \in Attempts : expired[j] => expired'[j],
         expired' \in [Attempts -> BOOLEAN],
         UNCHANGED <<input, output, waited, container, exitCode, waiter, watcher>>
  PROVE  ContainerInv'
<1>0. /\ ContainerTypeOK /\ RetriedForCause /\ Resulted /\ Told
      /\ \A j \in Attempts : InTurn(j) /\ Progress(j) /\ Traced(j)
      /\ MaxTries \in Nat \ {0} /\ current \in 0 .. MaxTries /\ k \in Nat
      /\ Attempts \subseteq Nat
  BY TriesAssumption DEF ContainerInv, ContainerTypeOK, Attempts
<1>1. /\ f \in [Attempts -> {"idle", "setup", "start", "wait", "cleanup", "report", "ended", "crashed"}]
      /\ \A j \in Attempts : f[j] = phase[j] \/ (j = k /\ f[j] = "ended")
  BY <1>0 DEF ContainerTypeOK
<1>2. k <= current
  BY <1>0 DEF InTurn
<1>3. \A j \in Attempts : /\ Cause(j) => Cause(j)'
                          /\ MayLeave(j) => MayLeave(j)'
                          /\ Justified(j) => Justified(j)'
  BY CausesStay
<1>4. CASE workflow = "open" /\ current = k /\ k + 1 \in Attempts
  <2>1. current' = k + 1 /\ phase' = [f EXCEPT ![k + 1] = "setup"] /\ workflow' = workflow
    BY <1>4 DEF Retried
  <2>2. \A j \in Attempts : phase'[j] = IF j = k + 1 THEN "setup" ELSE f[j]
    BY <2>1, <1>1
  <2>3. phase[k + 1] = "idle" /\ f[k + 1] = "idle"
    BY <1>0, <1>1, <1>4 DEF InTurn
  <2>4. ContainerTypeOK'
    <3>1. current' \in 0 .. MaxTries
      BY <2>1, <1>4 DEF Attempts
    <3> QED BY <3>1, <2>1, <1>1, <1>0 DEF ContainerTypeOK
  <2>5. ASSUME NEW j \in Attempts PROVE InTurn(j)' /\ Progress(j)' /\ Traced(j)'
    <3>1. InTurn(j) /\ Progress(j) /\ Traced(j) /\ j \in Nat
      BY <1>0
    <3>2. CASE j = k + 1
      BY <3>1, <3>2, <2>1, <2>2, <2>3, <1>3 DEF InTurn, Progress, Traced, InFlight, Exists
    <3>3. CASE j = k
      BY <3>1, <3>3, <2>1, <2>2, <1>0, <1>1, <1>3 DEF InTurn, Progress, Traced, InFlight, Exists
    <3>4. CASE j # k /\ j # k + 1
      BY <3>1, <3>4, <2>1, <2>2, <1>0, <1>1, <1>3, <1>4 DEF InTurn, Progress, Traced, InFlight, Exists
    <3> QED BY <3>2, <3>3, <3>4
  <2>6. RetriedForCause'
    <3> SUFFICES ASSUME NEW j \in Attempts, j < k + 1 PROVE Justified(j)'
      BY <2>1, <1>4 DEF RetriedForCause, Justified
    <3>1. CASE j = k
      BY <3>1
    <3>2. CASE j # k
      BY <3>2, <1>0, <1>3, <1>4 DEF RetriedForCause, Justified
    <3> QED BY <3>1, <3>2
  <2>7. Resulted' /\ Told'
    BY <2>1, <1>0, <1>4 DEF Resulted, Told
  <2> QED BY <2>4, <2>5, <2>6, <2>7 DEF ContainerInv
<1>5. CASE ~ (workflow = "open" /\ current = k /\ k + 1 \in Attempts)
  <2>1. /\ current' = current /\ phase' = f
        /\ workflow' # workflow => workflow = "open" /\ workflow' = "failed" /\ current = k
        /\ workflow' \in {"none", "open", "failed", "stopped", "completed"}
    BY <1>5, <1>0 DEF Retried, ContainerTypeOK
  <2>2. ContainerTypeOK'
    BY <2>1, <1>1, <1>0 DEF ContainerTypeOK
  <2>3. ASSUME NEW j \in Attempts PROVE InTurn(j)' /\ Progress(j)' /\ Traced(j)'
    <3>1. InTurn(j) /\ Progress(j) /\ Traced(j) /\ j \in Nat
      BY <1>0
    <3>2. CASE j = k
      BY <3>1, <3>2, <2>1, <1>1, <1>2, <1>3 DEF InTurn, Progress, Traced, InFlight, Exists
    <3>3. CASE j # k
      BY <3>1, <3>3, <2>1, <1>1, <1>3 DEF InTurn, Progress, Traced, InFlight, Exists
    <3> QED BY <3>2, <3>3
  <2>4. RetriedForCause'
    <3> SUFFICES ASSUME NEW j \in Attempts, j < current \/ (j = current /\ workflow' = "failed")
                 PROVE  Justified(j)'
      BY <2>1 DEF RetriedForCause, Justified
    <3> QED BY <2>1, <1>0, <1>3 DEF RetriedForCause, Justified
  <2>5. Resulted' /\ Told'
    BY <2>1, <1>0, <1>1 DEF Resulted, Told
  <2> QED BY <2>2, <2>3, <2>4, <2>5 DEF ContainerInv
<1> QED BY <1>4, <1>5

(* Start fails: by an error of its own, out of time, or as the name of its *)
(* container is taken by one that an earlier attempt has left.             *)
LEMMA StartFailsKeepsContainerInv ==
  ASSUME ContainerInv, NEW k \in Attempts, StartFails(k)
  PROVE  ContainerInv'
<1>0. /\ ContainerTypeOK
      /\ \A j \in Attempts : InTurn(j) /\ Progress(j) /\ Traced(j)
      /\ phase[k] \in {"setup", "start"}
      /\ expired \in [Attempts -> BOOLEAN]
      /\ UNCHANGED <<input, output, expired, waited, container, exitCode, waiter, watcher>>
      /\ Retried(k, [phase EXCEPT ![k] = "ended"])
      /\ faults \subseteq faults'
      /\ current \in Nat /\ Attempts \subseteq Nat /\ k \in 1 .. MaxTries
  BY DEF ContainerInv, ContainerTypeOK, StartFails, Errs, Fault, clientVars, Attempts
<1>1. \/ expired[k]
      \/ phase[k] = "setup" /\ NameTaken
      \/ <<k, "start">> \in faults'
  BY DEF StartFails, Fault
<1>2. Exists(k) => MayLeave(k)'
  BY <1>0, <1>1 DEF Progress, Exists, MayLeave
<1>3. Justified(k)'
  <2>1. CASE expired[k] \/ <<k, "start">> \in faults'
    BY <2>1, <1>0 DEF Justified, Cause
  <2>2. CASE phase[k] = "setup" /\ NameTaken /\ ~ expired[k]
    <3>1. PICK j \in Attempts : Exists(j)
      BY <2>2 DEF NameTaken
    <3>2. k <= current /\ j <= current /\ phase[j] \notin {"idle", "setup"} /\ j # k
      BY <3>1, <2>2, <1>0 DEF InTurn, Progress, Exists
    <3>3. k = current
      BY <3>2, <2>2, <1>0 DEF InTurn, InFlight
    <3>4. j \in 1 .. (k - 1)
      BY <3>2, <3>3, <1>0 DEF Attempts
    <3>5. MayLeave(j)
      <4>1. j < current
        BY <3>4, <3>3, <1>0
      <4>2. CASE InFlight(j)
        BY <4>1, <4>2, <1>0 DEF InTurn, MayLeave
      <4>3. CASE phase[j] = "crashed"
        BY <4>3, <1>0 DEF Traced, MayLeave
      <4>4. CASE phase[j] = "ended"
        BY <4>4, <3>1, <1>0 DEF Traced
      <4> QED BY <4>2, <4>3, <4>4, <3>2, <1>0 DEF InFlight, ContainerTypeOK
    <3>6. MayLeave(j)'
      BY <3>5, <1>0 DEF MayLeave
    <3> QED BY <3>4, <3>6, <2>2, <1>0 DEF NameTaken, Justified
  <2> QED BY <2>1, <2>2, <1>1
<1>4. [phase EXCEPT ![k] = "ended"][k] = "ended"
  BY <1>0 DEF ContainerTypeOK
<1> QED BY <1>0, <1>2, <1>3, <1>4, RetriedKeepsContainerInv

(* The activity is through: its result completes the workflow that waits   *)
(* for it, or it returns the error of its wait.                            *)
LEMMA ReportKeepsContainerInv ==
  ASSUME ContainerInv, NEW k \in Attempts, Report(k)
  PROVE  ContainerInv'
<1>0. /\ ContainerTypeOK /\ RetriedForCause /\ Resulted /\ Told
      /\ \A j \in Attempts : InTurn(j) /\ Progress(j) /\ Traced(j)
      /\ phase[k] = "report"
      /\ UNCHANGED <<input, expired, waited, faults, container, exitCode, waiter, watcher>>
  BY DEF ContainerInv, Report, clientVars
<1>1. CASE workflow = "open" /\ current = k /\ waited[k] = "exit"
  <2>1. /\ phase' = [phase EXCEPT ![k] = "ended"] /\ workflow' = "completed"
        /\ output' = [attempt |-> k, success |-> exitCode[k] = 0] /\ current' = current
    BY <1>1 DEF Report, Step
  <2>2. ContainerTypeOK'
    BY <2>1, <1>0 DEF ContainerTypeOK
  <2>3. ASSUME NEW j \in Attempts PROVE InTurn(j)' /\ Progress(j)' /\ Traced(j)'
    BY <2>1, <1>0 DEF ContainerTypeOK, InTurn, Progress, Traced, InFlight, Exists, Cause, MayLeave
  <2>4. RetriedForCause'
    BY <2>1, <1>0 DEF RetriedForCause, Cause, MayLeave
  <2>5. Resulted' /\ Told'
    <3>1. phase'[k] = "ended"
      BY <2>1, <1>0 DEF ContainerTypeOK
    <3> QED BY <3>1, <2>1, <1>0, <1>1 DEF Resulted, Told
  <2> QED BY <2>2, <2>3, <2>4, <2>5 DEF ContainerInv
<1>2. CASE ~ (workflow = "open" /\ current = k /\ waited[k] = "exit")
  <2>1. Retried(k, [phase EXCEPT ![k] = "ended"]) /\ output' = output
    BY <1>2 DEF Report, Errs
  <2>2. CASE waited[k] = "exit"
    <3>1. /\ phase' = [phase EXCEPT ![k] = "ended"] /\ workflow' = workflow /\ current' = current
      BY <2>1, <2>2, <1>2 DEF Retried
    <3>2. ContainerTypeOK'
      BY <3>1, <1>0 DEF ContainerTypeOK
    <3>3. ASSUME NEW j \in Attempts PROVE InTurn(j)' /\ Progress(j)' /\ Traced(j)'
      BY <3>1, <1>0 DEF ContainerTypeOK, InTurn, Progress, Traced, InFlight, Exists, Cause, MayLeave
    <3>4. RetriedForCause'
      BY <3>1, <1>0 DEF RetriedForCause, Cause, MayLeave
    <3>5. Resulted' /\ Told'
      BY <3>1, <2>1, <1>0 DEF Resulted, Told, ContainerTypeOK
    <3> QED BY <3>2, <3>3, <3>4, <3>5 DEF ContainerInv
  <2>3. CASE waited[k] # "exit"
    <3>1. waited[k] = "error"
      BY <2>3, <1>0 DEF Progress, ContainerTypeOK
    <3>2. Justified(k)' /\ (Exists(k) => MayLeave(k)')
      BY <3>1, <1>0 DEF Traced, Justified, Cause, MayLeave
    <3>3. [phase EXCEPT ![k] = "ended"][k] = "ended" /\ expired \in [Attempts -> BOOLEAN]
      BY <1>0 DEF ContainerTypeOK
    <3> QED BY <3>2, <3>3, <2>1, <1>0, RetriedKeepsContainerInv
  <2> QED BY <2>2, <2>3
<1> QED BY <1>1, <1>2

(* Start-to-close ends an attempt's context wherever it is.                *)
LEMMA ExpireKeepsContainerInv ==
  ASSUME ContainerInv, NEW k \in Attempts, Expire(k)
  PROVE  ContainerInv'
<1>1. /\ phase[k] # "idle" /\ phase[k] # "ended" /\ Retried(k, phase)
      /\ expired \in [Attempts -> BOOLEAN]
      /\ expired' = [expired EXCEPT ![k] = TRUE] /\ faults' = faults
      /\ UNCHANGED <<input, output, waited, container, exitCode, waiter, watcher>>
  BY DEF ContainerInv, ContainerTypeOK, Expire, InFlight, clientVars
<1>2. expired'[k] /\ \A j \in Attempts : expired[j] => expired'[j]
  BY <1>1
<1>3. Justified(k)'
  BY <1>2 DEF Justified, Cause
<1>4. expired' \in [Attempts -> BOOLEAN]
  BY <1>1
<1> QED BY <1>1, <1>2, <1>3, <1>4, RetriedKeepsContainerInv

(* The other steps of an attempt and its container, which leave the        *)
(* workflow alone.                                                         *)
LEMMA AttemptKeepsContainerInv ==
  ASSUME ContainerInv, NEW k \in Attempts,
         \/ CreateContainer(k) \/ Ready(k) \/ WaitReturns(k) \/ Cleanup(k)
         \/ Exits(k) \/ Crash(k)
  PROVE  ContainerInv'
<1>0. /\ ContainerTypeOK /\ RetriedForCause /\ Resulted /\ Told
      /\ \A j \in Attempts : InTurn(j) /\ Progress(j) /\ Traced(j)
      /\ UNCHANGED <<input, workflow, output, current, expired, waiter, watcher>>
      /\ expired \in [Attempts -> BOOLEAN]
  BY DEF ContainerInv, ContainerTypeOK, CreateContainer, Ready, WaitReturns, Cleanup, Exits, Crash,
         attemptVars, clientVars
<1>1. faults \subseteq faults'
  BY DEF CreateContainer, Ready, WaitReturns, Cleanup, Exits, Crash, Fault, attemptVars
<1>2. \A j \in Attempts : /\ Cause(j) => Cause(j)'
                          /\ MayLeave(j) => MayLeave(j)'
                          /\ Justified(j) => Justified(j)'
  BY <1>0, <1>1, CausesStay
<1>3. RetriedForCause' /\ Told'
  BY <1>0, <1>2 DEF RetriedForCause, Justified, Told
<1>4. ContainerTypeOK'
  <2>1. phase' \in [Attempts -> {"idle", "setup", "start", "wait", "cleanup", "report",
                                 "ended", "crashed"}]
    BY <1>0 DEF ContainerTypeOK, CreateContainer, Ready, WaitReturns, Cleanup, Exits, Crash, Step,
                attemptVars
  <2>2. waited' \in [Attempts -> {"none", "exit", "error"}]
    BY <1>0 DEF ContainerTypeOK, CreateContainer, Ready, WaitReturns, Cleanup, Exits, Crash,
                attemptVars
  <2>3. container' \in [Attempts -> {"none", "running", "exited", "removed"}]
    BY <1>0 DEF ContainerTypeOK, CreateContainer, Ready, WaitReturns, Cleanup, Exits, Crash
  <2>4. exitCode' \in [Attempts -> {0, 1}]
    BY <1>0 DEF ContainerTypeOK, CreateContainer, Ready, WaitReturns, Cleanup, Exits, Crash
  <2> QED BY <2>1, <2>2, <2>3, <2>4, <1>0 DEF ContainerTypeOK
<1>5. ASSUME NEW j \in Attempts, j # k PROVE InTurn(j)' /\ Progress(j)' /\ Traced(j)'
  <2>1. phase'[j] = phase[j] /\ waited'[j] = waited[j] /\ container'[j] = container[j]
    BY <1>0, <1>5 DEF ContainerTypeOK, CreateContainer, Ready, WaitReturns, Cleanup, Exits, Crash,
                      Step, attemptVars
  <2> QED BY <2>1, <1>0, <1>1, <1>2 DEF InTurn, Progress, Traced, InFlight, Exists
<1>6. /\ InTurn(k)' /\ Progress(k)' /\ Traced(k)'
      /\ Resulted'
  <2>0. /\ InTurn(k) /\ Progress(k) /\ Traced(k)
        /\ phase[k] # "idle" => ~ (k > current)
    BY <1>0 DEF InTurn
  <2>1. CASE CreateContainer(k)
    <3>1. /\ phase[k] = "setup" /\ phase' = [phase EXCEPT ![k] = "start"]
          /\ container' = [container EXCEPT ![k] = "running"]
          /\ UNCHANGED <<waited, faults, exitCode>>
      BY <2>1 DEF CreateContainer, Step
    <3>2. phase'[k] = "start" /\ container'[k] = "running" /\ current = k => phase'[k] # "ended"
      BY <3>1, <1>0 DEF ContainerTypeOK
    <3>3. Resulted'
      BY <3>1, <1>0 DEF Resulted, ContainerTypeOK
    <3> QED BY <3>1, <3>2, <3>3, <2>0, <1>0, <1>2 DEF ContainerTypeOK, InTurn, Progress, Traced, InFlight, Exists
  <2>2. CASE Ready(k)
    <3>1. /\ phase[k] = "start" /\ phase' = [phase EXCEPT ![k] = "wait"]
          /\ UNCHANGED <<waited, faults, exitCode, container>>
      BY <2>2 DEF Ready, Step
    <3>2. phase'[k] = "wait"
      BY <3>1, <1>0 DEF ContainerTypeOK
    <3>3. Resulted'
      BY <3>1, <1>0 DEF Resulted, ContainerTypeOK
    <3> QED BY <3>1, <3>2, <3>3, <2>0, <1>0, <1>2 DEF InTurn, Progress, Traced, InFlight, Exists
  <2>3. CASE WaitReturns(k)
    <3>1. /\ phase[k] = "wait" /\ phase' = [phase EXCEPT ![k] = "cleanup"]
          /\ UNCHANGED <<exitCode, container>>
          /\ waited' \in {[waited EXCEPT ![k] = "exit"], [waited EXCEPT ![k] = "error"]}
      BY <2>3 DEF WaitReturns, Step
    <3>2. phase'[k] = "cleanup" /\ waited'[k] \in {"exit", "error"}
      BY <3>1, <1>0 DEF ContainerTypeOK
    <3>3. waited'[k] = "exit" => container[k] = "exited"
      BY <2>3, <1>0 DEF WaitReturns, ContainerTypeOK
    <3>4. waited'[k] = "error" => Cause(k)'
      BY <2>3, <1>0 DEF WaitReturns, ContainerTypeOK, Fault, Cause
    <3>5. Resulted'
      BY <3>1, <1>0 DEF Resulted, ContainerTypeOK
    <3> QED BY <3>1, <3>2, <3>3, <3>4, <3>5, <2>0, <1>0 DEF InTurn, Progress, Traced, InFlight, Exists
  <2>4. CASE Cleanup(k)
    <3>1. /\ phase[k] = "cleanup" /\ phase' = [phase EXCEPT ![k] = "report"]
          /\ UNCHANGED <<waited, exitCode>>
      BY <2>4 DEF Cleanup, Step
    <3>2. phase'[k] = "report" /\ container'[k] \in {container[k], "removed"}
      BY <2>4, <3>1, <1>0 DEF ContainerTypeOK, Cleanup
    <3>3. container'[k] \in {"running", "exited"} => MayLeave(k)'
      BY <2>4, <1>0 DEF Cleanup, Removes, MayLeave, Fault, ContainerTypeOK
    <3>4. Resulted'
      BY <3>1, <1>0 DEF Resulted, ContainerTypeOK
    <3> QED BY <3>1, <3>2, <3>3, <3>4, <2>0, <1>0, <1>2 DEF InTurn, Progress, Traced, InFlight, Exists
  <2>5. CASE Exits(k)
    <3>1. /\ container[k] = "running" /\ container' = [container EXCEPT ![k] = "exited"]
          /\ UNCHANGED <<phase, waited, faults>>
          /\ \A j \in Attempts : j # k => exitCode'[j] = exitCode[j]
      BY <2>5, <1>0 DEF Exits, attemptVars, ContainerTypeOK
    <3>2. container'[k] = "exited"
      BY <3>1, <1>0 DEF ContainerTypeOK
    <3>3. waited[k] # "exit"
      BY <3>1, <2>0 DEF Progress
    <3>4. Resulted'
      BY <3>1, <3>3, <1>0 DEF Resulted
    <3> QED BY <3>1, <3>2, <3>4, <2>0, <1>0, <1>2 DEF InTurn, Progress, Traced, InFlight, Exists
  <2>6. CASE Crash(k)
    <3>1. /\ InFlight(k) /\ phase' = [phase EXCEPT ![k] = "crashed"] /\ <<k, "crash">> \in faults'
          /\ UNCHANGED <<waited, exitCode, container>>
      BY <2>6 DEF Crash, Step, Fault
    <3>2. phase'[k] = "crashed"
      BY <3>1, <1>0 DEF ContainerTypeOK
    <3>3. Resulted'
      BY <3>1, <1>0 DEF Resulted, ContainerTypeOK, InFlight
    <3> QED BY <3>1, <3>2, <3>3, <2>0, <1>0, <1>2 DEF InTurn, Progress, Traced, InFlight, Exists
  <2> QED BY <2>1, <2>2, <2>3, <2>4, <2>5, <2>6
<1> QED BY <1>0, <1>3, <1>4, <1>5, <1>6 DEF ContainerInv

(* The clients only look on; they start and stop the workflow.             *)
LEMMA ClientKeepsContainerInv ==
  ASSUME ContainerInv,
         \/ Submit \/ SubmitTyped \/ Stop \/ Answer \/ WaitTimesOut
         \/ Watch \/ WatchTick \/ GetWorkflowStatus \/ Send \/ CancelWatch \/ WatchDone
  PROVE  ContainerInv'
<1>1. /\ UNCHANGED <<input, output, current, attemptVars, container, exitCode>>
      /\ workflow' = workflow \/ (workflow \in {"none", "open"} /\ workflow' \in {"open", "stopped"})
  BY DEF Submit, SubmitTyped, Stop, Answer, WaitTimesOut, Watch, WatchTick, GetWorkflowStatus, Send,
         CancelWatch, WatchDone, Watching
<1>2. waiter' = "Completed" \/ watcher' = "Completed" => workflow' = "completed"
  BY DEF ContainerInv, Told, Submit, SubmitTyped, Stop, Answer, WaitTimesOut, Watch, WatchTick,
         GetWorkflowStatus, Send, CancelWatch, WatchDone, Watching, clientVars
<1>3. ContainerTypeOK' /\ \A j \in Attempts : InTurn(j)' /\ Progress(j)' /\ Traced(j)'
  BY <1>1 DEF ContainerInv, ContainerTypeOK, attemptVars, InTurn, Progress, Traced, InFlight, Exists,
              Cause, MayLeave
<1>4. RetriedForCause' /\ Resulted'
  BY <1>1 DEF ContainerInv, attemptVars, RetriedForCause, Resulted, Cause, MayLeave
<1> QED BY <1>2, <1>3, <1>4 DEF ContainerInv, Told

(* The task workflow starts its first attempt, or fails without one.       *)
LEMMA RunTaskKeepsContainerInv ==
  ASSUME ContainerInv, RunTask
  PROVE  ContainerInv'
<1>0. /\ ContainerTypeOK /\ RetriedForCause /\ Told /\ workflow = "open" /\ current = 0
      /\ \A j \in Attempts : InTurn(j) /\ Progress(j) /\ Traced(j)
      /\ UNCHANGED <<input, output, expired, waited, faults, container, exitCode, waiter, watcher>>
      /\ 1 \in Attempts /\ MaxTries \in Nat /\ \A j \in Attempts : j > 0
  BY TriesAssumption DEF ContainerInv, RunTask, clientVars, Attempts
<1>1. CASE input.valid
  <2>1. current' = 1 /\ phase' = [phase EXCEPT ![1] = "setup"] /\ workflow' = workflow
    BY <1>1 DEF RunTask, Step
  <2>2. \A j \in Attempts : phase[j] = "idle"
    BY <1>0 DEF InTurn
  <2>3. ContainerTypeOK'
    <3>1. 1 \in 0 .. MaxTries
      BY <1>0 DEF Attempts
    <3> QED BY <3>1, <2>1, <1>0 DEF ContainerTypeOK
  <2>4. ASSUME NEW j \in Attempts PROVE InTurn(j)' /\ Progress(j)' /\ Traced(j)'
    BY <2>1, <2>2, <1>0 DEF ContainerTypeOK, Attempts, InTurn, Progress, Traced, InFlight, Exists, Cause
  <2>5. RetriedForCause' /\ Resulted' /\ Told'
    BY <2>1, <1>0 DEF RetriedForCause, Attempts, Resulted, Told
  <2> QED BY <2>3, <2>4, <2>5 DEF ContainerInv
<1>2. CASE ~ input.valid
  <2>1. workflow' = "failed" /\ UNCHANGED <<current, phase>>
    BY <1>2 DEF RunTask
  <2>2. ContainerTypeOK' /\ \A j \in Attempts : InTurn(j)' /\ Progress(j)' /\ Traced(j)'
    BY <2>1, <1>0 DEF ContainerTypeOK, InTurn, Progress, Traced, InFlight, Exists, Cause, MayLeave
  <2>3. RetriedForCause'
    BY <2>1, <1>0 DEF RetriedForCause, Attempts
  <2>4. Resulted' /\ Told'
    BY <2>1, <1>0 DEF Resulted, Told
  <2> QED BY <2>2, <2>3, <2>4 DEF ContainerInv
<1> QED BY <1>1, <1>2

(* Every step keeps the container's invariant.                             *)
LEMMA ContainerKeepsInv ==
  ASSUME ContainerInv, [ContainerNext]_containerVars
  PROVE  ContainerInv'
<1>1. ASSUME NEW k \in Attempts, Activity(k) \/ Exits(k) \/ Expire(k) \/ Crash(k)
      PROVE  ContainerInv'
  BY <1>1, StartFailsKeepsContainerInv, ReportKeepsContainerInv, ExpireKeepsContainerInv,
     AttemptKeepsContainerInv DEF Activity
<1>2. CASE UNCHANGED containerVars
  <2>1. UNCHANGED <<input, workflow, output, current, phase, expired, waited, faults, container,
                    exitCode, waiter, watcher>>
    BY <1>2 DEF containerVars, attemptVars, clientVars
  <2> QED BY <2>1 DEF ContainerInv, ContainerTypeOK, InTurn, Progress, Traced, InFlight, Exists, Cause,
                      MayLeave, RetriedForCause, Resulted, Told
<1> QED BY <1>1, <1>2, RunTaskKeepsContainerInv, ClientKeepsContainerInv DEF ContainerNext

(* The invariant holds whatever fails, expires or is cancelled.            *)
LEMMA ContainerInvariant == ContainerSpec => []ContainerInv
<1>1. ContainerInit => ContainerInv
  BY ContainerStart
<1>2. ContainerInv /\ [ContainerNext]_containerVars => ContainerInv'
  BY ContainerKeepsInv
<1> QED BY <1>1, <1>2, PTL DEF ContainerSpec

(* A container outlives its attempt against AutoRemove only when the       *)
(* attempt's time was up, when the start failed or the worker was lost, or *)
(* when the engine refused: for any interleaving of attempts and clients.  *)
THEOREM ContainersAreRemoved == ContainerSpec => []NoLeak
<1>1. ContainerInv => NoLeak
  BY DEF ContainerInv, Traced, NoLeak
<1> QED BY <1>1, ContainerInvariant, PTL

(* StartContainerActivity is retried for a fault, for its time-out or for  *)
(* a name that an earlier attempt has left taken; never for an exit code.  *)
THEOREM RetriesHaveACause == ContainerSpec => []RetriedForCause
<1>1. ContainerInv => RetriedForCause
  BY DEF ContainerInv
<1> QED BY <1>1, ContainerInvariant, PTL

(* The result that SubmitAndWait and WatchWorkflow give is that of an      *)
(* attempt whose wait has seen its container exit, with its exit code.     *)
THEOREM ClientsHearTheTruth == ContainerSpec => []ResultTruthful
<1>1. ContainerInv => ResultTruthful
  BY DEF ContainerInv, Resulted, Told, ResultTruthful
<1> QED BY <1>1, ContainerInvariant, PTL
-----------------------------------------------------------------------------
(* The attempts in time *)

AtWork == {"fetch", "sleep", "map", "write"}

RunState ==
  [phase : AtWork \cup {"idle", "returned", "lost"}, age : Int, silent : Int, ticker : Int,
   nap : Int, left : Int, calls : Nat, done : BOOLEAN]

PartitionTypeOK ==
  /\ heartbeat \in Nat \ {0}
  /\ run \in [Tries -> RunState]
  /\ awaited \in Tries

(* A heartbeat is never older than the ticker's last tick, and that one is *)
(* at most a late interval ago.                                            *)
InStep(s) ==
  /\ 0 <= s.silent
  /\ s.silent <= s.ticker
  /\ s.ticker <= Interval(heartbeat) + Delay

Alive(s) == ~ s.done /\ (s.phase \in AtWork => InStep(s))

PartitionInv ==
  /\ PartitionTypeOK
  /\ \A k \in Tries : Awaited(k) => Alive(run[k])

LEMMA Times ==
  /\ MaxRetries \in Nat \ {0} /\ 1 \in Tries /\ Tries \subseteq Nat
  /\ Floor \in Nat \ {0} /\ Delay \in Nat /\ Delay <= Floor
  /\ FallbackInterval \in Nat /\ Sleep \in Nat /\ SleeperInterval \in Nat
  /\ DefaultHeartbeat \in Nat \ {0} /\ Heartbeats \subseteq Nat
  /\ StartToClose \in Nat /\ MaxCalls \in Nat
BY TimesAssumption DEF Tries

(* The interval of the loop, with the most it can be late, is less than a  *)
(* time-out of three floors or more.                                       *)
LEMMA IntervalBelowTimeout ==
  ASSUME NEW h \in Nat \ {0}
  PROVE  /\ Interval(h) \in Nat
         /\ h >= 3 * Floor => Interval(h) + Delay < h
<1>1. CASE h < 3 * Floor
  BY <1>1, Times DEF Interval
<1>2. CASE ~ (h < 3 * Floor)
  <2>1. Interval(h) = h \div 3
    BY <1>2 DEF Interval
  <2>2. h \div 3 \in Nat /\ 3 * (h \div 3) <= h
    OBVIOUS
  <2> HIDE DEF Interval
  <2>3. 3 * Delay <= h
    BY <1>2, Times
  <2> QED BY <2>1, <2>2, <2>3, Times
<1> QED BY <1>1, <1>2

(* Attempts as they begin and end.                                         *)
LEMMA NewStates ==
  /\ Idle \in RunState /\ Idle.phase = "idle" /\ Idle.calls = 0
  /\ Fresh \in RunState /\ Fresh.calls = 1 /\ ~ Fresh.done /\ Fresh.silent = 0 /\ Fresh.ticker = 0
  /\ Returned \in RunState /\ Returned.calls = 0
  /\ Returned.phase = "returned" /\ ~ Returned.done
<1>1. Idle \in RunState /\ Idle.phase = "idle" /\ Idle.calls = 0
  BY DEF Idle, RunState, AtWork
<1>2. Fresh \in RunState /\ Returned \in RunState
  BY <1>1 DEF Fresh, Returned, RunState, AtWork
<1>3. Fresh.calls = 1 /\ ~ Fresh.done /\ Fresh.silent = 0 /\ Fresh.ticker = 0
  BY DEF Fresh, Idle
<1>4. Returned.calls = 0 /\ Returned.phase = "returned" /\ ~ Returned.done
  BY DEF Returned, Idle
<1> QED BY <1>1, <1>2, <1>3, <1>4

(* The first attempt begins.                                               *)
LEMMA PartitionStart ==
  ASSUME PartitionInit
  PROVE  PartitionInv
<1>1. heartbeat \in Nat \ {0}
  BY Times DEF PartitionInit, WithDefault
<1>2. run = [k \in Tries |-> IF k = 1 THEN Fresh ELSE Idle] /\ awaited = 1
  BY DEF PartitionInit
<1>3. PartitionTypeOK
  BY <1>1, <1>2, Times, NewStates DEF PartitionTypeOK
<1>4. Alive(run[1])
  BY <1>1, <1>2, Times, IntervalBelowTimeout, NewStates DEF Alive, InStep
<1> QED BY <1>2, <1>3, <1>4 DEF PartitionInv, PartitionTypeOK, Awaited

(* An attempt goes on in another state.                                    *)
LEMMA ContinueKeepsPartitionInv ==
  ASSUME PartitionInv, NEW k \in Tries, NEW s \in RunState, Continue(k, s),
         Awaited(k) => Alive(s), UNCHANGED heartbeat
  PROVE  PartitionInv'
<1>1. run' = [run EXCEPT ![k] = s] /\ UNCHANGED <<awaited, outcome>>
  BY DEF Continue
<1>2. \A j \in Tries : run'[j] = IF j = k THEN s ELSE run[j]
  BY <1>1 DEF PartitionInv, PartitionTypeOK
<1>3. PartitionTypeOK'
  BY <1>1 DEF PartitionInv, PartitionTypeOK
<1>4. ASSUME NEW j \in Tries, Awaited(j)' PROVE Alive(run[j])'
  BY <1>1, <1>2, <1>4 DEF PartitionInv, Awaited, Alive, InStep
<1> QED BY <1>3, <1>4 DEF PartitionInv

(* An attempt is over for Temporal, at work or not; the next one begins.   *)
LEMMA NextAttemptKeepsPartitionInv ==
  ASSUME PartitionInv, NEW k \in Tries, NEW s \in RunState,
         NextAttempt(k, [run EXCEPT ![k] = s]), UNCHANGED heartbeat
  PROVE  PartitionInv'
<1> DEFINE r == [run EXCEPT ![k] = s]
<1>1. /\ r \in [Tries -> RunState] /\ heartbeat \in Nat \ {0} /\ awaited \in Tries
      /\ \A j \in Tries : r[j] = IF j = k THEN s ELSE run[j]
  BY DEF PartitionInv, PartitionTypeOK
<1> HIDE DEF r
<1>2. CASE outcome = "open" /\ awaited = k /\ k < MaxRetries
  <2>1. awaited' = k + 1 /\ run' = [r EXCEPT ![k + 1] = Fresh] /\ outcome' = outcome
    BY <1>2 DEF NextAttempt, r
  <2>2. k + 1 \in Tries
    BY <1>2, Times DEF Tries
  <2>3. PartitionTypeOK'
    BY <1>1, <2>1, <2>2, NewStates DEF PartitionTypeOK
  <2>4. run'[k + 1] = Fresh
    BY <1>1, <2>1, <2>2
  <2>5. Alive(run[k + 1])'
    BY <1>1, <2>4, NewStates, Times, IntervalBelowTimeout DEF Alive, InStep
  <2> QED BY <2>1, <2>3, <2>5 DEF PartitionInv, Awaited
<1>3. CASE outcome = "open" /\ awaited = k /\ ~ (k < MaxRetries)
  <2>1. outcome' = "failed" /\ run' = r /\ awaited' = awaited
    BY <1>3 DEF NextAttempt, r
  <2> QED BY <2>1, <1>1 DEF PartitionInv, PartitionTypeOK, Awaited
<1>4. CASE ~ (outcome = "open" /\ awaited = k)
  <2>1. run' = r /\ UNCHANGED <<awaited, outcome>>
    BY <1>4 DEF NextAttempt, r
  <2>2. PartitionTypeOK'
    BY <2>1, <1>1 DEF PartitionTypeOK
  <2>3. ASSUME NEW j \in Tries, Awaited(j)' PROVE Alive(run[j])'
    BY <2>1, <2>3, <1>1, <1>4 DEF PartitionInv, Awaited, Alive, InStep
  <2> QED BY <2>2, <2>3 DEF PartitionInv
<1> QED BY <1>2, <1>3, <1>4

(* An error or a result ends an attempt.                                   *)
LEMMA ReturnKeepsPartitionInv ==
  ASSUME PartitionInv, NEW k \in Tries, ReturnError(k) \/ ReturnResult(k), UNCHANGED heartbeat
  PROVE  PartitionInv'
<1>1. CASE ReturnError(k)
  BY <1>1, NewStates, NextAttemptKeepsPartitionInv DEF ReturnError
<1>2. CASE ReturnResult(k)
  <2>1. /\ run' = [run EXCEPT ![k] = Returned] /\ awaited' = awaited
        /\ outcome' = IF outcome = "open" /\ awaited = k THEN "succeeded" ELSE outcome
    BY <1>2 DEF ReturnResult
  <2>2. \A j \in Tries : run'[j] = IF j = k THEN Returned ELSE run[j]
    BY <2>1 DEF PartitionInv, PartitionTypeOK
  <2>3. PartitionTypeOK'
    BY <2>1, NewStates DEF PartitionInv, PartitionTypeOK
  <2>4. ASSUME NEW j \in Tries, Awaited(j)' PROVE Alive(run[j])'
    BY <2>1, <2>2, <2>4 DEF PartitionInv, Awaited, Alive, InStep
  <2> QED BY <2>3, <2>4 DEF PartitionInv
<1> QED BY <1>1, <1>2

(* A recorded heartbeat makes an awaited attempt no longer silent; any     *)
(* other learns from its answer that it was given up.                      *)
LEMMA RecordedState ==
  ASSUME PartitionInv, NEW k \in Tries, NEW s \in RunState
  PROVE  /\ Recorded(k, s) \in RunState
         /\ Recorded(k, s).calls = s.calls /\ Recorded(k, s).phase = s.phase
         /\ Recorded(k, s).ticker = s.ticker
         /\ Awaited(k) => Recorded(k, s).silent = 0 /\ Recorded(k, s).done = s.done
         /\ ~ Awaited(k) => Recorded(k, s).done
<1>1. CASE Awaited(k)
  BY <1>1 DEF Recorded, Awaited, RunState
<1>2. CASE ~ Awaited(k)
  BY <1>2 DEF Recorded, Awaited, RunState
<1> QED BY <1>1, <1>2

(* What a step of the work changes in the attempt's state.                 *)
LEMMA WorkStates ==
  ASSUME NEW s \in RunState
  PROVE  /\ \A p \in AtWork \cup {"lost"} :
              /\ [s EXCEPT !.phase = p] \in RunState
              /\ [s EXCEPT !.phase = p].phase = p /\ [s EXCEPT !.phase = p].calls = s.calls
              /\ [s EXCEPT !.phase = p].silent = s.silent /\ [s EXCEPT !.phase = p].ticker = s.ticker
              /\ [s EXCEPT !.phase = p].done = s.done
         /\ \A n \in Int :
              LET t == [s EXCEPT !.nap = n]
              IN  /\ t \in RunState /\ t.calls = s.calls /\ t.silent = s.silent
                  /\ t.ticker = s.ticker /\ t.done = s.done /\ t.phase = s.phase
<1>1. \A p \in AtWork \cup {"lost"} :
        /\ [s EXCEPT !.phase = p] \in RunState
        /\ [s EXCEPT !.phase = p].phase = p /\ [s EXCEPT !.phase = p].calls = s.calls
        /\ [s EXCEPT !.phase = p].silent = s.silent /\ [s EXCEPT !.phase = p].ticker = s.ticker
        /\ [s EXCEPT !.phase = p].done = s.done
  BY DEF RunState
<1>2. ASSUME NEW n \in Int
      PROVE  LET t == [s EXCEPT !.nap = n]
             IN  /\ t \in RunState /\ t.calls = s.calls /\ t.silent = s.silent
                 /\ t.ticker = s.ticker /\ t.done = s.done /\ t.phase = s.phase
  BY DEF RunState
<1> QED BY <1>1, <1>2

(* Fetch, map and write, and what ends them.                               *)
LEMMA WorkKeepsPartitionInv ==
  ASSUME PartitionInv, NEW k \in Tries,
         \/ Fetched(k) \/ FetchFails(k) \/ RateLimited(k) \/ Work(k) \/ WorkerLost(k)
  PROVE  PartitionInv'
<1> DEFINE s == run[k]
<1>0. /\ s \in RunState /\ UNCHANGED heartbeat
      /\ Awaited(k) => Alive(s)
      /\ \A h \in Nat \ {0} : Interval(h) \in Nat
  BY IntervalBelowTimeout
     DEF PartitionInv, PartitionTypeOK, Fetched, FetchFails, RateLimited, Work, WorkerLost
<1>1. CASE ReturnError(k) \/ ReturnResult(k)
  BY <1>0, <1>1, ReturnKeepsPartitionInv
<1>2. CASE \E p \in AtWork \cup {"lost"} : Continue(k, [s EXCEPT !.phase = p]) /\ s.phase \in AtWork
  <2>1. PICK p \in AtWork \cup {"lost"} : Continue(k, [s EXCEPT !.phase = p]) /\ s.phase \in AtWork
    BY <1>2
  <2> DEFINE t == [s EXCEPT !.phase = p]
  <2>2. t \in RunState /\ t.silent = s.silent /\ t.ticker = s.ticker /\ t.done = s.done
    <3> HIDE DEF s
    <3>1. t \in RunState
      BY <1>0, WorkStates
    <3>2. t.silent = s.silent /\ t.ticker = s.ticker /\ t.done = s.done
      BY <1>0 DEF RunState
    <3> QED BY <3>1, <3>2
  <2>3. Continue(k, t)
    BY <2>1
  <2> HIDE DEF t
  <2>4. Awaited(k) => Alive(t)
    BY <1>0, <2>1, <2>2 DEF Alive, InStep
  <2> QED BY <1>0, <2>2, <2>3, <2>4, ContinueKeepsPartitionInv
<1>3. CASE Fetched(k) /\ ~ ReturnResult(k)
  <2> DEFINE t == IF kind = "sync" THEN Recorded(k, s) ELSE s
  <2>1. Continue(k, [t EXCEPT !.phase = "map"]) /\ s.phase \in AtWork
    BY <1>3 DEF Fetched, AtWork
  <2>2. t \in RunState /\ t.ticker = s.ticker /\ (Awaited(k) => t.done = s.done)
        /\ (Awaited(k) => t.silent = s.silent \/ t.silent = 0)
    BY <1>0, RecordedState
  <2>3. Awaited(k) => ~ t.done /\ InStep(t)
    BY <2>1, <2>2, <1>0 DEF Alive, InStep, RunState
  <2> HIDE DEF t, s
  <2>4. [t EXCEPT !.phase = "map"] \in RunState /\ (Awaited(k) => Alive([t EXCEPT !.phase = "map"]))
    BY <2>2, <2>3, WorkStates DEF Alive, InStep, AtWork
  <2> QED BY <1>0, <2>1, <2>4, ContinueKeepsPartitionInv
<1>4. CASE RateLimited(k) /\ ~ ReturnError(k)
  <2> DEFINE t == [s EXCEPT !.phase = "sleep", !.left = Sleep, !.nap = Min2(SleeperInterval, Sleep)]
  <2>1. Continue(k, t) /\ s.phase \in AtWork
    BY <1>4 DEF RateLimited, AtWork
  <2>2. Sleep \in Int /\ Min2(SleeperInterval, Sleep) \in Int
    BY Times DEF Min2
  <2>3. t \in RunState /\ t.silent = s.silent /\ t.ticker = s.ticker /\ t.done = s.done
    <3>1. ASSUME NEW p \in AtWork, NEW n \in Int, NEW m \in Int
          PROVE  [s EXCEPT !.phase = p, !.left = m, !.nap = n] \in RunState
      BY <1>0 DEF RunState
    <3>2. "sleep" \in AtWork
      BY DEF AtWork
    <3>3. t \in RunState
      BY <3>1, <3>2, <2>2
    <3>4. t.silent = s.silent /\ t.ticker = s.ticker /\ t.done = s.done
      BY <1>0 DEF RunState
    <3> QED BY <3>3, <3>4
  <2> HIDE DEF t
  <2>4. Awaited(k) => Alive(t)
    BY <2>1, <2>3, <1>0 DEF Alive, InStep
  <2> QED BY <1>0, <2>1, <2>3, <2>4, ContinueKeepsPartitionInv
<1> QED BY <1>1, <1>2, <1>3, <1>4 DEF FetchFails, RateLimited, Work, WorkerLost, Working, AtWork

(* The sleep is over: only an attempt whose context is not done goes on,   *)
(* and that is the one that is waited for.                                 *)
LEMMA SleptKeepsPartitionInv ==
  ASSUME PartitionInv, NEW k \in Tries, NEW s \in RunState, Slept(k, s), UNCHANGED heartbeat,
         Awaited(k) => InStep(s)
  PROVE  PartitionInv'
<1>1. CASE s.done
  BY <1>1, ReturnKeepsPartitionInv DEF Slept
<1>2. CASE ~ s.done
  <2> DEFINE t == [s EXCEPT !.phase = "fetch", !.calls = @ + 1, !.nap = 0, !.left = 0]
  <2>1. Continue(k, t)
    BY <1>2 DEF Slept
  <2>2. t \in RunState /\ t.silent = s.silent /\ t.ticker = s.ticker /\ t.done = s.done
    <3>1. s.calls + 1 \in Nat /\ "fetch" \in AtWork /\ 0 \in Int
      BY DEF RunState, AtWork
    <3>2. ASSUME NEW p \in AtWork, NEW c \in Nat, NEW n \in Int, NEW m \in Int
          PROVE  [s EXCEPT !.phase = p, !.calls = c, !.nap = n, !.left = m] \in RunState
      BY DEF RunState
    <3>3. ASSUME NEW c \in Nat
          PROVE  [s EXCEPT !.phase = "fetch", !.calls = c, !.nap = 0, !.left = 0] \in RunState
      BY <3>1, <3>2, Zenon
    <3>4. t \in RunState
      BY <3>1, <3>3
    <3>5. t.silent = s.silent /\ t.ticker = s.ticker /\ t.done = s.done
      BY DEF RunState
    <3> QED BY <3>4, <3>5
  <2> HIDE DEF t
  <2>3. Awaited(k) => Alive(t)
    BY <2>2, <1>2 DEF Alive, InStep
  <2> QED BY <2>1, <2>2, <2>3, ContinueKeepsPartitionInv
<1> QED BY <1>1, <1>2

(* The steps of a rate-limit sleep.                                        *)
LEMMA SleepKeepsPartitionInv ==
  ASSUME PartitionInv, NEW k \in Tries, NapEnds(k) \/ SleepCut(k)
  PROVE  PartitionInv'
<1>0. /\ run[k] \in RunState /\ UNCHANGED heartbeat /\ run[k].phase = "sleep"
      /\ Awaited(k) => Alive(run[k]) /\ InStep(run[k])
  BY DEF PartitionInv, PartitionTypeOK, NapEnds, SleepCut, Alive, AtWork
<1>1. CASE SleepCut(k)
  BY <1>0, <1>1, SleptKeepsPartitionInv DEF SleepCut
<1>2. CASE NapEnds(k)
  <2> DEFINE s == Recorded(k, run[k])
  <2>1. /\ s \in RunState /\ s.phase = "sleep"
        /\ Awaited(k) => ~ s.done /\ InStep(s)
    BY <1>0, RecordedState DEF Alive, InStep, RunState
  <2>2. IF s.left <= 0 THEN Slept(k, s)
        ELSE Continue(k, [s EXCEPT !.nap = Min2(SleeperInterval, s.left)])
    BY <1>2 DEF NapEnds
  <2> HIDE DEF s
  <2>3. CASE s.left <= 0
    BY <2>1, <2>2, <2>3, <1>0, SleptKeepsPartitionInv
  <2>4. CASE ~ (s.left <= 0)
    <3> DEFINE t == [s EXCEPT !.nap = Min2(SleeperInterval, s.left)]
    <3>1. Min2(SleeperInterval, s.left) \in Int
      BY <2>1, Times DEF Min2, RunState
    <3>2. t \in RunState /\ t.silent = s.silent /\ t.ticker = s.ticker /\ t.done = s.done
      BY <3>1, <2>1, WorkStates
    <3>3. Continue(k, t)
      BY <2>2, <2>4
    <3> HIDE DEF t
    <3>4. Awaited(k) => Alive(t)
      BY <3>2, <2>1 DEF Alive, InStep
    <3> QED BY <3>2, <3>3, <3>4, <1>0, ContinueKeepsPartitionInv
  <2> QED BY <2>3, <2>4
<1> QED BY <1>1, <1>2

(* A tick of heartbeat.Loop.                                               *)
LEMMA BeatKeepsPartitionInv ==
  ASSUME PartitionInv, NEW k \in Tries, Beat(k)
  PROVE  PartitionInv'
<1> DEFINE s == run[k]
           t == [s EXCEPT !.ticker = @ - Interval(heartbeat)]
<1>0. /\ s \in RunState /\ UNCHANGED heartbeat /\ Interval(heartbeat) \in Nat
      /\ s.ticker >= Interval(heartbeat) /\ s.phase \in AtWork
      /\ Awaited(k) => Alive(s)
      /\ Continue(k, Recorded(k, t))
  BY IntervalBelowTimeout DEF PartitionInv, PartitionTypeOK, Beat, Beats, Working, AtWork
<1>1. t \in RunState /\ t.ticker = s.ticker - Interval(heartbeat) /\ t.done = s.done
  BY <1>0 DEF RunState
<1>2. s.ticker \in Int
  BY <1>0 DEF RunState
<1> HIDE DEF t
<1>3. Awaited(k) => Alive(Recorded(k, t))
  BY <1>0, <1>1, <1>2, Times, RecordedState DEF Alive, InStep
<1> QED BY <1>0, <1>1, <1>3, RecordedState, ContinueKeepsPartitionInv

(* Temporal's timers. *)
LEMMA TimeoutKeepsPartitionInv ==
  ASSUME PartitionInv, NEW k \in Tries, HeartbeatTimesOut(k) \/ StartToCloseTimesOut(k)
  PROVE  PartitionInv'
<1>0. run \in [Tries -> RunState] /\ run[k] \in RunState /\ UNCHANGED heartbeat
  BY DEF PartitionInv, PartitionTypeOK, HeartbeatTimesOut, StartToCloseTimesOut
<1>1. CASE HeartbeatTimesOut(k)
  <2>1. run = [run EXCEPT ![k] = run[k]]
    BY <1>0
  <2>2. NextAttempt(k, [run EXCEPT ![k] = run[k]])
    BY <1>1, <2>1 DEF HeartbeatTimesOut
  <2> QED BY <1>0, <2>2, NextAttemptKeepsPartitionInv
<1>2. CASE StartToCloseTimesOut(k)
  <2> DEFINE t == [run[k] EXCEPT !.done = TRUE]
  <2>1. t \in RunState
    BY <1>0 DEF RunState
  <2>2. NextAttempt(k, [run EXCEPT ![k] = t])
    BY <1>2 DEF StartToCloseTimesOut
  <2> QED BY <1>0, <2>1, <2>2, NextAttemptKeepsPartitionInv
<1> QED BY <1>1, <1>2

(* Time passes while nothing is overdue.                                   *)
LEMMA TickKeepsPartitionInv ==
  ASSUME PartitionInv, Tick
  PROVE  PartitionInv'
<1>0. /\ run \in [Tries -> RunState] /\ heartbeat \in Nat \ {0} /\ awaited \in Tries
      /\ run' = [k \in Tries |-> IF InTime(k) THEN Later(run[k]) ELSE run[k]]
      /\ UNCHANGED <<heartbeat, awaited, outcome>>
      /\ \A k \in Tries : ~ Overdue(k)
  BY DEF PartitionInv, PartitionTypeOK, Tick
<1>1. ASSUME NEW s \in RunState
      PROVE  /\ Later(s) \in RunState /\ Later(s).phase = s.phase /\ Later(s).done = s.done
             /\ Later(s).silent = s.silent + 1 /\ Later(s).ticker = s.ticker + 1
  <2> DEFINE nap  == IF s.phase = "sleep" THEN s.nap - 1 ELSE 0
             left == IF s.phase = "sleep" THEN s.left - 1 ELSE 0
  <2>1. /\ s.age + 1 \in Int /\ s.silent + 1 \in Int /\ s.ticker + 1 \in Int
        /\ nap \in Int /\ left \in Int
    BY DEF RunState
  <2>2. Later(s) = [s EXCEPT !.age = s.age + 1, !.silent = s.silent + 1, !.ticker = s.ticker + 1,
                             !.nap = nap, !.left = left]
    BY DEF Later
  <2> HIDE DEF nap, left
  <2>3. Later(s) \in RunState
    BY <2>1, <2>2 DEF RunState
  <2>4. Later(s).phase = s.phase /\ Later(s).done = s.done
    BY <2>2 DEF RunState
  <2>5. Later(s).silent = s.silent + 1 /\ Later(s).ticker = s.ticker + 1
    BY <2>2 DEF RunState
  <2> QED BY <2>3, <2>4, <2>5
<1>2. PartitionTypeOK'
  BY <1>0, <1>1 DEF PartitionTypeOK
<1>3. ASSUME NEW k \in Tries, Awaited(k)' PROVE Alive(run[k])'
  <2>1. Awaited(k) /\ Alive(run[k]) /\ run[k] \in RunState
    BY <1>0, <1>3 DEF PartitionInv, Awaited
  <2>2. run'[k] = Later(run[k])
    BY <1>0, <2>1 DEF InTime, Alive
  <2>3. CASE run[k].phase \in AtWork
    <3>1. run[k].ticker < Interval(heartbeat) + Delay
      <4>1. ~ (run[k].ticker >= Interval(heartbeat) + Delay)
        BY <1>0, <2>1, <2>3 DEF Overdue, Beats, Working, AtWork, Alive
      <4> QED BY <4>1, <2>1, <1>0, Times, IntervalBelowTimeout DEF RunState
    <3>2. run[k].silent \in Int /\ run[k].ticker \in Int /\ Interval(heartbeat) \in Nat
      BY <2>1, <1>0, IntervalBelowTimeout DEF RunState
    <3> QED BY <3>1, <3>2, <2>1, <2>2, <2>3, <1>0, <1>1, Times DEF Alive, InStep
  <2>4. CASE run[k].phase \notin AtWork
    BY <2>1, <2>2, <2>4, <1>1 DEF Alive
  <2> QED BY <2>3, <2>4
<1> QED BY <1>2, <1>3 DEF PartitionInv

(* Every step keeps the invariant, whatever the timers do.                 *)
LEMMA PartitionKeepsInv ==
  ASSUME PartitionInv, [PartitionNext]_partitionVars
  PROVE  PartitionInv'
<1>1. CASE UNCHANGED partitionVars
  BY <1>1 DEF partitionVars, PartitionInv, PartitionTypeOK, Awaited, Alive, InStep
<1> QED BY <1>1, WorkKeepsPartitionInv, SleepKeepsPartitionInv, BeatKeepsPartitionInv,
           TimeoutKeepsPartitionInv, TickKeepsPartitionInv DEF PartitionNext

(* The invariant of the attempts in time.                                  *)
LEMMA PartitionInvariant == PartitionSpec => []PartitionInv
<1>1. PartitionInit => PartitionInv
  BY PartitionStart
<1>2. PartitionInv /\ [PartitionNext]_partitionVars => PartitionInv'
  BY PartitionKeepsInv
<1> QED BY <1>1, <1>2, PTL DEF PartitionSpec

(* With a heartbeat time-out of three floors or more, an attempt at work   *)
(* is never silent for that long, however late its timers are within the   *)
(* floor, and whatever fetch, mapper, sink and rate limit do meanwhile.    *)
THEOREM AttemptsAtWorkAreHeard == PartitionSpec => []HeartbeatKeepsAlive
<1>1. PartitionInv => HeartbeatKeepsAlive
  <2> SUFFICES ASSUME PartitionInv, Tolerant, NEW k \in Tries, Working(k), Silent(k)
               PROVE  FALSE
    BY DEF HeartbeatKeepsAlive
  <2>1. /\ InStep(run[k]) /\ run[k] \in RunState /\ heartbeat \in Nat \ {0}
        /\ run[k].silent >= heartbeat /\ heartbeat >= 3 * Floor
    BY DEF PartitionInv, PartitionTypeOK, Alive, Silent, Working, AtWork, Tolerant
  <2>2. Interval(heartbeat) \in Nat /\ Interval(heartbeat) + Delay < heartbeat
    BY <2>1, IntervalBelowTimeout
  <2>3. run[k].silent \in Int /\ run[k].ticker \in Int
    BY <2>1 DEF RunState
  <2> QED BY <2>1, <2>2, <2>3, Times DEF InStep
<1> QED BY <1>1, PartitionInvariant, PTL

(* An attempt's calls only grow when it begins or when its sleep ends with *)
(* its context not done.                                                   *)
CallsGuarded ==
  \A k \in Tries : run'[k].calls > run[k].calls => outcome' = "open" /\ awaited' = k

LEMMA NextAttemptGuardsCalls ==
  ASSUME PartitionInv, NEW k \in Tries, NEW s \in RunState, s.calls <= run[k].calls,
         NextAttempt(k, [run EXCEPT ![k] = s])
  PROVE  CallsGuarded
<1> DEFINE r == [run EXCEPT ![k] = s]
<1>1. /\ run \in [Tries -> RunState]
      /\ \A j \in Tries : r[j] = IF j = k THEN s ELSE run[j]
      /\ r \in [Tries -> RunState]
  BY DEF PartitionInv, PartitionTypeOK
<1> HIDE DEF r
<1>2. \A j \in Tries : ~ (r[j].calls > run[j].calls)
  <2>1. s.calls \in Nat /\ \A j \in Tries : run[j].calls \in Nat
    BY <1>1 DEF RunState
  <2> QED BY <2>1, <1>1
<1>3. CASE outcome = "open" /\ awaited = k /\ k < MaxRetries
  <2>1. awaited' = k + 1 /\ run' = [r EXCEPT ![k + 1] = Fresh] /\ outcome' = outcome
    BY <1>3 DEF NextAttempt, r
  <2> QED BY <2>1, <1>1, <1>2, <1>3 DEF CallsGuarded
<1>4. CASE ~ (outcome = "open" /\ awaited = k /\ k < MaxRetries)
  <2>1. run' = r
    BY <1>4 DEF NextAttempt, r
  <2> QED BY <2>1, <1>2 DEF CallsGuarded
<1> QED BY <1>3, <1>4

(* Neither an error nor a result makes a call.                             *)
LEMMA ReturnGuardsCalls ==
  ASSUME PartitionInv, NEW k \in Tries, ReturnError(k) \/ ReturnResult(k)
  PROVE  CallsGuarded
<1>0. run \in [Tries -> RunState] /\ run[k].calls \in Nat
  BY DEF PartitionInv, PartitionTypeOK, RunState
<1>1. CASE ReturnError(k)
  <2>1. Returned.calls <= run[k].calls
    BY <1>0, NewStates
  <2> QED BY <1>1, <2>1, NewStates, NextAttemptGuardsCalls DEF ReturnError
<1>2. CASE ReturnResult(k)
  <2>1. \A j \in Tries : run'[j] = IF j = k THEN Returned ELSE run[j]
    BY <1>0, <1>2 DEF ReturnResult
  <2>2. \A j \in Tries : run[j].calls \in Nat
    BY <1>0 DEF RunState
  <2> QED BY <2>1, <2>2, NewStates DEF CallsGuarded
<1> QED BY <1>1, <1>2

(* A state with as many calls makes none.                                  *)
LEMMA ContinueGuardsCalls ==
  ASSUME PartitionInv, NEW k \in Tries, NEW s, s.calls = run[k].calls, Continue(k, s)
  PROVE  CallsGuarded
<1>1. \A j \in Tries : run'[j] = IF j = k THEN s ELSE run[j]
  BY DEF PartitionInv, PartitionTypeOK, Continue
<1>2. \A j \in Tries : run[j].calls \in Nat
  BY DEF PartitionInv, PartitionTypeOK, RunState
<1> QED BY <1>1, <1>2 DEF CallsGuarded

(* The call after a sleep.                                                 *)
LEMMA SleptGuardsCalls ==
  ASSUME PartitionInv, NEW k \in Tries, NEW s, Slept(k, s), s.done \/ Awaited(k)
  PROVE  CallsGuarded
<1>1. CASE s.done
  BY <1>1, ReturnGuardsCalls DEF Slept
<1>2. CASE ~ s.done /\ Awaited(k)
  <2>1. /\ \A j \in Tries : j # k => run'[j] = run[j]
        /\ outcome' = "open" /\ awaited' = k
    BY <1>2 DEF Slept, Continue, Awaited, PartitionInv, PartitionTypeOK
  <2>2. \A j \in Tries : run[j].calls \in Nat
    BY DEF PartitionInv, PartitionTypeOK, RunState
  <2> QED BY <2>1, <2>2 DEF CallsGuarded
<1> QED BY <1>1, <1>2

(* Every step makes calls for the awaited attempt only.                    *)
LEMMA StepGuardsCalls ==
  ASSUME PartitionInv, PartitionNext
  PROVE  CallsGuarded
<1>0. \A k \in Tries : run[k] \in RunState /\ run[k].calls \in Nat
  BY DEF PartitionInv, PartitionTypeOK, RunState
<1>1. ASSUME Tick PROVE CallsGuarded
  <2>1. \A k \in Tries : Later(run[k]).calls = run[k].calls
    BY <1>0 DEF Later, RunState
  <2>2. \A k \in Tries : run'[k] = IF InTime(k) THEN Later(run[k]) ELSE run[k]
    BY <1>1 DEF Tick
  <2> QED BY <2>1, <2>2, <1>0 DEF CallsGuarded
<1>2. ASSUME NEW k \in Tries, Fetched(k) PROVE CallsGuarded
  <2> DEFINE s == IF kind = "sync" THEN Recorded(k, run[k]) ELSE run[k]
  <2>1. s \in RunState /\ s.calls = run[k].calls
    BY <1>0, RecordedState
  <2>2. Continue(k, [s EXCEPT !.phase = "map"]) \/ ReturnResult(k)
    BY <1>2 DEF Fetched
  <2> HIDE DEF s
  <2>3. [s EXCEPT !.phase = "map"].calls = run[k].calls
    BY <2>1 DEF RunState
  <2> QED BY <2>2, <2>3, ContinueGuardsCalls, ReturnGuardsCalls
<1>3. ASSUME NEW k \in Tries, FetchFails(k) PROVE CallsGuarded
  BY <1>3, ReturnGuardsCalls DEF FetchFails
<1>4. ASSUME NEW k \in Tries, RateLimited(k) PROVE CallsGuarded
  <2> DEFINE t == [run[k] EXCEPT !.phase = "sleep", !.left = Sleep, !.nap = Min2(SleeperInterval, Sleep)]
  <2>1. Continue(k, t) \/ ReturnError(k)
    BY <1>4 DEF RateLimited
  <2>2. t.calls = run[k].calls
    BY <1>0 DEF RunState
  <2> HIDE DEF t
  <2> QED BY <2>1, <2>2, ContinueGuardsCalls, ReturnGuardsCalls
<1>5. ASSUME NEW k \in Tries, NapEnds(k) PROVE CallsGuarded
  <2> DEFINE s == Recorded(k, run[k])
             t == [s EXCEPT !.nap = Min2(SleeperInterval, s.left)]
  <2>1. s \in RunState /\ s.calls = run[k].calls /\ (s.done \/ Awaited(k))
    BY <1>0, RecordedState
  <2>2. Slept(k, s) \/ Continue(k, t)
    BY <1>5 DEF NapEnds
  <2> HIDE DEF s
  <2>3. t.calls = run[k].calls
    BY <2>1 DEF RunState
  <2> HIDE DEF t
  <2> QED BY <2>1, <2>2, <2>3, SleptGuardsCalls, ContinueGuardsCalls
<1>6. ASSUME NEW k \in Tries, SleepCut(k) PROVE CallsGuarded
  BY <1>6, SleptGuardsCalls DEF SleepCut
<1>7. ASSUME NEW k \in Tries, Work(k) PROVE CallsGuarded
  <2>1. [run[k] EXCEPT !.phase = "write"].calls = run[k].calls
    BY <1>0 DEF RunState
  <2> QED BY <1>7, <2>1, ContinueGuardsCalls, ReturnGuardsCalls DEF Work
<1>8. ASSUME NEW k \in Tries, Beat(k) PROVE CallsGuarded
  <2> DEFINE t == [run[k] EXCEPT !.ticker = @ - Interval(heartbeat)]
  <2>1. Interval(heartbeat) \in Nat
    BY IntervalBelowTimeout DEF PartitionInv, PartitionTypeOK
  <2>2. t \in RunState /\ t.calls = run[k].calls
    BY <2>1, <1>0 DEF RunState
  <2>3. Continue(k, Recorded(k, t))
    BY <1>8 DEF Beat
  <2> HIDE DEF t
  <2>4. Recorded(k, t).calls = run[k].calls
    BY <2>2, RecordedState
  <2> QED BY <2>3, <2>4, ContinueGuardsCalls
<1>9. ASSUME NEW k \in Tries, WorkerLost(k) PROVE CallsGuarded
  <2>1. [run[k] EXCEPT !.phase = "lost"].calls = run[k].calls
    BY <1>0 DEF RunState
  <2> QED BY <1>9, <2>1, ContinueGuardsCalls DEF WorkerLost
<1>10. ASSUME NEW k \in Tries, HeartbeatTimesOut(k) PROVE CallsGuarded
  <2>1. run = [run EXCEPT ![k] = run[k]] /\ run[k].calls <= run[k].calls
    BY <1>0 DEF PartitionInv, PartitionTypeOK
  <2>2. NextAttempt(k, [run EXCEPT ![k] = run[k]])
    BY <1>10, <2>1 DEF HeartbeatTimesOut
  <2> QED BY <1>0, <2>1, <2>2, NextAttemptGuardsCalls
<1>11. ASSUME NEW k \in Tries, StartToCloseTimesOut(k) PROVE CallsGuarded
  <2> DEFINE t == [run[k] EXCEPT !.done = TRUE]
  <2>1. t \in RunState /\ t.calls = run[k].calls
    BY <1>0 DEF RunState
  <2>2. NextAttempt(k, [run EXCEPT ![k] = t])
    BY <1>11 DEF StartToCloseTimesOut
  <2> HIDE DEF t
  <2>3. t.calls <= run[k].calls
    BY <2>1, <1>0
  <2> QED BY <2>1, <2>2, <2>3, NextAttemptGuardsCalls
<1> QED BY <1>1, <1>2, <1>3, <1>4, <1>5, <1>6, <1>7, <1>8, <1>9, <1>10, <1>11 DEF PartitionNext

(* An attempt that was given up does not call the upstream API again, even *)
(* when its rate-limit sleep outlives it: only the awaited one does.       *)
THEOREM GivenUpAttemptsCallNobody == PartitionSpec => OnlyAwaitedCalls
<1>1. PartitionInv /\ [PartitionNext]_partitionVars => [CallsGuarded]_partitionVars
  BY StepGuardsCalls
<1>2. OnlyAwaitedCalls <=> [][CallsGuarded]_partitionVars
  BY PTL DEF OnlyAwaitedCalls, CallsGuarded
<1> QED BY <1>1, <1>2, PartitionInvariant, PTL DEF PartitionSpec
=============================================================================
