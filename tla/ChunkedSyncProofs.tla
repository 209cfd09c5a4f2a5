-------------------------- MODULE ChunkedSyncProofs --------------------------
(***************************************************************************)
(* Proofs about the chunked sync: types, the progress of acknowledged      *)
(* cursors, and, for every partitioner with aligned boundaries, that the   *)
(* cursor never passes over a range that has not been delivered.           *)
(***************************************************************************)
EXTENDS AlignedChunkedSync, FiniteInduction, FiniteSetTheorems, TLAPS

-----------------------------------------------------------------------------
(* Lists and indices *)

(* The list of an instant has the shape the partitioner's contract gives.  *)
LEMMA ListShape ==
  ASSUME NEW n \in Instants
  PROVE  /\ Partitions(n) \in Seq(Partition)
         /\ \A i \in DOMAIN Partitions(n) :
              /\ i \in Nat
              /\ Partitions(n)[i].start \in Int /\ Partitions(n)[i].end \in Int
              /\ Partitions(n)[i].start < Partitions(n)[i].end
         /\ \A i, j \in DOMAIN Partitions(n) :
              i < j => Partitions(n)[i].end <= Partitions(n)[j].start
<1>1. IsPartitionList(Partitions(n))
  BY PartitionerAssumption
<1>2. \A i \in DOMAIN Partitions(n) : i \in Nat /\ Partitions(n)[i] \in Partition
  BY <1>1 DEF IsPartitionList
<1> QED BY <1>1, <1>2 DEF IsPartitionList, Partition

(* The indices of a list are finitely many naturals.                       *)
LEMMA DomainFacts ==
  ASSUME NEW L \in Seq(Partition)
  PROVE  /\ DOMAIN L \subseteq Nat
         /\ IsFiniteSet(DOMAIN L)
         /\ L = <<>> <=> DOMAIN L = {}
<1>1. DOMAIN L = 1 .. Len(L) /\ Len(L) \in Nat
  OBVIOUS
<1>2. IsFiniteSet(1 .. Len(L))
  BY <1>1, FS_Interval
<1>3. L = <<>> <=> Len(L) = 0
  OBVIOUS
<1>4. 1 .. Len(L) = {} <=> Len(L) = 0
  <2>1. ASSUME Len(L) # 0 PROVE 1 \in 1 .. Len(L)
    BY <1>1, <2>1
  <2>2. ASSUME Len(L) = 0, NEW i \in 1 .. Len(L) PROVE FALSE
    BY <2>2
  <2> QED BY <2>1, <2>2
<1>5. DOMAIN L \subseteq Nat
  BY <1>1
<1> QED BY <1>1, <1>2, <1>3, <1>4, <1>5

(* Truncation keeps a non-empty initial stretch of what the filter kept.   *)
LEMMA TruncatedFacts ==
  ASSUME NEW K \in SUBSET Nat, IsFiniteSet(K), K # {}
  PROVE  /\ Truncated(K) \subseteq K
         /\ Truncated(K) # {}
         /\ Min(Truncated(K)) = Min(K)
         /\ \A i \in K, k \in Truncated(K) : i <= k => i \in Truncated(K)
<1>0. \A i \in K : i \in Nat
  OBVIOUS
<1> DEFINE Before(i) == {j \in K : j < i}
<1>1. \A i \in K : IsFiniteSet(Before(i)) /\ Cardinality(Before(i)) \in Nat
  <2> TAKE i \in K
  <2>1. Before(i) \in SUBSET K
    OBVIOUS
  <2> QED BY <2>1, FS_Subset, FS_CardinalityType
<1>2. Min(K) \in K /\ \A j \in K : Min(K) <= j
  BY MinNat
<1>3. Before(Min(K)) = {}
  <2> SUFFICES ASSUME NEW j \in K, j < Min(K) PROVE FALSE
    OBVIOUS
  <2>1. j \in Nat /\ Min(K) \in Nat /\ Min(K) <= j
    BY <1>0, <1>2
  <2> QED BY <2>1
<1>4. Cardinality(Before(Min(K))) = 0
  BY <1>3, FS_EmptySet
<1>5. \A i, k \in K : i <= k => Cardinality(Before(i)) <= Cardinality(Before(k))
  <2> SUFFICES ASSUME NEW i \in K, NEW k \in K, i <= k
               PROVE  Cardinality(Before(i)) <= Cardinality(Before(k))
    OBVIOUS
  <2>1. Before(i) \in SUBSET Before(k)
    <3> SUFFICES ASSUME NEW j \in K, j < i PROVE j < k
      OBVIOUS
    <3>1. i \in Nat /\ j \in Nat /\ k \in Nat
      BY <1>0
    <3> QED BY <3>1
  <2> QED BY <2>1, <1>1, FS_Subset
<1>6. MaxPerExec \in Nat
  BY BuildAssumption
<1>7. /\ Truncated(K) \subseteq K
      /\ Min(K) \in Truncated(K)
      /\ \A i \in K, k \in Truncated(K) : i <= k => i \in Truncated(K)
  <2>1. CASE MaxPerExec > 0
    <3>1. Truncated(K) = {i \in K : Cardinality(Before(i)) < MaxPerExec}
      BY <2>1 DEF Truncated
    <3> HIDE DEF Before
    <3>2. \A i \in K, k \in Truncated(K) : i <= k => i \in Truncated(K)
      <4> SUFFICES ASSUME NEW i \in K, NEW k \in Truncated(K), i <= k
                   PROVE  Cardinality(Before(i)) < MaxPerExec
        BY <3>1
      <4>1. k \in K /\ Cardinality(Before(k)) < MaxPerExec
        BY <3>1
      <4>2. Cardinality(Before(i)) <= Cardinality(Before(k))
        BY <1>5, <4>1
      <4>3. Cardinality(Before(i)) \in Nat /\ Cardinality(Before(k)) \in Nat
        BY <1>1, <4>1
      <4> QED BY <4>1, <4>2, <4>3, <1>6
    <3> QED BY <3>1, <3>2, <1>2, <1>4, <1>6, <2>1
  <2>2. CASE ~ (MaxPerExec > 0)
    BY <2>2, <1>2 DEF Truncated
  <2> QED BY <2>1, <2>2
<1>8. Min(Truncated(K)) = Min(K)
  <2>1. Truncated(K) \in SUBSET Nat /\ Truncated(K) # {}
    BY <1>7
  <2>2. Min(Truncated(K)) \in Truncated(K) /\ \A j \in Truncated(K) : Min(Truncated(K)) <= j
    BY <2>1, MinNat
  <2>3. Min(Truncated(K)) \in Nat /\ Min(K) \in Nat
    BY <2>2, <2>1, <1>2, <1>0
  <2> QED BY <2>2, <2>3, <1>2, <1>7
<1> QED BY <1>7, <1>8
-----------------------------------------------------------------------------
(* Types *)

(* Whatever state a run is left in is well typed, whichever operation of   *)
(* the workflow leaves it there.                                           *)
LEMMA ResumeType ==
  ASSUME RunTypeOK,
         NEW e \in Executions,
         NEW next \in {"none", "list", "cursor", "run", "advance"},
         NEW L \in Seq(Partition),
         NEW S \in SUBSET (DOMAIN L),
         NEW more \in BOOLEAN,
         next \in {"run", "advance"} <=> S # {},
         Resume(e, next, L, S, more)
  PROVE  RunTypeOK'
<1>1. S \in SUBSET Nat
  BY DomainFacts
<1>2. 0 \in 0 .. MaxAttempts - 1
  BY BoundsAssumption
<1> QED BY <1>1, <1>2 DEF RunTypeOK, Resume

LEMMA EmptyList == <<>> \in Seq(Partition)
OBVIOUS

LEMMA CloseType ==
  ASSUME RunTypeOK, NEW e \in Executions, Close(e)
  PROVE  RunTypeOK'
BY ResumeType, EmptyList DEF Close

(* Starting on the kept indices K of a list.                               *)
LEMMA BeginType ==
  ASSUME RunTypeOK, NEW e \in Executions, NEW L \in Seq(Partition),
         NEW K \in SUBSET (DOMAIN L), Begin(e, L, K)
  PROVE  RunTypeOK'
<1>1. CASE K = {}
  BY <1>1, CloseType DEF Begin
<1>2. CASE K # {}
  <2>1. K \in SUBSET Nat /\ IsFiniteSet(K)
    BY DomainFacts, FS_Subset
  <2>2. Truncated(K) \in SUBSET (DOMAIN L) /\ Truncated(K) # {}
    BY <2>1, <1>2, TruncatedFacts
  <2>3. Resume(e, "run", L, Truncated(K), Truncated(K) # K)
    BY <1>2 DEF Begin
  <2> HIDE DEF Truncated
  <2> QED BY <2>2, <2>3, ResumeType
<1> QED BY <1>1, <1>2

(* Moving on from the current partition.                                   *)
LEMMA ProceedType ==
  ASSUME RunTypeOK, NEW e \in Executions, Proceed(e)
  PROVE  RunTypeOK'
<1> DEFINE rest == todo[e] \ {Min(todo[e])}
<1>1. parts[e] \in Seq(Partition) /\ rest \in SUBSET (DOMAIN parts[e]) /\ deferred[e] \in BOOLEAN
  BY DEF RunTypeOK
<1>2. CASE rest # {}
  <2>1. Resume(e, "run", parts[e], rest, deferred[e])
    BY <1>2 DEF Proceed
  <2> QED BY <1>1, <1>2, <2>1, ResumeType
<1>3. CASE rest = {} /\ deferred[e]
  <2>1. Resume(e, "list", <<>>, {}, FALSE)
    BY <1>3 DEF Proceed, ContinueAsNew
  <2> QED BY <2>1, ResumeType, EmptyList
<1>4. CASE rest = {} /\ ~ deferred[e]
  <2>1. Close(e)
    BY <1>4 DEF Proceed
  <2> QED BY <2>1, CloseType
<1> QED BY <1>1, <1>2, <1>3, <1>4

(* The partition a run is at is one of its list.                           *)
LEMMA CurrentFacts ==
  ASSUME RunTypeOK, NEW e \in Executions, pc[e] \in {"run", "advance"}
  PROVE  /\ Min(todo[e]) \in todo[e]
         /\ Min(todo[e]) \in DOMAIN parts[e]
         /\ \A j \in todo[e] : Min(todo[e]) <= j
         /\ Current(e) \in Partition
<1>1. todo[e] \in SUBSET Nat /\ todo[e] # {} /\ todo[e] \subseteq DOMAIN parts[e]
  BY DEF RunTypeOK
<1>2. Min(todo[e]) \in todo[e] /\ \A j \in todo[e] : Min(todo[e]) <= j
  BY <1>1, MinNat
<1>3. parts[e] \in Seq(Partition)
  BY DEF RunTypeOK
<1>4. parts[e][Min(todo[e])] \in Partition
  BY <1>1, <1>2, <1>3
<1> QED BY <1>1, <1>2, <1>4 DEF Current

LEMMA FetchType ==
  ASSUME NEW p \in Partition
  PROVE  Fetch(p) \subseteq Int
<1>1. p.start \in Int /\ p.end \in Int
  BY DEF Partition
<1> QED BY <1>1 DEF Fetch, Keys

LEMMA LeftoversType ==
  ASSUME TypeOK, NEW e \in Executions, Leftovers(e)
  PROVE  sink' \subseteq Int /\ late' \subseteq Int
<1>1. ASSUME pc[e] = "run" PROVE Fetch(Current(e)) \subseteq Int
  BY <1>1, CurrentFacts, FetchType DEF TypeOK
<1>2. ASSUME pc[e] = "advance" PROVE Current(e).end \in Int
  BY <1>2, CurrentFacts DEF TypeOK, Partition
<1>3. sink' \subseteq Int
  BY <1>1 DEF TypeOK, Leftovers
<1>4. late' \subseteq Int
  BY <1>2 DEF TypeOK, Leftovers
<1> QED BY <1>3, <1>4

LEMMA RecordedType ==
  ASSUME TypeOK, NEW c \in Int
  PROVE  Recorded(c) \in [exists : BOOLEAN, at : Int]
BY DEF TypeOK, Recorded, Greatest

LEMMA TypeInit == Init => TypeOK
<1> SUFFICES ASSUME Init PROVE TypeOK
  OBVIOUS
<1>1. 0 \in 0 .. MaxAttempts - 1
  BY BoundsAssumption
<1>2. RunTypeOK
  BY <1>1, EmptyList DEF Init, RunTypeOK
<1> QED BY <1>2 DEF Init, TypeOK, NoCursor

LEMMA TypeStep == TypeOK /\ [Next]_vars => TypeOK'
<1> SUFFICES ASSUME TypeOK, [Next]_vars PROVE TypeOK'
  OBVIOUS
<1>0. RunTypeOK
  BY DEF TypeOK
<1>1. CASE Tick
  <2>1. now' \in Instants
    BY <1>1, BoundsAssumption DEF Tick, TypeOK, Instants
  <2>2. RunTypeOK'
    BY <1>0, <1>1 DEF Tick, RunTypeOK, runVars
  <2> QED BY <1>1, <2>1, <2>2 DEF Tick, TypeOK
<1>2. CASE LateAdvance
  <2>1. PICK c \in late : cursor' = Recorded(c) /\ late' = late \ {c}
    BY <1>2 DEF LateAdvance
  <2>2. cursor' \in [exists : BOOLEAN, at : Int]
    BY <2>1, RecordedType DEF TypeOK
  <2>3. RunTypeOK'
    BY <1>0, <1>2 DEF LateAdvance, RunTypeOK, runVars
  <2> QED BY <1>2, <2>1, <2>2, <2>3 DEF LateAdvance, TypeOK
<1>3. CASE Reset
  <2>1. RunTypeOK'
    BY <1>0, <1>3 DEF Reset, RunTypeOK, runVars
  <2> QED BY <1>3, <2>1 DEF Reset, TypeOK, NoCursor
<1>4. ASSUME NEW e \in Executions, Start(e) PROVE TypeOK'
  <2>1. RunTypeOK'
    BY <1>0, <1>4, ResumeType, EmptyList DEF Start
  <2> QED BY <1>4, <2>1 DEF Start, TypeOK
<1>5. ASSUME NEW e \in Executions, ListPartitions(e) PROVE TypeOK'
  <2> DEFINE L == Partitions(now)
  <2>1. L \in Seq(Partition)
    BY ListShape DEF TypeOK
  <2>2. CASE HasTracker /\ L # <<>>
    <3>1. Resume(e, "cursor", L, {}, FALSE)
      BY <1>5, <2>2 DEF ListPartitions
    <3> QED BY <1>0, <2>1, <3>1, ResumeType, <1>5 DEF ListPartitions, TypeOK
  <2>3. CASE ~ (HasTracker /\ L # <<>>)
    <3>1. Begin(e, L, DOMAIN L)
      BY <1>5, <2>3 DEF ListPartitions
    <3>2. RunTypeOK'
      BY <1>0, <2>1, <3>1, BeginType
    <3> QED BY <3>2, <1>5 DEF ListPartitions, TypeOK
  <2> QED BY <2>2, <2>3
<1>6. ASSUME NEW e \in Executions, ReadCursor(e) PROVE TypeOK'
  <2>1. parts[e] \in Seq(Partition)
    BY <1>0 DEF RunTypeOK
  <2>2. Kept(parts[e]) \in SUBSET (DOMAIN parts[e])
    BY DEF Kept
  <2>3. RunTypeOK'
    BY <1>0, <1>6, <2>1, <2>2, BeginType DEF ReadCursor
  <2> QED BY <1>6, <2>3 DEF ReadCursor, TypeOK
<1>7. ASSUME NEW e \in Executions, RunPartition(e) PROVE TypeOK'
  <2>1. Current(e) \in Partition
    BY <1>0, <1>7, CurrentFacts DEF RunPartition
  <2>2. sink' \subseteq Int
    BY <1>7, <2>1, FetchType DEF RunPartition, TypeOK
  <2>3. RunTypeOK'
    <3>1. CASE HasTracker
      <4>1. Resume(e, "advance", parts[e], todo[e], deferred[e])
        BY <1>7, <3>1 DEF RunPartition
      <4>2. /\ parts[e] \in Seq(Partition) /\ todo[e] \in SUBSET (DOMAIN parts[e])
            /\ deferred[e] \in BOOLEAN /\ todo[e] # {}
        BY <1>0, <1>7 DEF RunTypeOK, RunPartition
      <4> QED BY <1>0, <4>1, <4>2, ResumeType
    <3>2. CASE ~ HasTracker
      BY <1>0, <1>7, <3>2, ProceedType DEF RunPartition
    <3> QED BY <3>1, <3>2
  <2> QED BY <1>7, <2>2, <2>3 DEF RunPartition, TypeOK
<1>8. ASSUME NEW e \in Executions, AdvanceCursor(e) PROVE TypeOK'
  <2>1. Current(e).end \in Int
    BY <1>0, <1>8, CurrentFacts DEF AdvanceCursor, Partition
  <2>2. cursor' \in [exists : BOOLEAN, at : Int] /\ acked' \subseteq Int
    BY <1>8, <2>1, RecordedType DEF AdvanceCursor, TypeOK
  <2>3. RunTypeOK'
    BY <1>0, <1>8, ProceedType DEF AdvanceCursor
  <2> QED BY <1>8, <2>2, <2>3 DEF AdvanceCursor, TypeOK
<1>9. ASSUME NEW e \in Executions, AttemptFails(e) PROVE TypeOK'
  <2>1. sink' \subseteq Int /\ late' \subseteq Int
    BY <1>9, LeftoversType DEF AttemptFails
  <2>2. RunTypeOK'
    <3>1. CASE Retryable(e)
      <4>1. attempt' = [attempt EXCEPT ![e] = @ + 1] /\ UNCHANGED <<pc, parts, todo, deferred>>
        BY <1>9, <3>1 DEF AttemptFails
      <4>2. attempt[e] + 1 \in 0 .. MaxAttempts - 1
        BY <1>0, <3>1, BoundsAssumption DEF RunTypeOK, Retryable
      <4> QED BY <1>0, <4>1, <4>2 DEF RunTypeOK
    <3>2. CASE ~ Retryable(e)
      BY <1>0, <1>9, <3>2, CloseType DEF AttemptFails
    <3> QED BY <3>1, <3>2
  <2> QED BY <1>9, <2>1, <2>2 DEF AttemptFails, TypeOK
<1>10. ASSUME NEW e \in Executions, Cancel(e) PROVE TypeOK'
  <2>1. sink' \subseteq Int /\ late' \subseteq Int
    BY <1>10, LeftoversType DEF Cancel
  <2>2. RunTypeOK'
    BY <1>0, <1>10, CloseType DEF Cancel
  <2> QED BY <1>10, <2>1, <2>2 DEF Cancel, TypeOK
<1>11. CASE UNCHANGED vars
  BY <1>11 DEF vars, runVars, TypeOK, RunTypeOK
<1> QED
  BY <1>1, <1>2, <1>3, <1>4, <1>5, <1>6, <1>7, <1>8, <1>9, <1>10, <1>11 DEF Next, Step

(* Every reachable state is well typed: in particular a run that waits for *)
(* a partition or for the cursor always has a partition to work on.        *)
THEOREM TypeCorrect == Spec => []TypeOK
<1>1. Init => TypeOK
  BY TypeInit
<1>2. TypeOK /\ [Next]_vars => TypeOK'
  BY TypeStep
<1> QED BY <1>1, <1>2, PTL DEF Spec
-----------------------------------------------------------------------------
(* Acknowledged progress *)

(* GREATEST: recording c leaves the cursor at c or beyond, never behind    *)
(* where it was.                                                           *)
LEMMA RecordedFacts ==
  ASSUME TypeOK, NEW c \in Int
  PROVE  /\ Recorded(c).exists
         /\ Recorded(c).at >= c
         /\ cursor.exists => Recorded(c).at >= cursor.at
         /\ Recorded(c).at = c \/ (cursor.exists /\ Recorded(c).at = cursor.at)
<1>1. cursor.at \in Int
  BY DEF TypeOK
<1> QED BY <1>1 DEF Recorded, Greatest

LEMMA AckedStep == TypeOK /\ AckedProgress /\ [Next]_vars => AckedProgress'
<1> SUFFICES ASSUME TypeOK, AckedProgress, [Next]_vars PROVE AckedProgress'
  OBVIOUS
<1>1. ASSUME NEW c \in Int, cursor' = Recorded(c), acked' \subseteq acked \cup {c}
      PROVE  AckedProgress'
  <2> SUFFICES ASSUME NEW a \in acked' PROVE cursor'.exists /\ cursor'.at >= a
    BY DEF AckedProgress
  <2>1. /\ cursor'.exists /\ cursor'.at >= c
        /\ cursor.exists => cursor'.at >= cursor.at
    BY <1>1, RecordedFacts
  <2>2. cursor'.at \in Int /\ cursor.at \in Int
    BY <1>1, RecordedType DEF TypeOK
  <2>3. a \in Int
    BY <1>1 DEF TypeOK
  <2>4. a = c \/ (cursor.exists /\ cursor.at >= a)
    BY <1>1 DEF AckedProgress
  <2> QED BY <2>1, <2>2, <2>3, <2>4
<1>2. ASSUME UNCHANGED <<cursor, acked>> PROVE AckedProgress'
  BY <1>2 DEF AckedProgress
<1>3. CASE LateAdvance
  <2>1. PICK c \in late : cursor' = Recorded(c)
    BY <1>3 DEF LateAdvance
  <2>2. c \in Int /\ acked' \subseteq acked \cup {c}
    BY <1>3 DEF LateAdvance, TypeOK
  <2> QED BY <2>1, <2>2, <1>1
<1>4. CASE Reset
  BY <1>4 DEF Reset, AckedProgress
<1>5. ASSUME NEW e \in Executions, AdvanceCursor(e) PROVE AckedProgress'
  <2>1. Current(e).end \in Int
    BY <1>5, CurrentFacts DEF AdvanceCursor, Partition, TypeOK
  <2> QED BY <2>1, <1>5, <1>1 DEF AdvanceCursor
<1>6. ASSUME NEW e \in Executions,
             Start(e) \/ ListPartitions(e) \/ ReadCursor(e) \/ RunPartition(e)
               \/ AttemptFails(e) \/ Cancel(e)
      PROVE  AckedProgress'
  BY <1>6, <1>2 DEF Start, ListPartitions, ReadCursor, RunPartition, AttemptFails, Cancel
<1>7. CASE Tick \/ UNCHANGED vars
  BY <1>7, <1>2 DEF Tick, vars
<1> QED BY <1>3, <1>4, <1>5, <1>6, <1>7 DEF Next, Step

(* Once an Advance is acknowledged the cursor stays at or beyond it until  *)
(* a Reset, whatever overlapping runs and late calls write to the row.     *)
THEOREM AckedProgressCorrect == Spec => []AckedProgress
<1>1. Init => AckedProgress
  BY DEF Init, AckedProgress
<1>2. TypeOK /\ AckedProgress /\ [Next]_vars => AckedProgress'
  BY AckedStep
<1> QED BY <1>1, <1>2, TypeCorrect, PTL DEF Spec
-----------------------------------------------------------------------------
(* Coverage: facts about lists, with no reference to the state *)

(* What a sink covers stays covered when the sink grows, when time passes  *)
(* and at every earlier key.                                               *)
LEMMA CoveredMono ==
  ASSUME NEW k \in Int, NEW k2 \in Int, k2 <= k,
         NEW n \in Instants, NEW n2 \in Instants, n <= n2,
         NEW S, NEW S2, S \subseteq S2,
         CoveredIn(k, n, S)
  PROVE  CoveredIn(k2, n2, S2)
<1> SUFFICES ASSUME NEW m \in n2 .. MaxNow, NEW i \in DOMAIN Partitions(m),
                    Partitions(m)[i].end <= k2
             PROVE  Keys(Partitions(m)[i]) \subseteq S2
  BY DEF CoveredIn
<1>1. m \in n .. MaxNow /\ m \in Instants
  BY BoundsAssumption DEF Instants
<1>2. Partitions(m)[i].end \in Int
  BY <1>1, ListShape
<1>3. Partitions(m)[i].end <= k
  BY <1>2
<1> QED BY <1>1, <1>3 DEF CoveredIn

(* A partition listed from t on that ends by the end of entry i of an      *)
(* earlier list is an entry of that list, not after i.                     *)
LEMMA Behind ==
  ASSUME NEW n \in Instants, NEW t \in Instants, n <= t,
         NEW i \in DOMAIN Partitions(n),
         NEW m \in t .. MaxNow, NEW q \in DOMAIN Partitions(m),
         Partitions(m)[q].end <= Partitions(n)[i].end
  PROVE  \E j \in DOMAIN Partitions(n) :
           Partitions(n)[j] = Partitions(m)[q] /\ j <= i
<1>1. m \in n .. MaxNow
  BY BoundsAssumption DEF Instants
<1>2. PICK j \in DOMAIN Partitions(n) : Partitions(n)[j] = Partitions(m)[q]
  BY <1>1, ForwardWindow
<1>3. j <= i
  <2> SUFFICES ASSUME i < j PROVE FALSE
    BY ListShape
  <2>1. Partitions(n)[i].end <= Partitions(n)[j].start
    BY ListShape
  <2>2. /\ Partitions(n)[j].start < Partitions(n)[j].end
        /\ Partitions(n)[j].start \in Int /\ Partitions(n)[j].end \in Int
        /\ Partitions(n)[i].end \in Int
    BY ListShape
  <2> QED BY <2>1, <2>2, <1>2
<1> QED BY <1>2, <1>3

(* Entries before i end by the start of i.                                 *)
LEMMA BehindStart ==
  ASSUME NEW n \in Instants, NEW t \in Instants, n <= t,
         NEW i \in DOMAIN Partitions(n),
         NEW m \in t .. MaxNow, NEW q \in DOMAIN Partitions(m),
         Partitions(m)[q].end <= Partitions(n)[i].start
  PROVE  \E j \in DOMAIN Partitions(n) :
           Partitions(n)[j] = Partitions(m)[q] /\ j < i
<1>0. m \in Instants
  BY BoundsAssumption DEF Instants
<1>1. /\ Partitions(n)[i].start < Partitions(n)[i].end
      /\ Partitions(n)[i].start \in Int /\ Partitions(n)[i].end \in Int
      /\ Partitions(m)[q].end \in Int
  BY <1>0, ListShape
<1>2. Partitions(m)[q].end <= Partitions(n)[i].end
  BY <1>1
<1>3. PICK j \in DOMAIN Partitions(n) : Partitions(n)[j] = Partitions(m)[q] /\ j <= i
  BY <1>2, Behind
<1>4. j # i
  BY <1>1, <1>3
<1>5. j \in Nat /\ i \in Nat
  BY ListShape
<1> QED BY <1>3, <1>4, <1>5

(* Running partition i extends the coverage from its start to its end.     *)
LEMMA RunExtends ==
  ASSUME NEW n \in Instants, NEW t \in Instants, n <= t,
         NEW i \in DOMAIN Partitions(n), NEW S,
         CoveredIn(Partitions(n)[i].start, t, S)
  PROVE  CoveredIn(Partitions(n)[i].end, t, S \cup Keys(Partitions(n)[i]))
<1> SUFFICES ASSUME NEW m \in t .. MaxNow, NEW q \in DOMAIN Partitions(m),
                    Partitions(m)[q].end <= Partitions(n)[i].end
             PROVE  Keys(Partitions(m)[q]) \subseteq S \cup Keys(Partitions(n)[i])
  BY DEF CoveredIn
<1>1. PICK j \in DOMAIN Partitions(n) : Partitions(n)[j] = Partitions(m)[q] /\ j <= i
  BY Behind
<1>2. CASE j = i
  BY <1>1, <1>2
<1>3. CASE j # i
  <2>1. j < i
    BY <1>1, <1>3, ListShape
  <2>2. Partitions(m)[q].end <= Partitions(n)[i].start
    BY <1>1, <2>1, ListShape
  <2> QED BY <2>2 DEF CoveredIn
<1> QED BY <1>2, <1>3

(* Coverage up to the end of i is coverage up to the start of i + 1.       *)
LEMMA NextExtends ==
  ASSUME NEW n \in Instants, NEW t \in Instants, n <= t,
         NEW i \in DOMAIN Partitions(n), i + 1 \in DOMAIN Partitions(n), NEW S,
         CoveredIn(Partitions(n)[i].end, t, S)
  PROVE  CoveredIn(Partitions(n)[i + 1].start, t, S)
<1> SUFFICES ASSUME NEW m \in t .. MaxNow, NEW q \in DOMAIN Partitions(m),
                    Partitions(m)[q].end <= Partitions(n)[i + 1].start
             PROVE  Keys(Partitions(m)[q]) \subseteq S
  BY DEF CoveredIn
<1>1. PICK j \in DOMAIN Partitions(n) : Partitions(n)[j] = Partitions(m)[q] /\ j < i + 1
  BY BehindStart
<1>2. j <= i /\ j \in Nat /\ i \in Nat
  BY <1>1, ListShape
<1>3. Partitions(n)[j].end <= Partitions(n)[i].end
  <2>1. CASE j = i
    BY <2>1, ListShape
  <2>2. CASE j < i
    <3>1. Partitions(n)[j].end <= Partitions(n)[i].start
      BY <2>2, ListShape
    <3>2. /\ Partitions(n)[i].start < Partitions(n)[i].end
          /\ Partitions(n)[i].start \in Int /\ Partitions(n)[i].end \in Int
          /\ Partitions(n)[j].end \in Int
      BY ListShape
    <3> QED BY <3>1, <3>2
  <2> QED BY <1>2, <2>1, <2>2
<1> QED BY <1>1, <1>3 DEF CoveredIn

(* The first entry of a list: nothing listed from now on ends before it.   *)
LEMMA FirstCovered ==
  ASSUME NEW n \in Instants, NEW t \in Instants, n <= t,
         NEW i \in DOMAIN Partitions(n), \A j \in DOMAIN Partitions(n) : i <= j, NEW S
  PROVE  CoveredIn(Partitions(n)[i].start, t, S)
<1> SUFFICES ASSUME NEW m \in t .. MaxNow, NEW q \in DOMAIN Partitions(m),
                    Partitions(m)[q].end <= Partitions(n)[i].start
             PROVE  FALSE
  BY DEF CoveredIn
<1>1. PICK j \in DOMAIN Partitions(n) : j < i
  BY BehindStart
<1>2. i <= j /\ i \in Nat /\ j \in Nat
  BY ListShape
<1> QED BY <1>1, <1>2

(* The filter keeps the entries that start at or after a justified cursor; *)
(* no entry straddles it, so those dropped are covered.                    *)
LEMMA FilterCovered ==
  ASSUME NEW n \in Instants, NEW t \in Instants, n <= t,
         NEW c \in Int, NEW S, Justified(c, t, S),
         NEW i \in DOMAIN Partitions(n),
         \A j \in DOMAIN Partitions(n) : j < i => Partitions(n)[j].start < c
  PROVE  CoveredIn(Partitions(n)[i].start, t, S)
<1> SUFFICES ASSUME NEW m \in t .. MaxNow, NEW q \in DOMAIN Partitions(m),
                    Partitions(m)[q].end <= Partitions(n)[i].start
             PROVE  Keys(Partitions(m)[q]) \subseteq S
  BY DEF CoveredIn
<1>1. PICK j \in DOMAIN Partitions(n) : Partitions(n)[j] = Partitions(m)[q] /\ j < i
  BY BehindStart
<1>2. Partitions(n)[j].start < c
  BY <1>1
<1>3. PICK b \in 0 .. t : \E d \in DOMAIN Partitions(b) : Partitions(b)[d].end = c
  BY DEF Justified, IsBoundary
<1>4. PICK d \in DOMAIN Partitions(b) : Partitions(b)[d].end = c
  BY <1>3
<1>5. b \in Instants
  BY BoundsAssumption DEF Instants
<1>6. Partitions(n)[j].end <= c
  BY <1>2, <1>4, <1>5, AlignedBoundaries
<1> QED BY <1>1, <1>6 DEF Justified, CoveredIn

(* The filter leaves a stretch without holes.                              *)
LEMMA FilterContiguous ==
  ASSUME NEW n \in Instants, NEW c \in Int,
         NEW i \in DOMAIN Partitions(n), NEW j \in DOMAIN Partitions(n),
         i <= j, Partitions(n)[i].start >= c
  PROVE  Partitions(n)[j].start >= c
<1>1. CASE i = j
  BY <1>1
<1>2. CASE i # j
  <2>1. i < j
    BY <1>2, ListShape
  <2>2. Partitions(n)[i].end <= Partitions(n)[j].start
    BY <2>1, ListShape
  <2>3. /\ Partitions(n)[i].start < Partitions(n)[i].end
        /\ Partitions(n)[i].start \in Int /\ Partitions(n)[i].end \in Int
        /\ Partitions(n)[j].start \in Int
    BY ListShape
  <2> QED BY <2>2, <2>3
<1> QED BY <1>1, <1>2
-----------------------------------------------------------------------------
(* The inductive invariant *)

(* What is justified stays so as time passes and the sink grows.           *)
LEMMA JustifiedMono ==
  ASSUME NEW c \in Int, NEW n \in Instants, NEW n2 \in Instants, n <= n2,
         NEW S, NEW S2, S \subseteq S2, Justified(c, n, S)
  PROVE  Justified(c, n2, S2)
<1>1. CoveredIn(c, n2, S2)
  BY CoveredMono DEF Justified
<1>2. 0 .. n \subseteq 0 .. n2
  BY DEF Instants
<1> QED BY <1>1, <1>2 DEF Justified, IsBoundary

(* Likewise for a run that does not move.                                  *)
LEMMA OnTrackMono ==
  ASSUME NEW p, NEW L \in Seq(Partition), NEW T \in SUBSET Nat,
         T \subseteq DOMAIN L, p \in {"run", "advance"} => T # {},
         NEW n \in Instants, NEW n2 \in Instants, n <= n2,
         NEW S, NEW S2, S \subseteq S2, OnTrack(p, L, T, n, S)
  PROVE  OnTrack(p, L, T, n2, S2)
<1>1. 0 .. n \subseteq 0 .. n2
  BY DEF Instants
<1>2. p \in {"run", "advance"} => L[Min(T)].start \in Int /\ L[Min(T)].end \in Int
  <2> SUFFICES ASSUME p \in {"run", "advance"}
               PROVE  L[Min(T)].start \in Int /\ L[Min(T)].end \in Int
    OBVIOUS
  <2>1. Min(T) \in DOMAIN L
    BY MinNat
  <2>2. L[Min(T)] \in Partition
    BY <2>1
  <2> QED BY <2>2 DEF Partition
<1>3. p = "run" => CoveredIn(L[Min(T)].start, n2, S2)
  BY <1>2, CoveredMono DEF OnTrack
<1>4. p = "advance" => CoveredIn(L[Min(T)].end, n2, S2)
  BY <1>2, CoveredMono DEF OnTrack
<1>5. p \in {"cursor", "run", "advance"} => \E m \in 0 .. n2 : L = Partitions(m)
  BY <1>1 DEF OnTrack
<1> QED BY <1>3, <1>4, <1>5 DEF OnTrack

(* A run without a list is on track.                                       *)
LEMMA IdleOnTrack ==
  ASSUME NEW p \in {"none", "list"}, NEW L, NEW n, NEW S
  PROVE  OnTrack(p, L, {}, n, S)
BY DEF OnTrack

(* Steps that neither lose data nor move any run but e.                    *)
LEMMA RunInvOneMoves ==
  ASSUME TypeOK, RunInv, NEW e \in Executions,
         now' \in Instants, now <= now', sink \subseteq sink',
         \A o \in Executions \ {e} :
           pc'[o] = pc[o] /\ parts'[o] = parts[o] /\ todo'[o] = todo[o],
         OnTrack(pc'[e], parts'[e], todo'[e], now', sink')
  PROVE  RunInv'
<1>1. ASSUME NEW o \in Executions, o # e
      PROVE  OnTrack(pc'[o], parts'[o], todo'[o], now', sink')
  <2>1. OnTrack(pc[o], parts[o], todo[o], now, sink)
    BY DEF RunInv
  <2>2. /\ parts[o] \in Seq(Partition) /\ todo[o] \in SUBSET Nat
        /\ todo[o] \subseteq DOMAIN parts[o] /\ now \in Instants
        /\ pc[o] \in {"run", "advance"} => todo[o] # {}
    BY DEF TypeOK, RunTypeOK
  <2>3. OnTrack(pc[o], parts[o], todo[o], now', sink')
    BY <2>1, <2>2, OnTrackMono
  <2> QED BY <1>1, <2>3
<1> QED BY <1>1 DEF RunInv

LEMMA RunInvResume ==
  ASSUME TypeOK, RunInv, NEW e \in Executions, NEW p, NEW L, NEW T, NEW more,
         Resume(e, p, L, T, more),
         now' \in Instants, now <= now', sink \subseteq sink',
         OnTrack(p, L, T, now', sink')
  PROVE  RunInv'
<1>1. /\ pc'[e] = p /\ parts'[e] = L /\ todo'[e] = T
      /\ \A o \in Executions \ {e} :
           pc'[o] = pc[o] /\ parts'[o] = parts[o] /\ todo'[o] = todo[o]
  BY DEF Resume, TypeOK, RunTypeOK
<1>2. OnTrack(pc'[e], parts'[e], todo'[e], now', sink')
  BY <1>1
<1> QED BY <1>1, <1>2, RunInvOneMoves

(* Beginning with the entries K of the list of instant m.                  *)
LEMMA RunInvBegin ==
  ASSUME TypeOK, RunInv, NEW e \in Executions,
         NEW m \in 0 .. now, NEW K \in SUBSET (DOMAIN Partitions(m)),
         \A i \in K, j \in DOMAIN Partitions(m) : i <= j => j \in K,
         K # {} => CoveredIn(Partitions(m)[Min(K)].start, now, sink),
         Begin(e, Partitions(m), K), UNCHANGED <<now, sink>>
  PROVE  RunInv'
<1> DEFINE L == Partitions(m)
<1>0. now \in Instants /\ now' \in Instants /\ now <= now' /\ sink \subseteq sink'
  BY DEF TypeOK, Instants
<1>1. m \in Instants
  BY BoundsAssumption DEF TypeOK, Instants
<1>2. CASE K = {}
  <2>1. Resume(e, "none", <<>>, {}, FALSE)
    BY <1>2 DEF Begin, Close
  <2>2. OnTrack("none", <<>>, {}, now', sink')
    BY IdleOnTrack
  <2> QED BY <2>1, <2>2, <1>0, RunInvResume
<1>3. CASE K # {}
  <2>1. Resume(e, "run", L, Truncated(K), Truncated(K) # K)
    BY <1>3 DEF Begin
  <2>2. K \in SUBSET Nat /\ IsFiniteSet(K)
    BY <1>1, ListShape, DomainFacts, FS_Subset
  <2>3. /\ Truncated(K) \subseteq K /\ Min(Truncated(K)) = Min(K)
        /\ \A i \in K, k \in Truncated(K) : i <= k => i \in Truncated(K)
    BY <1>3, <2>2, TruncatedFacts
  <2>4. \A i, k \in Truncated(K) : i .. k \subseteq Truncated(K)
    <3> SUFFICES ASSUME NEW i \in Truncated(K), NEW k \in Truncated(K), NEW j \in i .. k
                 PROVE  j \in Truncated(K)
      OBVIOUS
    <3>0. i \in K /\ k \in K
      BY <2>3
    <3>01. i \in Nat /\ k \in Nat
      BY <3>0, <2>2
    <3>1. /\ i \in K /\ k \in K /\ i \in Nat /\ k \in Nat
          /\ j \in Nat /\ i <= j /\ j <= k
      BY <3>0, <3>01
    <3>2. DOMAIN L = 1 .. Len(L) /\ Len(L) \in Nat
      BY <1>1, ListShape
    <3>3. j \in DOMAIN L
      BY <3>1, <3>2
    <3>4. j \in K
      BY <3>1, <3>3
    <3> QED BY <3>1, <3>4, <2>3
  <2>5. CoveredIn(L[Min(Truncated(K))].start, now', sink')
    BY <1>3, <2>3
  <2>6. \E i \in 0 .. now' : L = Partitions(i)
    OBVIOUS
  <2>7. OnTrack("run", L, Truncated(K), now', sink')
    BY <2>4, <2>5, <2>6 DEF OnTrack
  <2> QED BY <2>1, <2>7, <1>0, RunInvResume
<1> QED BY <1>2, <1>3

(* Moving on once the current partition is covered.                        *)
LEMMA RunInvProceed ==
  ASSUME TypeOK, RunInv, NEW e \in Executions, pc[e] \in {"run", "advance"},
         CoveredIn(Current(e).end, now, sink'),
         Proceed(e), UNCHANGED now, sink \subseteq sink'
  PROVE  RunInv'
<1> DEFINE L == parts[e]
           i == Min(todo[e])
           rest == todo[e] \ {i}
<1>0. now \in Instants /\ now' \in Instants /\ now <= now'
  BY DEF TypeOK, Instants
<1>1. OnTrack(pc[e], L, todo[e], now, sink)
  BY DEF RunInv
<1>2. PICK m \in 0 .. now : L = Partitions(m)
  BY <1>1 DEF OnTrack
<1>3. m \in Instants /\ m <= now
  BY <1>0, BoundsAssumption DEF Instants
<1>4. /\ i \in todo[e] /\ i \in DOMAIN L /\ \A j \in todo[e] : i <= j
      /\ todo[e] \subseteq DOMAIN L /\ todo[e] \in SUBSET Nat
  BY CurrentFacts DEF TypeOK, RunTypeOK
<1>5. CASE rest # {}
  <2>1. Resume(e, "run", L, rest, deferred[e])
    BY <1>5 DEF Proceed
  <2>2. rest \in SUBSET Nat
    BY <1>4
  <2>3. Min(rest) \in rest /\ \A j \in rest : Min(rest) <= j
    BY <1>5, <2>2, MinNat
  <2>4. /\ i \in Nat /\ Min(rest) \in Nat /\ Min(rest) \in todo[e]
        /\ i <= Min(rest) /\ Min(rest) # i
    BY <1>4, <2>2, <2>3
  <2>5. i + 1 \in i .. Min(rest)
    BY <2>4
  <2>6. i + 1 \in todo[e]
    BY <1>1, <1>4, <2>4, <2>5 DEF OnTrack
  <2>7. i + 1 \in rest
    BY <2>4, <2>6
  <2>8. Min(rest) = i + 1
    <3>1. Min(rest) <= i + 1
      BY <2>3, <2>7
    <3> HIDE DEF rest, i
    <3> QED BY <3>1, <2>4
  <2>9. CoveredIn(L[i].end, now, sink')
    BY DEF Current
  <2>10. CoveredIn(L[i + 1].start, now, sink')
    BY <1>0, <1>2, <1>3, <1>4, <2>6, <2>9, NextExtends
  <2>11. \A a, b \in rest : a .. b \subseteq rest
    <3> SUFFICES ASSUME NEW a \in rest, NEW b \in rest, NEW j \in a .. b
                 PROVE  j \in rest
      OBVIOUS
    <3>1. a \in todo[e] /\ b \in todo[e] /\ j \in todo[e]
      BY <1>1 DEF OnTrack
    <3>2. a \in Nat /\ i \in Nat /\ a # i /\ i <= a
      BY <3>1, <1>4
    <3>3. j # i
      BY <3>2
    <3> QED BY <3>1, <3>3
  <2>12. OnTrack("run", L, rest, now', sink')
    <3>1. \E k \in 0 .. now' : L = Partitions(k)
      BY <1>2
    <3>2. CoveredIn(L[Min(rest)].start, now', sink')
      BY <2>8, <2>10
    <3> QED BY <3>1, <3>2, <2>11 DEF OnTrack
  <2> HIDE DEF L, i, rest
  <2> QED BY <1>0, <2>1, <2>12, RunInvResume
<1>6. CASE rest = {}
  <2>1. CASE deferred[e]
    <3>1. Resume(e, "list", <<>>, {}, FALSE)
      BY <1>6, <2>1 DEF Proceed, ContinueAsNew
    <3>2. OnTrack("list", <<>>, {}, now', sink')
      BY IdleOnTrack
    <3> QED BY <1>0, <3>1, <3>2, RunInvResume
  <2>2. CASE ~ deferred[e]
    <3>1. Resume(e, "none", <<>>, {}, FALSE)
      BY <1>6, <2>2 DEF Proceed, Close
    <3>2. OnTrack("none", <<>>, {}, now', sink')
      BY IdleOnTrack
    <3> QED BY <1>0, <3>1, <3>2, RunInvResume
  <2> QED BY <2>1, <2>2
<1> QED BY <1>5, <1>6

(* A complete partition is fetched whole: all its records exist.           *)
LEMMA FetchWhole ==
  ASSUME TypeOK, RunInv, NEW e \in Executions, pc[e] \in {"run", "advance"}
  PROVE  \E m \in Instants : \E i \in DOMAIN Partitions(m) :
           /\ m <= now /\ parts[e] = Partitions(m) /\ i = Min(todo[e])
           /\ Current(e) = Partitions(m)[i]
           /\ Fetch(Current(e)) = Keys(Current(e))
<1>1. PICK m \in 0 .. now : parts[e] = Partitions(m)
  BY DEF RunInv, OnTrack
<1>2. m \in Instants /\ m <= now /\ now \in Int
  BY BoundsAssumption DEF TypeOK, Instants
<1>3. Min(todo[e]) \in DOMAIN Partitions(m)
  BY <1>1, CurrentFacts DEF TypeOK
<1>4. Current(e) = Partitions(m)[Min(todo[e])]
  BY <1>1 DEF Current
<1>5. Current(e).end <= m /\ Current(e).end \in Int /\ Current(e).start \in Int
  BY <1>2, <1>3, <1>4, CompleteRanges, ListShape
<1>6. \A k \in Keys(Current(e)) : k < now
  BY <1>2, <1>5 DEF Keys, Instants
<1>7. Fetch(Current(e)) = Keys(Current(e))
  BY <1>6 DEF Fetch
<1> QED BY <1>1, <1>2, <1>3, <1>4, <1>7

LEMMA IndInit == Init => IndInv
<1> SUFFICES ASSUME Init PROVE IndInv
  OBVIOUS
<1>1. RunInv
  BY IdleOnTrack DEF Init, RunInv
<1> QED BY <1>1, TypeInit DEF Init, IndInv, CursorInv, LateInv, NoCursor

(* Nothing touches the cursor or the calls on their way.                   *)
LEMMA CursorUntouched ==
  ASSUME TypeOK, CursorInv, LateInv, UNCHANGED <<cursor, late>>,
         now' \in Instants, now <= now', sink \subseteq sink'
  PROVE  CursorInv' /\ LateInv'
<1>1. now \in Instants /\ cursor.at \in Int /\ \A c \in late : c \in Int
  BY DEF TypeOK
<1>2. cursor.exists => Justified(cursor.at, now', sink')
  BY <1>1, JustifiedMono DEF CursorInv
<1>3. \A c \in late : Justified(c, now', sink')
  BY <1>1, JustifiedMono DEF LateInv
<1> QED BY <1>2, <1>3 DEF CursorInv, LateInv

(* Recording a justified value leaves the cursor justified.                *)
LEMMA CursorRecorded ==
  ASSUME TypeOK, CursorInv, NEW c \in Int, Justified(c, now, sink),
         cursor' = Recorded(c), UNCHANGED <<now, sink>>
  PROVE  CursorInv'
<1>1. Recorded(c).at = c \/ (cursor.exists /\ Recorded(c).at = cursor.at)
  BY RecordedFacts
<1>2. Justified(cursor'.at, now, sink)
  BY <1>1 DEF CursorInv
<1>3. Justified(cursor'.at, now', sink')
  BY <1>2
<1> QED BY <1>3 DEF CursorInv

(* A run that waits for its Advance call holds a justified value.          *)
LEMMA AdvanceJustified ==
  ASSUME TypeOK, RunInv, NEW e \in Executions, pc[e] = "advance"
  PROVE  Current(e).end \in Int /\ Justified(Current(e).end, now, sink)
<1>1. CoveredIn(Current(e).end, now, sink)
  BY DEF RunInv, OnTrack, Current
<1>a. PICK m \in Instants : \E i \in DOMAIN Partitions(m) :
        m <= now /\ Current(e) = Partitions(m)[i]
  BY FetchWhole
<1>2. PICK i \in DOMAIN Partitions(m) : m <= now /\ Current(e) = Partitions(m)[i]
  BY <1>a
<1>3. IsBoundary(Current(e).end, now)
  BY <1>2 DEF IsBoundary, Instants, TypeOK
<1>4. Current(e).end \in Int
  BY <1>2, ListShape
<1> QED BY <1>1, <1>3, <1>4 DEF Justified

LEMMA IndFault ==
  ASSUME IndInv, NEW e \in Executions, AttemptFails(e) \/ Cancel(e)
  PROVE  CursorInv' /\ LateInv' /\ RunInv'
<1>0. TypeOK /\ RunInv /\ CursorInv /\ LateInv /\ pc[e] # "none"
  BY DEF IndInv, AttemptFails, Cancel
<1>1. /\ UNCHANGED <<now, cursor>> /\ Leftovers(e)
  BY DEF AttemptFails, Cancel
<1>2. sink \subseteq sink' /\ now' \in Instants /\ now <= now' /\ now \in Instants
  BY <1>0, <1>1 DEF Leftovers, TypeOK, Instants
<1>3. CursorInv'
  <2>1. cursor.exists => Justified(cursor.at, now', sink')
    BY <1>0, <1>2, JustifiedMono DEF CursorInv, TypeOK
  <2> QED BY <2>1, <1>1 DEF CursorInv
<1>4. LateInv'
  <2> SUFFICES ASSUME NEW c \in late' PROVE Justified(c, now', sink')
    BY DEF LateInv
  <2>1. CASE c \in late
    <3>1. c \in Int /\ Justified(c, now, sink)
      BY <2>1, <1>0 DEF LateInv, TypeOK
    <3> QED BY <3>1, <1>2, JustifiedMono
  <2>2. CASE c \notin late
    <3>1. pc[e] = "advance" /\ c = Current(e).end
      BY <2>2, <1>1 DEF Leftovers
    <3>2. c \in Int /\ Justified(c, now, sink)
      BY <3>1, <1>0, AdvanceJustified
    <3> QED BY <3>2, <1>2, JustifiedMono
  <2> QED BY <2>1, <2>2
<1>5. RunInv'
  <2>1. CASE Close(e)
    <3>1. Resume(e, "none", <<>>, {}, FALSE)
      BY <2>1 DEF Close
    <3>2. OnTrack("none", <<>>, {}, now', sink')
      BY IdleOnTrack
    <3> QED BY <3>1, <3>2, <1>0, <1>2, RunInvResume
  <2>2. CASE UNCHANGED <<pc, parts, todo>>
    <3>1. OnTrack(pc[e], parts[e], todo[e], now, sink)
      BY <1>0 DEF RunInv
    <3>2. /\ parts[e] \in Seq(Partition) /\ todo[e] \in SUBSET Nat
          /\ todo[e] \subseteq DOMAIN parts[e]
          /\ pc[e] \in {"run", "advance"} => todo[e] # {}
      BY <1>0 DEF TypeOK, RunTypeOK
    <3>3. OnTrack(pc[e], parts[e], todo[e], now', sink')
      BY <3>1, <3>2, <1>2, OnTrackMono
    <3>4. OnTrack(pc'[e], parts'[e], todo'[e], now', sink')
      BY <3>3, <2>2
    <3> QED BY <3>4, <2>2, <1>0, <1>2, RunInvOneMoves
  <2> QED BY <2>1, <2>2 DEF AttemptFails, Cancel
<1> QED BY <1>3, <1>4, <1>5

LEMMA IndStep == IndInv /\ [Next]_vars => IndInv'
<1> SUFFICES ASSUME IndInv, [Next]_vars PROVE CursorInv' /\ LateInv' /\ RunInv'
  BY TypeStep DEF IndInv
<1>0. TypeOK /\ CursorInv /\ LateInv /\ RunInv
  BY DEF IndInv
<1>1. now \in Instants /\ now <= now
  BY <1>0 DEF TypeOK, Instants
<1>2. ASSUME UNCHANGED <<cursor, late, pc, parts, todo>>,
             now' \in Instants, now <= now', sink \subseteq sink'
      PROVE  CursorInv' /\ LateInv' /\ RunInv'
  <2>1. CursorInv' /\ LateInv'
    BY <1>0, <1>2, CursorUntouched
  <2>2. ASSUME NEW e \in Executions
        PROVE  OnTrack(pc'[e], parts'[e], todo'[e], now', sink')
    <3>1. OnTrack(pc[e], parts[e], todo[e], now, sink)
      BY <1>0 DEF RunInv
    <3>2. /\ parts[e] \in Seq(Partition) /\ todo[e] \in SUBSET Nat
          /\ todo[e] \subseteq DOMAIN parts[e]
          /\ pc[e] \in {"run", "advance"} => todo[e] # {}
      BY <1>0 DEF TypeOK, RunTypeOK
    <3>3. OnTrack(pc[e], parts[e], todo[e], now', sink')
      BY <3>1, <3>2, <1>1, <1>2, OnTrackMono
    <3> QED BY <3>3, <1>2
  <2> QED BY <2>1, <2>2 DEF RunInv
<1>3. CASE Tick
  <2>1. now' \in Instants /\ now <= now'
    BY <1>1, <1>3, BoundsAssumption DEF Tick, Instants
  <2> QED BY <1>2, <1>3, <2>1 DEF Tick, runVars
<1>4. CASE UNCHANGED vars
  BY <1>1, <1>2, <1>4 DEF vars, runVars
<1>5. CASE LateAdvance
  <2>1. PICK c \in late : cursor' = Recorded(c) /\ late' = late \ {c}
    BY <1>5 DEF LateAdvance
  <2>2. UNCHANGED <<now, sink, pc, parts, todo>>
    BY <1>5 DEF LateAdvance, runVars
  <2>3. c \in Int /\ Justified(c, now, sink)
    BY <1>0 DEF LateInv, TypeOK
  <2>4. CursorInv'
    BY <1>0, <2>1, <2>2, <2>3, CursorRecorded
  <2>5. LateInv'
    BY <1>0, <2>1, <2>2 DEF LateInv
  <2>6. RunInv'
    BY <1>0, <2>2 DEF RunInv
  <2> QED BY <2>4, <2>5, <2>6
<1>6. CASE Reset
  <2>1. UNCHANGED <<now, sink, late, pc, parts, todo>> /\ ~ cursor'.exists
    BY <1>6 DEF Reset, NoCursor, runVars
  <2> QED BY <1>0, <2>1 DEF CursorInv, LateInv, RunInv
<1>7. ASSUME NEW e \in Executions, Start(e)
      PROVE  CursorInv' /\ LateInv' /\ RunInv'
  <2>1. UNCHANGED <<now, sink, cursor, late>> /\ Resume(e, "list", <<>>, {}, FALSE)
    BY <1>7 DEF Start
  <2>2. OnTrack("list", <<>>, {}, now', sink')
    BY IdleOnTrack
  <2>3. RunInv'
    BY <1>0, <1>1, <2>1, <2>2, RunInvResume
  <2> QED BY <1>0, <1>1, <2>1, <2>3, CursorUntouched
<1>8. ASSUME NEW e \in Executions, ListPartitions(e)
      PROVE  CursorInv' /\ LateInv' /\ RunInv'
  <2> DEFINE L == Partitions(now)
  <2>1. UNCHANGED <<now, sink, cursor, late>>
    BY <1>8 DEF ListPartitions
  <2>2. now \in 0 .. now
    BY <1>1 DEF Instants
  <2>3. CASE HasTracker /\ L # <<>>
    <3>1. Resume(e, "cursor", L, {}, FALSE)
      BY <1>8, <2>3 DEF ListPartitions
    <3>2. OnTrack("cursor", L, {}, now', sink')
      BY <2>1, <2>2 DEF OnTrack
    <3> QED BY <1>0, <1>1, <2>1, <3>1, <3>2, RunInvResume, CursorUntouched
  <2>4. CASE ~ (HasTracker /\ L # <<>>)
    <3>1. Begin(e, L, DOMAIN L)
      BY <1>8, <2>4 DEF ListPartitions
    <3>2. ASSUME DOMAIN L # {} PROVE CoveredIn(L[Min(DOMAIN L)].start, now, sink)
      <4>1. DOMAIN L \in SUBSET Nat
        BY <1>1, ListShape
      <4>2. Min(DOMAIN L) \in DOMAIN L /\ \A j \in DOMAIN L : Min(DOMAIN L) <= j
        BY <3>2, <4>1, MinNat
      <4> QED BY <1>1, <4>2, FirstCovered
    <3>3. RunInv'
      BY <1>0, <2>1, <2>2, <3>1, <3>2, RunInvBegin
    <3> QED BY <1>0, <1>1, <2>1, <3>3, CursorUntouched
  <2> QED BY <2>3, <2>4
<1>9. ASSUME NEW e \in Executions, ReadCursor(e)
      PROVE  CursorInv' /\ LateInv' /\ RunInv'
  <2>1. UNCHANGED <<now, sink, cursor, late>> /\ pc[e] = "cursor"
    BY <1>9 DEF ReadCursor
  <2>2. PICK m \in 0 .. now : parts[e] = Partitions(m)
    BY <1>0, <2>1 DEF RunInv, OnTrack
  <2> DEFINE K == Kept(Partitions(m))
  <2>3. m \in Instants /\ m <= now
    BY <1>1, BoundsAssumption DEF Instants
  <2>4. Begin(e, Partitions(m), K)
    BY <1>9, <2>2 DEF ReadCursor
  <2>5. K \in SUBSET (DOMAIN Partitions(m)) /\ cursor.at \in Int
    BY <1>0 DEF Kept, TypeOK
  <2>6. \A i \in K, j \in DOMAIN Partitions(m) : i <= j => j \in K
    BY <2>3, <2>5, FilterContiguous DEF Kept
  <2>7. ASSUME K # {} PROVE CoveredIn(Partitions(m)[Min(K)].start, now, sink)
    <3>1. K \in SUBSET Nat
      BY <2>3, <2>5, ListShape
    <3>2. Min(K) \in K /\ \A j \in K : Min(K) <= j
      BY <2>7, <3>1, MinNat
    <3>3. CASE cursor.exists
      <4>1. ASSUME NEW j \in DOMAIN Partitions(m), j < Min(K)
            PROVE  Partitions(m)[j].start < cursor.at
        <5>1. j \in Nat /\ Min(K) \in Nat /\ Partitions(m)[j].start \in Int
          BY <2>3, <3>1, <3>2, ListShape
        <5>2. j \notin K
          BY <3>2, <4>1, <5>1
        <5>3. ~ (Partitions(m)[j].start >= cursor.at)
          BY <3>3, <5>2 DEF Kept
        <5> QED BY <5>1, <5>3, <2>5
      <4>2. Justified(cursor.at, now, sink)
        BY <1>0, <3>3 DEF CursorInv
      <4>3. Min(K) \in DOMAIN Partitions(m)
        BY <2>5, <3>2
      <4> HIDE DEF K
      <4> QED BY <1>1, <2>3, <2>5, <4>1, <4>2, <4>3, FilterCovered
    <3>4. CASE ~ cursor.exists
      <4>1. K = DOMAIN Partitions(m)
        BY <3>4 DEF Kept
      <4> HIDE DEF K
      <4> QED BY <1>1, <2>3, <3>2, <4>1, FirstCovered
    <3> QED BY <3>3, <3>4
  <2>8. RunInv'
    <3> HIDE DEF K
    <3> QED BY <1>0, <2>1, <2>4, <2>5, <2>6, <2>7, RunInvBegin
  <2> QED BY <1>0, <1>1, <2>1, <2>8, CursorUntouched
<1>10. ASSUME NEW e \in Executions, RunPartition(e)
       PROVE  CursorInv' /\ LateInv' /\ RunInv'
  <2>1. /\ pc[e] = "run" /\ UNCHANGED <<now, cursor, late>>
        /\ sink' = sink \cup Fetch(Current(e))
    BY <1>10 DEF RunPartition
  <2>2. PICK m \in Instants : \E i \in DOMAIN Partitions(m) :
           /\ m <= now /\ parts[e] = Partitions(m) /\ i = Min(todo[e])
           /\ Current(e) = Partitions(m)[i]
           /\ Fetch(Current(e)) = Keys(Current(e))
    BY <1>0, <2>1, FetchWhole
  <2>3. PICK i \in DOMAIN Partitions(m) :
           /\ m <= now /\ parts[e] = Partitions(m) /\ i = Min(todo[e])
           /\ Current(e) = Partitions(m)[i]
           /\ Fetch(Current(e)) = Keys(Current(e))
    BY <2>2
  <2>4. OnTrack(pc[e], parts[e], todo[e], now, sink)
    BY <1>0 DEF RunInv
  <2>5. CoveredIn(Partitions(m)[i].start, now, sink)
    BY <2>1, <2>3, <2>4 DEF OnTrack
  <2>6. sink' = sink \cup Keys(Partitions(m)[i]) /\ sink \subseteq sink'
    BY <2>1, <2>3
  <2>7. CoveredIn(Partitions(m)[i].end, now, sink')
    BY <1>1, <2>3, <2>5, <2>6, RunExtends
  <2>8. RunInv'
    <3>1. CASE HasTracker
      <4>1. Resume(e, "advance", parts[e], todo[e], deferred[e])
        BY <1>10, <3>1 DEF RunPartition
      <4>2. OnTrack("advance", parts[e], todo[e], now', sink')
        BY <2>1, <2>3, <2>4, <2>7 DEF OnTrack
      <4> QED BY <1>0, <1>1, <2>1, <2>6, <4>1, <4>2, RunInvResume
    <3>2. CASE ~ HasTracker
      <4>1. Proceed(e)
        BY <1>10, <3>2 DEF RunPartition
      <4>2. CoveredIn(Current(e).end, now, sink')
        BY <2>3, <2>7
      <4> QED BY <1>0, <2>1, <2>6, <4>1, <4>2, RunInvProceed
    <3> QED BY <3>1, <3>2
  <2> QED BY <1>0, <1>1, <2>1, <2>6, <2>8, CursorUntouched
<1>11. ASSUME NEW e \in Executions, AdvanceCursor(e)
       PROVE  CursorInv' /\ LateInv' /\ RunInv'
  <2>1. /\ pc[e] = "advance" /\ UNCHANGED <<now, sink, late>> /\ Proceed(e)
        /\ cursor' = Recorded(Current(e).end)
    BY <1>11 DEF AdvanceCursor
  <2>2. Current(e).end \in Int /\ Justified(Current(e).end, now, sink)
    BY <1>0, <2>1, AdvanceJustified
  <2>3. CursorInv'
    BY <1>0, <2>1, <2>2, CursorRecorded
  <2>4. LateInv'
    BY <1>0, <2>1 DEF LateInv
  <2>5. CoveredIn(Current(e).end, now, sink')
    BY <2>1, <2>2 DEF Justified
  <2>6. RunInv'
    BY <1>0, <2>1, <2>5, RunInvProceed
  <2> QED BY <2>3, <2>4, <2>6
<1>12. ASSUME NEW e \in Executions, AttemptFails(e) \/ Cancel(e)
       PROVE  CursorInv' /\ LateInv' /\ RunInv'
  BY <1>12, IndFault
<1> QED
  BY <1>3, <1>4, <1>5, <1>6, <1>7, <1>8, <1>9, <1>10, <1>11, <1>12 DEF Next, Step

(* The cursor never passes over a range that still has to be delivered:    *)
(* for every partitioner with aligned boundaries, number of overlapping    *)
(* executions, per-execution budget, retry limit and pattern of failures.  *)
THEOREM CursorCoveredCorrect == Spec => []CursorCovered
<1>1. Init => IndInv
  BY IndInit
<1>2. IndInv /\ [Next]_vars => IndInv'
  BY IndStep
<1>3. IndInv => CursorCovered
  BY DEF IndInv, CursorInv, Justified, CursorCovered, Covered
<1> QED BY <1>1, <1>2, <1>3, PTL DEF Spec
-----------------------------------------------------------------------------
(* What is acknowledged is not scheduled again *)

(* The step property behind ProcessedSkipped.                              *)
SkipsAcked ==
  \A e \in Executions : pc[e] = "cursor" =>
    \A i \in todo'[e] : parts[e][i].end \notin acked

(* A kept partition starts at or after the cursor, which no acknowledged   *)
(* end is beyond; so it ends after every one of them.                      *)
LEMMA KeptNotAcked ==
  ASSUME TypeOK, RunInv, AckedProgress,
         NEW e \in Executions, pc[e] = "cursor", NEW i \in Kept(parts[e])
  PROVE  parts[e][i].end \notin acked
<1> SUFFICES ASSUME parts[e][i].end \in acked PROVE FALSE
  OBVIOUS
<1>1. PICK m \in 0 .. now : parts[e] = Partitions(m)
  BY DEF RunInv, OnTrack
<1>2. m \in Instants
  BY BoundsAssumption DEF TypeOK, Instants
<1>3. cursor.exists /\ cursor.at >= parts[e][i].end /\ cursor.at \in Int
  BY DEF AckedProgress, TypeOK
<1>4. i \in DOMAIN parts[e] /\ parts[e][i].start >= cursor.at
  BY <1>3 DEF Kept
<1>5. /\ parts[e][i].start < parts[e][i].end
      /\ parts[e][i].start \in Int /\ parts[e][i].end \in Int
  BY <1>1, <1>2, <1>4, ListShape
<1> QED BY <1>3, <1>4, <1>5

(* Beginning on the entries K leaves some of K to do.                      *)
LEMMA BeginTodo ==
  ASSUME TypeOK, NEW e \in Executions, NEW L \in Seq(Partition),
         NEW K \in SUBSET (DOMAIN L), Begin(e, L, K)
  PROVE  todo'[e] \subseteq K
<1>1. CASE K = {}
  BY <1>1 DEF Begin, Close, Resume, TypeOK, RunTypeOK
<1>2. CASE K # {}
  <2>1. K \in SUBSET Nat /\ IsFiniteSet(K)
    BY DomainFacts, FS_Subset
  <2>2. Truncated(K) \subseteq K
    BY <2>1, <1>2, TruncatedFacts
  <2>3. todo'[e] = Truncated(K)
    BY <1>2 DEF Begin, Resume, TypeOK, RunTypeOK
  <2> QED BY <2>2, <2>3
<1> QED BY <1>1, <1>2

LEMMA SkipStep == IndInv /\ AckedProgress /\ [Next]_vars => SkipsAcked
<1> SUFFICES ASSUME IndInv, AckedProgress, [Next]_vars,
                    NEW e \in Executions, pc[e] = "cursor", NEW i \in todo'[e]
             PROVE  parts[e][i].end \notin acked
  BY DEF SkipsAcked
<1>0. TypeOK /\ RunInv
  BY DEF IndInv
<1>1. CASE ReadCursor(e)
  <2>1. parts[e] \in Seq(Partition) /\ Kept(parts[e]) \in SUBSET (DOMAIN parts[e])
    BY <1>0 DEF TypeOK, RunTypeOK, Kept
  <2>2. Begin(e, parts[e], Kept(parts[e]))
    BY <1>1 DEF ReadCursor
  <2>3. i \in Kept(parts[e])
    BY <1>0, <2>1, <2>2, BeginTodo
  <2> QED BY <1>0, <2>3, KeptNotAcked
<1>2. CASE ~ ReadCursor(e)
  <2>1. todo[e] = {}
    BY <1>0 DEF TypeOK, RunTypeOK
  <2>2. ASSUME todo'[e] = todo[e] \/ Close(e) PROVE FALSE
    BY <2>1, <2>2, <1>0 DEF Close, Resume, TypeOK, RunTypeOK
  <2>3. CASE Tick \/ LateAdvance \/ Reset \/ UNCHANGED vars
    BY <2>2, <2>3 DEF Tick, LateAdvance, Reset, vars, runVars
  <2>4. ASSUME NEW o \in Executions, o # e,
               Start(o) \/ Step(o) \/ AttemptFails(o) \/ Cancel(o)
        PROVE  FALSE
    <3>1. ASSUME NEW p, NEW L, NEW S, NEW more, Resume(o, p, L, S, more)
          PROVE  FALSE
      BY <3>1, <2>2, <2>4, <1>0 DEF Resume, TypeOK, RunTypeOK
    <3>2. ASSUME NEW L, NEW K, Begin(o, L, K) PROVE FALSE
      BY <3>2, <3>1 DEF Begin, Close
    <3>3. ASSUME Proceed(o) PROVE FALSE
      BY <3>3, <3>1 DEF Proceed, Close, ContinueAsNew
    <3>4. CASE Start(o)
      BY <3>4, <3>1 DEF Start
    <3>5. CASE ListPartitions(o)
      BY <3>5, <3>1, <3>2 DEF ListPartitions
    <3>6. CASE ReadCursor(o)
      BY <3>6, <3>2 DEF ReadCursor
    <3>7. CASE RunPartition(o)
      BY <3>7, <3>1, <3>3 DEF RunPartition
    <3>8. CASE AdvanceCursor(o)
      BY <3>8, <3>3 DEF AdvanceCursor
    <3>9. CASE AttemptFails(o) \/ Cancel(o)
      BY <3>9, <3>1, <2>2 DEF AttemptFails, Cancel, Close
    <3> QED BY <2>4, <3>4, <3>5, <3>6, <3>7, <3>8, <3>9 DEF Step
  <2>5. CASE Start(e) \/ Step(e) \/ AttemptFails(e) \/ Cancel(e)
    <3>1. CASE AttemptFails(e) \/ Cancel(e)
      BY <3>1, <2>2 DEF AttemptFails, Cancel
    <3>2. CASE Start(e) \/ Step(e)
      BY <3>2, <1>2 DEF Start, Step, ListPartitions, RunPartition, AdvanceCursor
    <3> QED BY <2>5, <3>1, <3>2
  <2> QED BY <2>3, <2>4, <2>5 DEF Next
<1> QED BY <1>1, <1>2

(* A run that has read the cursor schedules no partition whose Advance was *)
(* acknowledged before, in this execution or in another one: the filter of *)
(* sync.go:318-326 keeps what starts at or after the cursor, and           *)
(* acknowledged ends never lie beyond it.                                  *)
THEOREM ProcessedAreSkipped == Spec => ProcessedSkipped
<1>1. Init => IndInv /\ AckedProgress
  BY IndInit DEF Init, AckedProgress
<1>2. IndInv /\ AckedProgress /\ [Next]_vars => IndInv' /\ AckedProgress'
  BY IndStep, AckedStep DEF IndInv
<1>3. IndInv /\ AckedProgress /\ [Next]_vars => SkipsAcked
  BY SkipStep
<1>4. ProcessedSkipped <=> [][SkipsAcked]_vars
  BY PTL DEF ProcessedSkipped, SkipsAcked
<1> QED BY <1>1, <1>2, <1>3, <1>4, PTL DEF Spec
-----------------------------------------------------------------------------
(* The workflow implements its ledger *)

LEMMA LedgerInit == Init => Ledger!Init
BY DEF Init, Ledger!Init, NoCursor, Ledger!NoCursor, Instants, Ledger!Instants

LEMMA LedgerCovered == ASSUME NEW k PROVE Covered(k) <=> Ledger!Covered(k)
BY DEF Covered, CoveredIn, Keys, Ledger!Covered, Ledger!Synced, Ledger!Keys

(* A write that is recorded with GREATEST commits what is justified.       *)
LEMMA CommitStep ==
  ASSUME TypeOK, CursorInv, NEW c \in Int, Justified(c, now, sink),
         cursor' = Recorded(c), UNCHANGED <<now, sink>>
  PROVE  Ledger!Commit
<1>1. /\ cursor'.exists
      /\ cursor.exists => cursor'.at >= cursor.at
      /\ cursor'.at = c \/ (cursor.exists /\ cursor'.at = cursor.at)
  BY RecordedFacts
<1>2. Covered(cursor'.at)
  BY <1>1 DEF CursorInv, Justified, Covered
<1>3. Ledger!Covered(cursor'.at)
  BY <1>2, LedgerCovered
<1> QED BY <1>1, <1>3 DEF Ledger!Commit

(* Each step is one of the ledger's, or changes nothing it shows.          *)
LEMMA LedgerStep == IndInv /\ [Next]_vars => [Ledger!Next]_(Ledger!vars)
<1> SUFFICES ASSUME IndInv, [Next]_vars
             PROVE  Ledger!Next \/ UNCHANGED Ledger!vars
  OBVIOUS
<1>0. TypeOK /\ CursorInv /\ LateInv /\ RunInv
  BY DEF IndInv
<1>1. CASE Tick
  <2>1. now' \in Ledger!Instants /\ now' > now
    BY <1>0, <1>1, BoundsAssumption DEF Tick, TypeOK, Instants, Ledger!Instants
  <2>2. Ledger!Tick
    BY <1>1, <2>1 DEF Tick, Ledger!Tick
  <2> QED BY <2>2 DEF Ledger!Next
<1>2. CASE LateAdvance
  <2>1. PICK c \in late : cursor' = Recorded(c)
    BY <1>2 DEF LateAdvance
  <2>2. c \in Int /\ Justified(c, now, sink) /\ UNCHANGED <<now, sink>>
    BY <1>0, <1>2 DEF LateAdvance, LateInv, TypeOK
  <2>3. Ledger!Commit
    BY <1>0, <2>1, <2>2, CommitStep
  <2> QED BY <2>3 DEF Ledger!Next
<1>3. CASE Reset
  <2>1. Ledger!Forget
    BY <1>3 DEF Reset, Ledger!Forget, NoCursor, Ledger!NoCursor
  <2> QED BY <2>1 DEF Ledger!Next
<1>4. ASSUME NEW e \in Executions, AdvanceCursor(e) PROVE Ledger!Next
  <2>1. pc[e] = "advance" /\ cursor' = Recorded(Current(e).end) /\ UNCHANGED <<now, sink>>
    BY <1>4 DEF AdvanceCursor
  <2>2. Current(e).end \in Int /\ Justified(Current(e).end, now, sink)
    BY <1>0, <2>1, AdvanceJustified
  <2>3. Ledger!Commit
    BY <1>0, <2>1, <2>2, CommitStep
  <2> QED BY <2>3 DEF Ledger!Next
<1>5. ASSUME NEW e \in Executions, RunPartition(e) \/ AttemptFails(e) \/ Cancel(e)
      PROVE  Ledger!Next
  <2>1. sink \subseteq sink' /\ UNCHANGED <<now, cursor>>
    BY <1>5 DEF RunPartition, AttemptFails, Cancel, Leftovers
  <2>2. Ledger!Deliver
    BY <2>1 DEF Ledger!Deliver
  <2> QED BY <2>2 DEF Ledger!Next
<1>6. ASSUME NEW e \in Executions, Start(e) \/ ListPartitions(e) \/ ReadCursor(e)
      PROVE  UNCHANGED Ledger!vars
  BY <1>6 DEF Start, ListPartitions, ReadCursor, Ledger!vars
<1>7. CASE UNCHANGED vars
  BY <1>7 DEF vars, Ledger!vars
<1> QED BY <1>1, <1>2, <1>3, <1>4, <1>5, <1>6, <1>7 DEF Next, Step

(* The workflow, its retries, overlaps, cancellations and late calls show  *)
(* nothing to the outside that SyncLedger does not allow: records only     *)
(* accumulate, and the cursor moves forward only over ranges that have     *)
(* been delivered (tracker.go:19).                                         *)
THEOREM SyncKeepsItsLedger == Spec => LedgerSpec
<1>1. Init => Ledger!Init /\ IndInv
  BY LedgerInit, IndInit
<1>2. IndInv /\ [Next]_vars => IndInv'
  BY IndStep
<1>3. IndInv /\ [Next]_vars => [Ledger!Next]_(Ledger!vars)
  BY LedgerStep
<1> QED BY <1>1, <1>2, <1>3, PTL DEF Spec, LedgerSpec, Ledger!Spec
-----------------------------------------------------------------------------
(* A run that ends has everything it listed delivered *)

(* What CursorCovered and its strengthening do not say: nothing is left    *)
(* out behind the last index unless the rest was deferred, and a run that  *)
(* has no tracker has itself delivered whatever it is done with.           *)
RestOn(p, L, T, more, S) ==
  /\ p \in {"cursor", "advance"} => HasTracker
  /\ p \in {"run", "advance"} /\ ~ more =>
       \A i \in T, j \in DOMAIN L : i <= j => j \in T
  /\ p \in {"run", "advance"} /\ ~ HasTracker =>
       \A j \in DOMAIN L \ T : Keys(L[j]) \subseteq S

RestInv == \A e \in Executions : RestOn(pc[e], parts[e], todo[e], deferred[e], sink)

(* A run that does not move stays where it is as the sink grows.           *)
LEMMA RestMono ==
  ASSUME NEW p, NEW L, NEW T, NEW more, NEW S, NEW S2, S \subseteq S2,
         RestOn(p, L, T, more, S)
  PROVE  RestOn(p, L, T, more, S2)
BY DEF RestOn

LEMMA IdleRest ==
  ASSUME NEW p \in {"none", "list"}, NEW L, NEW T, NEW more, NEW S
  PROVE  RestOn(p, L, T, more, S)
BY DEF RestOn

LEMMA RestStays ==
  ASSUME RestInv, sink \subseteq sink', UNCHANGED <<pc, parts, todo, deferred>>
  PROVE  RestInv'
<1> SUFFICES ASSUME NEW e \in Executions
             PROVE  RestOn(pc'[e], parts'[e], todo'[e], deferred'[e], sink')
  BY DEF RestInv
<1>1. RestOn(pc[e], parts[e], todo[e], deferred[e], sink)
  BY DEF RestInv
<1>2. RestOn(pc[e], parts[e], todo[e], deferred[e], sink')
  BY <1>1, RestMono
<1> QED BY <1>2

LEMMA RestMoves ==
  ASSUME TypeOK, RestInv, NEW e \in Executions, NEW p, NEW L, NEW T, NEW more,
         Resume(e, p, L, T, more), sink \subseteq sink',
         RestOn(p, L, T, more, sink')
  PROVE  RestInv'
<1> SUFFICES ASSUME NEW o \in Executions
             PROVE  RestOn(pc'[o], parts'[o], todo'[o], deferred'[o], sink')
  BY DEF RestInv
<1>1. CASE o = e
  <2>1. pc'[e] = p /\ parts'[e] = L /\ todo'[e] = T /\ deferred'[e] = more
    BY DEF Resume, TypeOK, RunTypeOK
  <2> QED BY <1>1, <2>1
<1>2. CASE o # e
  <2>1. /\ pc'[o] = pc[o] /\ parts'[o] = parts[o]
        /\ todo'[o] = todo[o] /\ deferred'[o] = deferred[o]
    BY <1>2 DEF Resume, TypeOK, RunTypeOK
  <2>2. RestOn(pc[o], parts[o], todo[o], deferred[o], sink)
    BY DEF RestInv
  <2>3. RestOn(pc[o], parts[o], todo[o], deferred[o], sink')
    BY <2>2, RestMono
  <2> QED BY <2>1, <2>3
<1> QED BY <1>1, <1>2

(* Beginning with all entries of a list from some point on.                *)
LEMMA RestBegin ==
  ASSUME TypeOK, RestInv, NEW e \in Executions, NEW L \in Seq(Partition),
         NEW K \in SUBSET (DOMAIN L),
         \A i \in K, j \in DOMAIN L : i <= j => j \in K,
         HasTracker \/ K = DOMAIN L,
         Begin(e, L, K), UNCHANGED sink
  PROVE  RestInv'
<1>1. CASE K = {}
  <2>1. Resume(e, "none", <<>>, {}, FALSE)
    BY <1>1 DEF Begin, Close
  <2>2. RestOn("none", <<>>, {}, FALSE, sink')
    BY IdleRest
  <2> QED BY <2>1, <2>2, RestMoves
<1>2. CASE K # {}
  <2>1. Resume(e, "run", L, Truncated(K), Truncated(K) # K)
    BY <1>2 DEF Begin
  <2>2. ~ HasTracker => Truncated(K) = K
    BY BuildAssumption DEF Truncated
  <2>3. RestOn("run", L, Truncated(K), Truncated(K) # K, sink')
    BY <2>2 DEF RestOn
  <2> HIDE DEF Truncated
  <2> QED BY <2>1, <2>3, RestMoves
<1> QED BY <1>1, <1>2

(* Moving on, without a tracker once the current partition is delivered.   *)
LEMMA RestProceed ==
  ASSUME TypeOK, RestInv, NEW e \in Executions, pc[e] \in {"run", "advance"},
         HasTracker \/ Keys(Current(e)) \subseteq sink',
         Proceed(e), sink \subseteq sink'
  PROVE  RestInv'
<1> DEFINE L == parts[e]
           i == Min(todo[e])
           rest == todo[e] \ {i}
<1>1. /\ i \in todo[e] /\ \A j \in todo[e] : i <= j
      /\ DOMAIN L \subseteq Nat /\ todo[e] \subseteq DOMAIN L
  BY CurrentFacts, DomainFacts DEF TypeOK, RunTypeOK
<1>2. RestOn(pc[e], L, todo[e], deferred[e], sink)
  BY DEF RestInv
<1>3. CASE rest # {}
  <2>1. Resume(e, "run", L, rest, deferred[e])
    BY <1>3 DEF Proceed
  <2>2. ASSUME ~ deferred[e], NEW a \in rest, NEW j \in DOMAIN L, a <= j
        PROVE  j \in rest
    <3>1. j \in todo[e]
      BY <1>2, <2>2 DEF RestOn
    <3>2. i <= a /\ a # i /\ a \in Nat /\ i \in Nat /\ j \in Nat
      BY <1>1
    <3>3. j # i
      <4> HIDE DEF i
      <4> QED BY <2>2, <3>2
    <3> QED BY <3>1, <3>3
  <2>3. ASSUME ~ HasTracker, NEW j \in DOMAIN L \ rest
        PROVE  Keys(L[j]) \subseteq sink'
    <3>1. CASE j = i
      BY <2>3, <3>1 DEF Current
    <3>2. CASE j # i
      BY <1>2, <2>3, <3>2 DEF RestOn
    <3> QED BY <3>1, <3>2
  <2>4. RestOn("run", L, rest, deferred[e], sink')
    BY <2>2, <2>3 DEF RestOn
  <2> QED BY <2>1, <2>4, RestMoves
<1>4. CASE rest = {}
  <2>1. \E p \in {"none", "list"} : Resume(e, p, <<>>, {}, FALSE)
    BY <1>4 DEF Proceed, Close, ContinueAsNew
  <2>2. PICK p \in {"none", "list"} : Resume(e, p, <<>>, {}, FALSE)
    BY <2>1
  <2>3. RestOn(p, <<>>, {}, FALSE, sink')
    BY IdleRest
  <2> QED BY <2>2, <2>3, RestMoves
<1> QED BY <1>3, <1>4

LEMMA RestInit == Init => RestInv
<1> SUFFICES ASSUME Init, NEW e \in Executions
             PROVE  RestOn(pc[e], parts[e], todo[e], deferred[e], sink)
  BY DEF RestInv
<1>1. pc[e] \in {"none", "list"}
  BY DEF Init
<1> QED BY <1>1, IdleRest

LEMMA RestStep == IndInv /\ RestInv /\ [Next]_vars => RestInv'
<1> SUFFICES ASSUME IndInv, RestInv, [Next]_vars PROVE RestInv'
  OBVIOUS
<1>0. TypeOK /\ RunInv
  BY DEF IndInv
<1>1. CASE Tick \/ LateAdvance \/ Reset \/ UNCHANGED vars
  <2>1. UNCHANGED <<sink, pc, parts, todo, deferred>>
    BY <1>1 DEF Tick, LateAdvance, Reset, vars, runVars
  <2> QED BY <2>1, RestStays
<1>2. ASSUME NEW e \in Executions, Start(e) PROVE RestInv'
  <2>1. Resume(e, "list", <<>>, {}, FALSE) /\ UNCHANGED sink
    BY <1>2 DEF Start
  <2>2. RestOn("list", <<>>, {}, FALSE, sink')
    BY IdleRest
  <2> QED BY <1>0, <2>1, <2>2, RestMoves
<1>3. ASSUME NEW e \in Executions, ListPartitions(e) PROVE RestInv'
  <2> DEFINE L == Partitions(now)
  <2>1. L \in Seq(Partition) /\ UNCHANGED sink
    BY <1>0, <1>3, ListShape DEF TypeOK, ListPartitions
  <2>2. CASE HasTracker /\ L # <<>>
    <3>1. Resume(e, "cursor", L, {}, FALSE)
      BY <1>3, <2>2 DEF ListPartitions
    <3>2. RestOn("cursor", L, {}, FALSE, sink')
      BY <2>2 DEF RestOn
    <3> QED BY <1>0, <2>1, <3>1, <3>2, RestMoves
  <2>3. CASE ~ (HasTracker /\ L # <<>>)
    <3>1. Begin(e, L, DOMAIN L)
      BY <1>3, <2>3 DEF ListPartitions
    <3> QED BY <1>0, <2>1, <3>1, RestBegin
  <2> QED BY <2>2, <2>3
<1>4. ASSUME NEW e \in Executions, ReadCursor(e) PROVE RestInv'
  <2>1. /\ pc[e] = "cursor" /\ UNCHANGED sink
        /\ Begin(e, parts[e], Kept(parts[e]))
    BY <1>4 DEF ReadCursor
  <2>2. HasTracker
    BY <2>1 DEF RestInv, RestOn
  <2>3. parts[e] \in Seq(Partition) /\ Kept(parts[e]) \in SUBSET (DOMAIN parts[e])
    BY <1>0 DEF TypeOK, RunTypeOK, Kept
  <2>4. PICK m \in 0 .. now : parts[e] = Partitions(m)
    BY <1>0, <2>1 DEF RunInv, OnTrack
  <2>5. m \in Instants /\ cursor.at \in Int
    BY <1>0, BoundsAssumption DEF TypeOK, Instants
  <2>6. \A i \in Kept(parts[e]), j \in DOMAIN parts[e] : i <= j => j \in Kept(parts[e])
    BY <2>4, <2>5, FilterContiguous DEF Kept
  <2> QED BY <1>0, <2>1, <2>2, <2>3, <2>6, RestBegin
<1>5. ASSUME NEW e \in Executions, RunPartition(e) PROVE RestInv'
  <2>1. pc[e] = "run" /\ sink' = sink \cup Fetch(Current(e))
    BY <1>5 DEF RunPartition
  <2>2. CASE HasTracker
    <3>1. Resume(e, "advance", parts[e], todo[e], deferred[e])
      BY <1>5, <2>2 DEF RunPartition
    <3>2. RestOn("run", parts[e], todo[e], deferred[e], sink)
      BY <2>1 DEF RestInv
    <3>3. RestOn("advance", parts[e], todo[e], deferred[e], sink')
      BY <2>2, <3>2 DEF RestOn
    <3> QED BY <1>0, <2>1, <3>1, <3>3, RestMoves
  <2>3. CASE ~ HasTracker
    <3>1. Proceed(e)
      BY <1>5, <2>3 DEF RunPartition
    <3>2. Keys(Current(e)) \subseteq sink'
      BY <1>0, <2>1, FetchWhole
    <3> QED BY <1>0, <2>1, <3>1, <3>2, RestProceed
  <2> QED BY <2>2, <2>3
<1>6. ASSUME NEW e \in Executions, AdvanceCursor(e) PROVE RestInv'
  <2>1. pc[e] = "advance" /\ Proceed(e) /\ UNCHANGED sink
    BY <1>6 DEF AdvanceCursor
  <2>2. HasTracker
    BY <2>1 DEF RestInv, RestOn
  <2> QED BY <1>0, <2>1, <2>2, RestProceed
<1>7. ASSUME NEW e \in Executions, AttemptFails(e) \/ Cancel(e) PROVE RestInv'
  <2>1. sink \subseteq sink' /\ (Close(e) \/ UNCHANGED <<pc, parts, todo, deferred>>)
    BY <1>7 DEF AttemptFails, Cancel, Leftovers
  <2>2. CASE Close(e)
    <3>1. Resume(e, "none", <<>>, {}, FALSE)
      BY <2>2 DEF Close
    <3>2. RestOn("none", <<>>, {}, FALSE, sink')
      BY IdleRest
    <3> QED BY <1>0, <2>1, <3>1, <3>2, RestMoves
  <2> QED BY <2>1, <2>2, RestStays
<1> QED BY <1>1, <1>2, <1>3, <1>4, <1>5, <1>6, <1>7 DEF Next, Step

(* The step property behind CompletedRunSynced.                            *)
EndsSynced ==
  \A e \in Executions :
    pc[e] \in {"run", "advance"} /\ pc'[e] = "none" /\ faults' = faults =>
      \A i \in DOMAIN parts[e] :
        (HasTracker => StillListed(parts[e][i])) => Keys(parts[e][i]) \subseteq sink'

(* A run that proceeds to its end was at the last entry of its list.       *)
LEMMA EndIsLast ==
  ASSUME TypeOK, RestInv, NEW e \in Executions, pc[e] \in {"run", "advance"},
         Proceed(e), pc'[e] = "none", NEW j \in DOMAIN parts[e]
  PROVE  j <= Min(todo[e]) /\ (j = Min(todo[e]) \/ j \notin todo[e])
<1> DEFINE i == Min(todo[e])
           rest == todo[e] \ {i}
<1>1. /\ i \in todo[e] /\ DOMAIN parts[e] \subseteq Nat /\ todo[e] \subseteq DOMAIN parts[e]
  BY CurrentFacts, DomainFacts DEF TypeOK, RunTypeOK
<1>2. rest = {} /\ ~ deferred[e]
  <2>1. \A p, L, S, more : Resume(e, p, L, S, more) => pc'[e] = p
    BY DEF Resume, TypeOK, RunTypeOK
  <2> QED BY <2>1 DEF Proceed, ContinueAsNew
<1>3. i <= j => j \in todo[e]
  BY <1>1, <1>2 DEF RestInv, RestOn
<1>4. j \in todo[e] => j = i
  BY <1>2
<1>5. i \in Nat /\ j \in Nat
  BY <1>1
<1> HIDE DEF i
<1>6. j <= i
  BY <1>3, <1>4, <1>5
<1> QED BY <1>4, <1>6 DEF i

(* At its end everything behind its last entry is covered, and without a   *)
(* tracker the run has delivered the list itself.                          *)
LEMMA EndSynced ==
  ASSUME TypeOK, RunInv, RestInv, NEW e \in Executions, pc[e] \in {"run", "advance"},
         CoveredIn(Current(e).end, now, sink'), sink \subseteq sink',
         HasTracker \/ Keys(Current(e)) \subseteq sink',
         Proceed(e), pc'[e] = "none",
         NEW j \in DOMAIN parts[e], HasTracker => StillListed(parts[e][j])
  PROVE  Keys(parts[e][j]) \subseteq sink'
<1> DEFINE i == Min(todo[e])
<1>1. j <= i /\ (j = i \/ j \notin todo[e])
  BY EndIsLast
<1>2. CASE HasTracker
  <2>1. PICK m \in Instants : i \in DOMAIN Partitions(m) /\ parts[e] = Partitions(m)
    BY FetchWhole
  <2>2. parts[e][j].end <= parts[e][i].end
    <3>1. CASE j = i
      BY <2>1, <3>1, ListShape
    <3>2. CASE j < i
      <4>1. parts[e][j].end <= parts[e][i].start
        BY <2>1, <3>2, ListShape
      <4>2. /\ parts[e][i].start < parts[e][i].end
            /\ parts[e][i].start \in Int /\ parts[e][i].end \in Int
            /\ parts[e][j].end \in Int
        BY <2>1, ListShape
      <4> QED BY <4>1, <4>2
    <3>3. i \in Nat /\ j \in Nat
      BY <2>1, ListShape
    <3> HIDE DEF i
    <3> QED BY <1>1, <3>1, <3>2, <3>3
  <2>3. PICK n \in now .. MaxNow : \E q \in DOMAIN Partitions(n) : Partitions(n)[q] = parts[e][j]
    BY <1>2 DEF StillListed
  <2>4. PICK q \in DOMAIN Partitions(n) : Partitions(n)[q] = parts[e][j]
    BY <2>3
  <2>5. Partitions(n)[q].end <= Current(e).end
    BY <2>2, <2>4 DEF Current
  <2> QED BY <2>4, <2>5 DEF CoveredIn
<1>3. CASE ~ HasTracker
  <2>1. CASE j = i
    BY <1>3, <2>1 DEF Current
  <2>2. CASE j \notin todo[e]
    BY <1>3, <2>2 DEF RestInv, RestOn
  <2> QED BY <1>1, <2>1, <2>2
<1> QED BY <1>2, <1>3

LEMMA EndStep == IndInv /\ RestInv /\ [Next]_vars => EndsSynced
<1> SUFFICES ASSUME IndInv, RestInv, [Next]_vars, NEW e \in Executions,
                    pc[e] \in {"run", "advance"}, pc'[e] = "none", faults' = faults,
                    NEW j \in DOMAIN parts[e],
                    HasTracker => StillListed(parts[e][j])
             PROVE  Keys(parts[e][j]) \subseteq sink'
  BY DEF EndsSynced
<1>0. TypeOK /\ RunInv /\ pc'[e] # pc[e]
  BY DEF IndInv
<1>1. CASE RunPartition(e)
  <2>1. pc[e] = "run" /\ sink' = sink \cup Fetch(Current(e))
    BY <1>1 DEF RunPartition
  <2>2. ~ HasTracker /\ Proceed(e)
    <3>1. Resume(e, "advance", parts[e], todo[e], deferred[e]) => pc'[e] = "advance"
      BY <1>0 DEF Resume, TypeOK, RunTypeOK
    <3> QED BY <1>1, <3>1 DEF RunPartition
  <2>3. PICK m \in Instants : \E i \in DOMAIN Partitions(m) :
           /\ m <= now /\ parts[e] = Partitions(m) /\ i = Min(todo[e])
           /\ Current(e) = Partitions(m)[i]
           /\ Fetch(Current(e)) = Keys(Current(e))
    BY <1>0, FetchWhole
  <2>4. PICK i \in DOMAIN Partitions(m) :
           /\ m <= now /\ parts[e] = Partitions(m) /\ i = Min(todo[e])
           /\ Current(e) = Partitions(m)[i]
           /\ Fetch(Current(e)) = Keys(Current(e))
    BY <2>3
  <2>5. CoveredIn(Partitions(m)[i].start, now, sink)
    BY <1>0, <2>1, <2>4 DEF RunInv, OnTrack
  <2>6. CoveredIn(Partitions(m)[i].end, now, sink \cup Keys(Partitions(m)[i]))
    BY <1>0, <2>4, <2>5, RunExtends DEF TypeOK
  <2>7. CoveredIn(Current(e).end, now, sink') /\ Keys(Current(e)) \subseteq sink'
    BY <2>1, <2>4, <2>6
  <2> QED BY <1>0, <2>1, <2>2, <2>7, EndSynced
<1>2. CASE AdvanceCursor(e)
  <2>1. pc[e] = "advance" /\ Proceed(e) /\ UNCHANGED sink
    BY <1>2 DEF AdvanceCursor
  <2>2. HasTracker
    BY <2>1 DEF RestInv, RestOn
  <2>3. CoveredIn(Current(e).end, now, sink')
    BY <1>0, <2>1, AdvanceJustified DEF Justified
  <2> QED BY <1>0, <2>1, <2>2, <2>3, EndSynced
<1>3. CASE Tick \/ LateAdvance \/ Reset \/ UNCHANGED vars
  BY <1>0, <1>3 DEF Tick, LateAdvance, Reset, vars, runVars
<1>4. ASSUME NEW o \in Executions, AttemptFails(o) \/ Cancel(o) PROVE FALSE
  <2>1. faults' = faults + 1 /\ faults \in Nat
    BY <1>0, <1>4 DEF AttemptFails, Cancel, TypeOK
  <2> QED BY <2>1
<1>5. CASE Start(e) \/ ListPartitions(e) \/ ReadCursor(e)
  BY <1>5 DEF Start, ListPartitions, ReadCursor
<1>6. ASSUME NEW o \in Executions, o # e, Start(o) \/ Step(o) PROVE FALSE
  <2>1. ASSUME NEW p, NEW L, NEW S, NEW more, Resume(o, p, L, S, more) PROVE FALSE
    BY <2>1, <1>0, <1>6 DEF Resume, TypeOK, RunTypeOK
  <2>2. ASSUME NEW L, NEW K, Begin(o, L, K) PROVE FALSE
    BY <2>1, <2>2 DEF Begin, Close
  <2>3. ASSUME Proceed(o) PROVE FALSE
    BY <2>1, <2>3 DEF Proceed, Close, ContinueAsNew
  <2>4. CASE Start(o) \/ ListPartitions(o)
    BY <2>1, <2>2, <2>4 DEF Start, ListPartitions
  <2>5. CASE ReadCursor(o)
    BY <2>2, <2>5 DEF ReadCursor
  <2>6. CASE RunPartition(o) \/ AdvanceCursor(o)
    BY <2>1, <2>3, <2>6 DEF RunPartition, AdvanceCursor
  <2> QED BY <1>6, <2>4, <2>5, <2>6 DEF Step
<1> QED BY <1>1, <1>2, <1>3, <1>4, <1>5, <1>6 DEF Next, Step

(* A run that ends without an error and defers nothing has everything it   *)
(* listed in the sink: what it ran itself, and what it skipped because of  *)
(* the cursor, unless that has slid out of the window since.               *)
THEOREM EndedRunsAreSynced == Spec => CompletedRunSynced
<1>1. Init => IndInv /\ RestInv
  BY IndInit, RestInit
<1>2. IndInv /\ RestInv /\ [Next]_vars => IndInv' /\ RestInv'
  BY IndStep, RestStep
<1>3. IndInv /\ RestInv /\ [Next]_vars => EndsSynced
  BY EndStep
<1>4. CompletedRunSynced <=> [][EndsSynced]_vars
  BY PTL DEF CompletedRunSynced, EndsSynced
<1> QED BY <1>1, <1>2, <1>3, <1>4, PTL DEF Spec
=============================================================================
