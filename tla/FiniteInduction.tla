--------------------------- MODULE FiniteInduction ---------------------------
(***************************************************************************)
(* Induction over naturals and over finite sets, for sets in place of      *)
(* predicates: the principles of the library take an operator as a         *)
(* parameter.  All of it rests on the well-foundedness of strict inclusion *)
(* on finite sets.  What follows from it: the least and the greatest       *)
(* element of a set of numbers, that a fold over a finite set is defined,  *)
(* and what the sums of Functions are.                                     *)
(***************************************************************************)
EXTENDS Integers, Functions, FiniteSetsExt, FiniteSetTheorems, TLAPS

(* Min picks the least element of any non-empty set of naturals, such as   *)
(* the indices of the partitions a run has still to do.                    *)
LEMMA MinNat ==
  ASSUME NEW S \in SUBSET Nat, S # {}
  PROVE  Min(S) \in S /\ \A j \in S : Min(S) <= j
<1>0. \A y \in S : y \in Nat
  OBVIOUS
<1>1. PICK n \in S : TRUE
  OBVIOUS
<1> DEFINE Below(x) == {y \in S : y <= x}
           R == StrictSubsetOrdering(0 .. n)
           T == {Below(x) : x \in Below(n)}
<1>2. IsWellFoundedOn(R, FiniteSubsetsOf(0 .. n))
  BY FS_StrictSubsetOrderingWellFounded
<1>3. ASSUME NEW x \in Below(n)
      PROVE  Below(x) \in FiniteSubsetsOf(0 .. n)
  <2>1. Below(x) \subseteq 0 .. n
    <3> SUFFICES ASSUME NEW y \in S, y <= x PROVE y \in 0 .. n
      OBVIOUS
    <3>1. x \in Nat /\ x <= n /\ n \in Nat /\ y \in Nat
      BY <1>0
    <3> QED BY <3>1
  <2>2. IsFiniteSet(0 .. n)
    BY <1>0, FS_Interval
  <2>3. IsFiniteSet(Below(x))
    BY <2>1, <2>2, FS_Subset
  <2> QED BY <2>1, <2>3 DEF FiniteSubsetsOf
<1>4. T \subseteq FiniteSubsetsOf(0 .. n)
  BY <1>3
<1>5. n \in Below(n)
  BY <1>0, <1>1
<1>6. T # {}
  BY <1>5
<1>7. PICK X \in T : \A Y \in T : ~ (<<Y, X>> \in R)
  <2> HIDE DEF R, T
  <2> QED BY <1>2, <1>4, <1>6, WFMin
<1>8. PICK m \in Below(n) : X = Below(m)
  OBVIOUS
<1>9. ASSUME NEW j \in S, j < m PROVE FALSE
  <2>0. j \in Nat /\ m \in Nat /\ m \in S /\ n \in Nat /\ m <= n
    BY <1>0
  <2>1. j \in Below(n)
    BY <1>9, <2>0
  <2>2. Below(j) \in T
    BY <2>1
  <2>3. ASSUME NEW y \in Below(j) PROVE y \in Below(m)
    <3>1. y \in S /\ y \in Nat /\ y <= j
      BY <1>0
    <3> QED BY <3>1, <2>0, <1>9
  <2>4. m \notin Below(j) /\ m \in Below(m)
    BY <1>9, <2>0
  <2>5. <<Below(j), Below(m)>> \in R
    <3>1. Below(j) \in SUBSET (0 .. n) /\ Below(m) \in SUBSET (0 .. n)
      BY <1>3, <2>1 DEF FiniteSubsetsOf
    <3>2. Below(j) \subseteq Below(m) /\ Below(j) # Below(m)
      BY <2>3, <2>4
    <3> HIDE DEF Below
    <3> QED BY <3>1, <3>2 DEF StrictSubsetOrdering
  <2> QED BY <2>5, <2>2, <1>7, <1>8
<1>10. m \in S /\ \A j \in S : m <= j
  BY <1>9, <1>0
<1> QED BY <1>10 DEF Min

(* A non-empty set of integers with an upper bound has a greatest one.     *)
LEMMA MaxInt ==
  ASSUME NEW S \in SUBSET Int, S # {}, NEW b \in Int, \A x \in S : x <= b
  PROVE  Max(S) \in S /\ \A x \in S : Max(S) >= x
<1> DEFINE T == {b - x : x \in S}
<1>1. T \in SUBSET Nat /\ T # {}
  <2>1. ASSUME NEW x \in S PROVE b - x \in Nat
    <3>1. x \in Int /\ x <= b
      OBVIOUS
    <3> QED BY <3>1
  <2>2. PICK x \in S : TRUE
    OBVIOUS
  <2>3. b - x \in T
    BY <2>2
  <2> QED BY <2>1, <2>3
<1>2. PICK x \in S : Min(T) = b - x
  BY <1>1, MinNat
<1>3. ASSUME NEW y \in S PROVE x >= y
  <2>1. b - y \in T
    OBVIOUS
  <2>2. Min(T) <= b - y
    BY <1>1, <2>1, MinNat
  <2> QED BY <1>2, <2>2
<1> QED BY <1>3 DEF Max

(* Induction over the naturals.                                            *)
LEMMA NatInSet ==
  ASSUME NEW Q \in SUBSET Nat, 0 \in Q, \A n \in Q : n + 1 \in Q
  PROVE  Q = Nat
<1>1. SUFFICES ASSUME Nat \ Q # {} PROVE FALSE
  OBVIOUS
<1> DEFINE D == Nat \ Q
           m == Min(D)
<1>2. m \in D /\ \A j \in D : m <= j
  <2>1. D \in SUBSET Nat /\ D # {}
    BY <1>1
  <2> QED BY <2>1, MinNat
<1>3. m \in Nat /\ m # 0 /\ m \notin Q
  BY <1>2
<1>4. m - 1 \in Nat /\ m - 1 \notin D
  <2> HIDE DEF m, D
  <2> QED BY <1>2, <1>3
<1>5. (m - 1) + 1 \in Q
  BY <1>4
<1> QED
  <2> HIDE DEF m
  <2> QED BY <1>5, <1>3

(* Finitely many naturals have an upper bound.                             *)
LEMMA ListBound ==
  ASSUME NEW n \in Nat, NEW f, \A k \in 1 .. n : f[k] \in Nat
  PROVE  \E b \in Nat : \A k \in 1 .. n : f[k] <= b
<1> DEFINE Bounded(m) == \E b \in Nat : \A k \in 1 .. n : k <= m => f[k] <= b
           Q == {m \in Nat : m <= n => Bounded(m)}
<1>1. 0 \in Q
  OBVIOUS
<1>2. ASSUME NEW m \in Q PROVE m + 1 \in Q
  <2> SUFFICES ASSUME m + 1 <= n PROVE Bounded(m + 1)
    OBVIOUS
  <2>1. m \in Nat /\ m + 1 \in 1 .. n /\ f[m + 1] \in Nat
    OBVIOUS
  <2>2. PICK b \in Nat : \A k \in 1 .. n : k <= m => f[k] <= b
    OBVIOUS
  <2>3. PICK c \in Nat : b <= c /\ f[m + 1] <= c
    <3>1. b <= f[m + 1] \/ f[m + 1] <= b
      BY <2>1
    <3> QED BY <2>1, <3>1
  <2>4. ASSUME NEW k \in 1 .. n, k <= m + 1 PROVE f[k] <= c
    <3>1. f[k] \in Nat /\ (k <= m \/ k = m + 1)
      BY <2>1, <2>4
    <3> QED BY <2>2, <2>3, <3>1
  <2> QED BY <2>4
<1>3. Q = Nat
  <2>1. Q \in SUBSET Nat
    OBVIOUS
  <2> HIDE DEF Q
  <2> QED BY <1>1, <1>2, <2>1, NatInSet
<1>4. n \in Q
  <2> HIDE DEF Q
  <2> QED BY <1>3
<1> QED BY <1>4

(* Induction over the subsets of a finite set, from the smaller ones.      *)
LEMMA SubsetInduction ==
  ASSUME NEW S, IsFiniteSet(S), NEW Q,
         \A s \in SUBSET S : (\A r \in SUBSET s : r # s => r \in Q) => s \in Q
  PROVE  SUBSET S \subseteq Q
<1> DEFINE R == StrictSubsetOrdering(S)
           Bad == (SUBSET S) \ Q
<1>1. SUFFICES ASSUME Bad # {} PROVE FALSE
  OBVIOUS
<1>2. IsWellFoundedOn(R, FiniteSubsetsOf(S))
  BY FS_StrictSubsetOrderingWellFounded
<1>3. Bad \subseteq FiniteSubsetsOf(S)
  <2> SUFFICES ASSUME NEW s \in SUBSET S PROVE s \in FiniteSubsetsOf(S)
    OBVIOUS
  <2>1. IsFiniteSet(s)
    BY FS_Subset
  <2> QED BY <2>1 DEF FiniteSubsetsOf
<1>4. PICK s \in Bad : \A r \in Bad : ~ (<<r, s>> \in R)
  <2> HIDE DEF R, Bad
  <2> QED BY <1>1, <1>2, <1>3, WFMin
<1>5. ASSUME NEW r \in SUBSET s, r # s PROVE r \in Q
  <2>1. s \in SUBSET S /\ r \in SUBSET S
    OBVIOUS
  <2>2. <<r, s>> \in R
    BY <2>1, <1>5 DEF StrictSubsetOrdering
  <2>3. r \notin Bad
    <3> HIDE DEF R, Bad
    <3> QED BY <2>2, <1>4
  <2> QED BY <2>1, <2>3
<1> QED BY <1>5

(* A fold over a finite set is defined: picking the elements in any order, *)
(* there is a function on the subsets that says what the fold over each of *)
(* them comes to.  It maps every subset to a value of P when a step does.  *)
IsFold(g, S, P, base, pick, step) ==
  /\ g \in [SUBSET S -> P]
  /\ \A s \in SUBSET S :
       g[s] = IF s = {} THEN base ELSE step[pick[s]][g[s \ {pick[s]}]]

LEMMA FoldDefined ==
  ASSUME NEW S, IsFiniteSet(S), NEW P, NEW base \in P,
         NEW pick, \A s \in SUBSET S : s # {} => pick[s] \in s,
         NEW step, \A x \in S, v \in P : step[x][v] \in P
  PROVE  \E g : IsFold(g, S, P, base, pick, step)
<1> DEFINE Small(m) == {s \in SUBSET S : Cardinality(s) <= m}
           Folds(g, D) ==
             /\ g \in [D -> P]
             /\ \A s \in D : g[s] = IF s = {} THEN base ELSE step[pick[s]][g[s \ {pick[s]}]]
           Q == {m \in Nat : \E g : Folds(g, Small(m))}
<1>1. ASSUME NEW s \in SUBSET S
      PROVE  /\ IsFiniteSet(s) /\ Cardinality(s) \in Nat
             /\ Cardinality(s) = 0 => s = {}
             /\ s # {} => Cardinality(s \ {pick[s]}) = Cardinality(s) - 1
  <2>1. IsFiniteSet(s)
    BY FS_Subset
  <2>2. Cardinality(s) \in Nat /\ (Cardinality(s) = 0 <=> s = {})
    BY <2>1, FS_CardinalityType, FS_EmptySet
  <2>3. ASSUME s # {} PROVE Cardinality(s \ {pick[s]}) = Cardinality(s) - 1
    BY <2>1, <2>3, FS_RemoveElement
  <2> QED BY <2>1, <2>2, <2>3
<1>2. 0 \in Q
  <2> DEFINE g == [s \in Small(0) |-> base]
  <2>1. ASSUME NEW s \in Small(0) PROVE s = {}
    <3>1. s \in SUBSET S /\ Cardinality(s) <= 0 /\ Cardinality(s) \in Nat
      BY <1>1
    <3>2. Cardinality(s) = 0
      BY <3>1
    <3> QED BY <3>1, <3>2, <1>1
  <2>2. Folds(g, Small(0))
    BY <2>1
  <2> QED BY <2>2
<1>3. ASSUME NEW m \in Q PROVE m + 1 \in Q
  <2>1. m \in Nat
    OBVIOUS
  <2>2. PICK g : Folds(g, Small(m))
    OBVIOUS
  <2> DEFINE h == [s \in Small(m + 1) |->
                     IF s = {} THEN base ELSE step[pick[s]][g[s \ {pick[s]}]]]
  <2>3. ASSUME NEW s \in Small(m + 1), s # {}
        PROVE  s \ {pick[s]} \in Small(m) /\ s \ {pick[s]} \in Small(m + 1)
    <3>1. s \in SUBSET S /\ Cardinality(s) <= m + 1
      OBVIOUS
    <3>2. s \ {pick[s]} \in SUBSET S /\ Cardinality(s \ {pick[s]}) = Cardinality(s) - 1
          /\ Cardinality(s) \in Nat
      BY <3>1, <2>3, <1>1
    <3>3. Cardinality(s \ {pick[s]}) <= m /\ Cardinality(s \ {pick[s]}) <= m + 1
      BY <3>1, <3>2, <2>1
    <3> QED BY <3>2, <3>3
  <2>4. ASSUME NEW s \in Small(m) PROVE s \in Small(m + 1) /\ h[s] = g[s]
    <3>1. s \in Small(m + 1)
      <4>1. s \in SUBSET S /\ Cardinality(s) <= m /\ Cardinality(s) \in Nat
        BY <1>1
      <4>2. Cardinality(s) <= m + 1
        BY <4>1, <2>1
      <4> QED BY <4>1, <4>2
    <3>2. h[s] = IF s = {} THEN base ELSE step[pick[s]][g[s \ {pick[s]}]]
      <4> HIDE DEF Small
      <4> QED BY <3>1
    <3> QED BY <3>1, <3>2, <2>2
  <2>5. h \in [Small(m + 1) -> P]
    <3> SUFFICES ASSUME NEW s \in Small(m + 1), s # {}
                 PROVE  step[pick[s]][g[s \ {pick[s]}]] \in P
      <4> HIDE DEF Small
      <4> QED OBVIOUS
    <3>1. pick[s] \in s /\ s \in SUBSET S
      OBVIOUS
    <3>2. g[s \ {pick[s]}] \in P
      <4> HIDE DEF Small
      <4> QED BY <2>3, <2>2
    <3> QED BY <3>1, <3>2
  <2>6. \A s \in Small(m + 1) :
          h[s] = IF s = {} THEN base ELSE step[pick[s]][h[s \ {pick[s]}]]
    <3> SUFFICES ASSUME NEW s \in Small(m + 1)
                 PROVE h[s] = IF s = {} THEN base ELSE step[pick[s]][h[s \ {pick[s]}]]
      OBVIOUS
    <3>1. s # {} => h[s \ {pick[s]}] = g[s \ {pick[s]}]
      <4> HIDE DEF Small, h
      <4> QED BY <2>3, <2>4
    <3>2. h[s] = IF s = {} THEN base ELSE step[pick[s]][g[s \ {pick[s]}]]
      <4> HIDE DEF Small
      <4> QED OBVIOUS
    <3> HIDE DEF Small, h
    <3> QED BY <3>1, <3>2
  <2>7. Folds(h, Small(m + 1))
    <3> HIDE DEF Small, h
    <3> QED BY <2>5, <2>6
  <2> HIDE DEF Folds, Small, h
  <2> QED BY <2>7, <2>1
<1>4. Q = Nat
  <2>1. Q \in SUBSET Nat
    OBVIOUS
  <2> HIDE DEF Q
  <2> QED BY <1>2, <1>3, <2>1, NatInSet
<1>5. Cardinality(S) \in Nat
  BY FS_CardinalityType
<1>6. PICK g : Folds(g, Small(Cardinality(S)))
  <2>1. Cardinality(S) \in Q
    BY <1>4, <1>5
  <2> QED BY <2>1
<1>7. Small(Cardinality(S)) = SUBSET S
  <2> SUFFICES ASSUME NEW s \in SUBSET S PROVE Cardinality(s) <= Cardinality(S)
    OBVIOUS
  <2> QED BY FS_Subset
<1>8. Folds(g, SUBSET S)
  <2> HIDE DEF Folds, Small
  <2> QED BY <1>6, <1>7
<1> QED BY <1>8 DEF IsFold

-----------------------------------------------------------------------------
(* Folds over sequences, from the left                                     *)

IsLeftFold(g, n, P, base, step) ==
  /\ g[{}] = base
  /\ g \in [SUBSET (1 .. n) -> P]
  /\ \A s \in SUBSET (1 .. n) : s # {} =>
       /\ Max(s) \in s
       /\ g[s] = step[Max(s)][g[s \ {Max(s)}]]

(* There is such a fold.                                                   *)
LEMMA LeftFoldDefined ==
  ASSUME NEW n \in Nat, NEW P, NEW base \in P,
         NEW step, \A k \in 1 .. n, b \in P : step[k][b] \in P
  PROVE  \E g : IsLeftFold(g, n, P, base, step)
<1> DEFINE S == 1 .. n
           pick == [s \in SUBSET S |-> Max(s)]
<1>1. ASSUME NEW s \in SUBSET S, s # {} PROVE Max(s) \in s
  <2>1. s \in SUBSET Int /\ n \in Int /\ \A x \in s : x <= n
    OBVIOUS
  <2> QED BY <2>1, <1>1, MaxInt
<1>2. \A s \in SUBSET S : s # {} => pick[s] \in s
  BY <1>1
<1>3. IsFiniteSet(S)
  BY FS_Interval
<1>3a. \A k \in S, b \in P : step[k][b] \in P
  OBVIOUS
<1>4. PICK g : IsFold(g, S, P, base, pick, step)
  <2> HIDE DEF pick, S
  <2> QED BY <1>2, <1>3, <1>3a, FoldDefined
<1>5. g[{}] = base /\ g \in [SUBSET S -> P]
  <2> HIDE DEF S, pick
  <2> QED BY <1>4 DEF IsFold
<1>6. ASSUME NEW s \in SUBSET S, s # {}
      PROVE  Max(s) \in s /\ g[s] = step[Max(s)][g[s \ {Max(s)}]]
  <2>1. pick[s] = Max(s) /\ Max(s) \in s
    BY <1>1, <1>6
  <2> HIDE DEF S, pick
  <2> QED BY <1>4, <1>6, <2>1 DEF IsFold
<1> QED BY <1>5, <1>6 DEF IsLeftFold

(* Whatever obeys the same equation is the same fold.                      *)
LEMMA LeftFoldUnique ==
  ASSUME NEW n \in Nat, NEW P, NEW base, NEW step, NEW g, IsLeftFold(g, n, P, base, step),
         NEW h, h[{}] = base,
         \A s \in SUBSET (1 .. n) : s # {} /\ h[s \ {Max(s)}] \in P =>
           h[s] = step[Max(s)][h[s \ {Max(s)}]]
  PROVE  \A s \in SUBSET (1 .. n) : h[s] = g[s]
<1> DEFINE S == 1 .. n
           Q == {s \in SUBSET S : h[s] = g[s]}
<1>0. /\ g[{}] = base
      /\ \A s \in SUBSET S : s # {} =>
           /\ Max(s) \in s
           /\ g[s \ {Max(s)}] \in P
           /\ g[s] = step[Max(s)][g[s \ {Max(s)}]]
  BY DEF IsLeftFold
<1>1. ASSUME NEW s \in SUBSET S, \A r \in SUBSET s : r # s => r \in Q PROVE s \in Q
  <2>1. CASE s = {}
    BY <2>1, <1>0
  <2>2. CASE s # {}
    <3>1. Max(s) \in s /\ g[s \ {Max(s)}] \in P /\ g[s] = step[Max(s)][g[s \ {Max(s)}]]
      BY <1>0, <2>2
    <3>2. h[s \ {Max(s)}] = g[s \ {Max(s)}]
      BY <1>1, <3>1
    <3>3. h[s] = step[Max(s)][h[s \ {Max(s)}]]
      <4> HIDE DEF Q
      <4> QED BY <2>2, <3>1, <3>2
    <3> QED BY <3>1, <3>2, <3>3
  <2> QED BY <2>1, <2>2
<1>2. IsFiniteSet(S)
  BY FS_Interval
<1>3. SUBSET S \subseteq Q
  <2> HIDE DEF Q, S
  <2> QED BY <1>1, <1>2, SubsetInduction
<1> QED BY <1>3

(* The first m elements fold to what the m-th makes of those before it.    *)
LEMMA LeftFoldPrefix ==
  ASSUME NEW n \in Nat, NEW P, NEW base, NEW step, NEW g, IsLeftFold(g, n, P, base, step),
         NEW m \in 1 .. n
  PROVE  g[1 .. (m - 1)] \in P /\ g[1 .. m] = step[m][g[1 .. (m - 1)]]
<1> DEFINE s == 1 .. m
<1>1. s \in SUBSET (1 .. n) /\ s # {} /\ s \in SUBSET Int /\ m \in Int /\ (\A x \in s : x <= m) /\ m \in s
  OBVIOUS
<1>2. Max(s) = m
  <2>1. Max(s) \in s /\ \A x \in s : Max(s) >= x
    <3> HIDE DEF s
    <3> QED BY <1>1, MaxInt
  <2>2. Max(s) \in Int /\ Max(s) <= m /\ Max(s) >= m
    <3> HIDE DEF s
    <3> QED BY <1>1, <2>1
  <2> HIDE DEF s
  <2> QED BY <2>2, <1>1
<1>3. s \ {m} = 1 .. (m - 1)
  OBVIOUS
<1> HIDE DEF s
<1>4. g[s \ {Max(s)}] \in P /\ g[s] = step[Max(s)][g[s \ {Max(s)}]]
  BY <1>1 DEF IsLeftFold
<1>5. g[s \ {m}] \in P /\ g[s] = step[m][g[s \ {m}]]
  BY <1>2, <1>4
<1> QED BY <1>3, <1>5 DEF s

-----------------------------------------------------------------------------
(* Sums                                                                    *)

(* What the sum over a set is, element by element, in the order in which   *)
(* it is computed.                                                         *)
LEMMA SumStep ==
  ASSUME NEW S, IsFiniteSet(S), NEW f, \A x \in S : f[x] \in Nat
  PROVE  LET x == CHOOSE x \in S : TRUE
         IN  SumFunctionOnSet(f, S)
               = IF S = {} THEN 0 ELSE f[x] + SumFunctionOnSet(f, S \ {x})
<1> DEFINE Pick(s) == CHOOSE x \in s : TRUE
           Sums(g, T) == g = [s \in SUBSET T |->
                                IF s = {} THEN 0 ELSE f[Pick(s)] + g[s \ {Pick(s)}]]
           Sum(T) == CHOOSE g : Sums(g, T)
<1>1. \A T : SumFunctionOnSet(f, T) = Sum(T)[T]
  BY DEF SumFunctionOnSet, FoldFunctionOnSet, MapThenFoldSet
<1>2. ASSUME NEW T \in SUBSET S PROVE Sums(Sum(T), T)
  <2> DEFINE pick == [s \in SUBSET T |-> Pick(s)]
             step == [x \in T |-> [v \in Nat |-> f[x] + v]]
  <2>1. \A s \in SUBSET T : s # {} => pick[s] \in s
    OBVIOUS
  <2>2. \A x \in T, v \in Nat : step[x][v] = f[x] + v /\ step[x][v] \in Nat
    OBVIOUS
  <2>3. IsFiniteSet(T) /\ 0 \in Nat
    BY FS_Subset
  <2>4. \A x \in T, v \in Nat : step[x][v] \in Nat
    BY <2>2
  <2>5. PICK g : IsFold(g, T, Nat, 0, pick, step)
    <3> HIDE DEF pick, step
    <3> QED BY <2>1, <2>3, <2>4, FoldDefined
  <2>6. ASSUME NEW s \in SUBSET T, s # {}
        PROVE  g[s] = f[Pick(s)] + g[s \ {Pick(s)}]
    <3>1. pick[s] = Pick(s) /\ Pick(s) \in T /\ g[s \ {Pick(s)}] \in Nat
      BY <2>5, <2>6 DEF IsFold
    <3>2. g[s] = step[Pick(s)][g[s \ {Pick(s)}]]
      <4> HIDE DEF step, pick, Pick
      <4> QED BY <2>5, <2>6, <3>1 DEF IsFold
    <3> QED
      <4> HIDE DEF step, Pick
      <4> QED BY <2>2, <3>1, <3>2
  <2>7. Sums(g, T)
    <3> HIDE DEF Pick
    <3> QED BY <2>5, <2>6 DEF IsFold
  <2> HIDE DEF Sums
  <2> QED BY <2>7
<1>3. ASSUME NEW T \in SUBSET S, NEW s \in SUBSET T
      PROVE  Sum(T)[s] = IF s = {} THEN 0 ELSE f[Pick(s)] + Sum(T)[s \ {Pick(s)}]
  <2> HIDE DEF Sum, Pick
  <2> QED BY <1>2
<1>4. ASSUME NEW T \in SUBSET S PROVE \A s \in SUBSET T : Sum(S)[s] = Sum(T)[s]
  <2> DEFINE Q == {s \in SUBSET T : Sum(S)[s] = Sum(T)[s]}
  <2>1. ASSUME NEW s \in SUBSET T, \A r \in SUBSET s : r # s => r \in Q PROVE s \in Q
    <3>1. s # {} => s \ {Pick(s)} \in SUBSET s /\ s \ {Pick(s)} # s
      OBVIOUS
    <3>2. s # {} => Sum(S)[s \ {Pick(s)}] = Sum(T)[s \ {Pick(s)}]
      <4> HIDE DEF Pick, Sum
      <4> QED BY <2>1, <3>1
    <3>3. s \in SUBSET S /\ S \in SUBSET S
      OBVIOUS
    <3>4. Sum(S)[s] = IF s = {} THEN 0 ELSE f[Pick(s)] + Sum(S)[s \ {Pick(s)}]
      <4> HIDE DEF Pick, Sum
      <4> QED BY <1>3, <3>3
    <3>5. Sum(T)[s] = IF s = {} THEN 0 ELSE f[Pick(s)] + Sum(T)[s \ {Pick(s)}]
      <4> HIDE DEF Pick, Sum
      <4> QED BY <1>3
    <3> HIDE DEF Pick, Sum
    <3> QED BY <3>2, <3>4, <3>5
  <2>2. IsFiniteSet(T)
    BY FS_Subset
  <2>3. SUBSET T \subseteq Q
    <3> HIDE DEF Q
    <3> QED BY <2>1, <2>2, SubsetInduction
  <2> QED BY <2>3
<1>5. Pick(S) = CHOOSE x \in S : TRUE
  OBVIOUS
<1>6. S # {} => SumFunctionOnSet(f, S \ {Pick(S)}) = Sum(S)[S \ {Pick(S)}]
  <2> HIDE DEF Pick, Sum
  <2> QED BY <1>1, <1>4
<1>7. SumFunctionOnSet(f, S) = IF S = {} THEN 0 ELSE f[Pick(S)] + Sum(S)[S \ {Pick(S)}]
  <2> HIDE DEF Pick, Sum
  <2> QED BY <1>1, <1>3
<1> QED
  <2> HIDE DEF Sum, Sums
  <2> QED BY <1>5, <1>6, <1>7

(* A sum of naturals is a natural, and any element may be taken first.     *)
LEMMA SumRemove ==
  ASSUME NEW S, IsFiniteSet(S), NEW f, \A x \in S : f[x] \in Nat
  PROVE  /\ SumFunctionOnSet(f, S) \in Nat
         /\ S = {} => SumFunctionOnSet(f, S) = 0
         /\ \A x \in S : SumFunctionOnSet(f, S) = f[x] + SumFunctionOnSet(f, S \ {x})
<1> DEFINE Sum(s) == SumFunctionOnSet(f, s)
           Q == {s \in SUBSET S : Sum(s) \in Nat /\ \A x \in s : Sum(s) = f[x] + Sum(s \ {x})}
<1>1. ASSUME NEW s \in SUBSET S
      PROVE  /\ s = {} => Sum(s) = 0
             /\ s # {} => \E c \in s : Sum(s) = f[c] + Sum(s \ {c})
  <2>1. IsFiniteSet(s) /\ \A x \in s : f[x] \in Nat
    BY FS_Subset
  <2> DEFINE c == CHOOSE x \in s : TRUE
  <2>2. Sum(s) = IF s = {} THEN 0 ELSE f[c] + Sum(s \ {c})
    BY <2>1, SumStep
  <2>3. s # {} => c \in s
    OBVIOUS
  <2> HIDE DEF c, Sum
  <2> QED BY <2>2, <2>3
<1>2. ASSUME NEW s \in SUBSET S, \A r \in SUBSET s : r # s => r \in Q PROVE s \in Q
  <2>1. CASE s = {}
    <3> HIDE DEF Sum
    <3> QED BY <2>1, <1>1
  <2>2. CASE s # {}
    <3>1. PICK c \in s : Sum(s) = f[c] + Sum(s \ {c})
      BY <2>2, <1>1
    <3>2. ASSUME NEW x \in s
          PROVE  s \ {x} \in Q
      BY <1>2
    <3>3. Sum(s) \in Nat
      <4>1. f[c] \in Nat /\ Sum(s \ {c}) \in Nat
        BY <3>2
      <4> HIDE DEF Sum
      <4> QED BY <3>1, <4>1
    <3>4. ASSUME NEW x \in s PROVE Sum(s) = f[x] + Sum(s \ {x})
      <4>1. CASE x = c
        BY <4>1, <3>1
      <4>2. CASE x # c
        <5>1. x \in s \ {c} /\ c \in s \ {x} /\ (s \ {c}) \ {x} = (s \ {x}) \ {c}
          BY <4>2
        <5> DEFINE rest == Sum((s \ {c}) \ {x})
        <5>2. Sum(s \ {c}) = f[x] + rest
          <6> HIDE DEF Sum
          <6> QED BY <3>2, <5>1
        <5>3. Sum(s \ {x}) = f[c] + rest
          <6> HIDE DEF Sum
          <6> QED BY <3>2, <5>1
        <5>4. (s \ {c}) \ {x} \in Q
          <6>1. (s \ {c}) \ {x} \in SUBSET s /\ (s \ {c}) \ {x} # s
            OBVIOUS
          <6> QED BY <6>1, <1>2
        <5>5. rest \in Nat /\ f[x] \in Nat /\ f[c] \in Nat
          BY <5>4
        <5> HIDE DEF rest, Sum
        <5> QED BY <3>1, <5>2, <5>3, <5>5
      <4> QED BY <4>1, <4>2
    <3> QED BY <3>3, <3>4
  <2> QED BY <2>1, <2>2
<1>3. SUBSET S \subseteq Q
  <2> HIDE DEF Q
  <2> QED BY <1>2, SubsetInduction
<1>4. S \in Q
  <2> HIDE DEF Q
  <2> QED BY <1>3
<1> QED BY <1>1, <1>4

(* Nothing adds up to nothing.                                             *)
LEMMA SumZero ==
  ASSUME NEW S, IsFiniteSet(S), NEW f, \A x \in S : f[x] = 0
  PROVE  SumFunctionOnSet(f, S) = 0
<1> DEFINE Sum(s) == SumFunctionOnSet(f, s)
           Q == {s \in SUBSET S : Sum(s) = 0}
<1>1. ASSUME NEW s \in SUBSET S, \A r \in SUBSET s : r # s => r \in Q PROVE s \in Q
  <2>1. IsFiniteSet(s) /\ \A x \in s : f[x] \in Nat
    BY FS_Subset
  <2>2. s = {} => Sum(s) = 0
    BY <2>1, SumRemove
  <2>3. ASSUME NEW x \in s PROVE Sum(s) = 0
    <3>1. Sum(s) = f[x] + Sum(s \ {x})
      BY <2>1, SumRemove
    <3>2. f[x] = 0 /\ Sum(s \ {x}) = 0
      BY <1>1
    <3> HIDE DEF Sum
    <3> QED BY <3>1, <3>2
  <2> QED BY <2>2, <2>3
<1>2. SUBSET S \subseteq Q
  <2> HIDE DEF Q
  <2> QED BY <1>1, SubsetInduction
<1> QED BY <1>2

(* The sum grows with its terms, and with the set.                         *)
LEMMA SumInto ==
  ASSUME NEW S, IsFiniteSet(S), NEW T, IsFiniteSet(T), NEW f, NEW g,
         \A x \in S : f[x] \in Nat, \A y \in T : g[y] \in Nat,
         NEW h, \A x \in S : h[x] \in T /\ f[x] <= g[h[x]],
         \A x, y \in S : h[x] = h[y] => x = y
  PROVE  SumFunctionOnSet(f, S) <= SumFunctionOnSet(g, T)
<1> DEFINE F(s) == SumFunctionOnSet(f, s)
           G(r) == SumFunctionOnSet(g, r)
           Q == {s \in SUBSET S : \A r \in SUBSET T : (\A x \in s : h[x] \in r) => F(s) <= G(r)}
<1>1. ASSUME NEW r \in SUBSET T
      PROVE  G(r) \in Nat /\ \A y \in r : G(r) = g[y] + G(r \ {y})
  <2>1. IsFiniteSet(r) /\ \A y \in r : g[y] \in Nat
    BY FS_Subset
  <2> QED BY <2>1, SumRemove
<1>2. ASSUME NEW s \in SUBSET S
      PROVE  /\ F(s) \in Nat
             /\ s = {} => F(s) = 0
             /\ \A x \in s : F(s) = f[x] + F(s \ {x})
  <2>1. IsFiniteSet(s) /\ \A x \in s : f[x] \in Nat
    BY FS_Subset
  <2> QED BY <2>1, SumRemove
<1>3. ASSUME NEW s \in SUBSET S, \A r \in SUBSET s : r # s => r \in Q PROVE s \in Q
  <2> SUFFICES ASSUME NEW r \in SUBSET T, \A x \in s : h[x] \in r PROVE F(s) <= G(r)
    OBVIOUS
  <2>1. CASE s = {}
    <3>1. F(s) = 0 /\ G(r) \in Nat
      BY <1>1, <1>2, <2>1
    <3> HIDE DEF F, G
    <3> QED BY <3>1
  <2>2. ASSUME NEW x \in s PROVE F(s) <= G(r)
    <3>1. s \ {x} \in Q
      BY <1>3
    <3>2. \A y \in s \ {x} : h[y] \in r \ {h[x]}
      OBVIOUS
    <3>3. F(s \ {x}) <= G(r \ {h[x]})
      <4>1. r \ {h[x]} \in SUBSET T
        OBVIOUS
      <4> HIDE DEF F, G
      <4> QED BY <3>1, <3>2, <4>1
    <3>4. F(s) = f[x] + F(s \ {x}) /\ F(s \ {x}) \in Nat
      <4>1. s \ {x} \in SUBSET S
        OBVIOUS
      <4> HIDE DEF F
      <4> QED BY <1>2, <4>1
    <3>5. G(r) = g[h[x]] + G(r \ {h[x]}) /\ G(r \ {h[x]}) \in Nat
      <4>1. r \ {h[x]} \in SUBSET T
        OBVIOUS
      <4> HIDE DEF G
      <4> QED BY <1>1, <4>1
    <3>6. f[x] \in Nat /\ g[h[x]] \in Nat /\ f[x] <= g[h[x]]
      OBVIOUS
    <3> HIDE DEF F, G
    <3> QED BY <3>3, <3>4, <3>5, <3>6
  <2> QED BY <2>1, <2>2
<1>4. SUBSET S \subseteq Q
  <2> HIDE DEF Q
  <2> QED BY <1>3, SubsetInduction
<1>5. F(S) <= G(T)
  <2>1. S \in Q
    <3> HIDE DEF Q
    <3> QED BY <1>4
  <2> HIDE DEF F, G
  <2> QED BY <2>1
<1> QED BY <1>5

(* One term more by one is a sum more by one.                              *)
LEMMA SumBump ==
  ASSUME NEW S, IsFiniteSet(S), NEW f, NEW g, NEW u \in S,
         \A x \in S : f[x] \in Nat,
         \A x \in S : g[x] = IF x = u THEN f[x] + 1 ELSE f[x]
  PROVE  SumFunctionOnSet(g, S) = SumFunctionOnSet(f, S) + 1
<1> DEFINE F(s) == SumFunctionOnSet(f, s)
           G(s) == SumFunctionOnSet(g, s)
           rest == S \ {u}
           id == [x \in S |-> x]
<1>1. IsFiniteSet(rest)
  BY FS_Subset
<1>2. \A x \in S : g[x] \in Nat
  OBVIOUS
<1>3. F(S) = f[u] + F(rest) /\ F(rest) \in Nat /\ F(S) \in Nat
  BY <1>1, SumRemove
<1>4. G(S) = g[u] + G(rest) /\ G(rest) \in Nat /\ G(S) \in Nat
  BY <1>1, <1>2, SumRemove
<1>5. \A x \in rest : f[x] = g[x] /\ id[x] = x /\ f[x] \in Nat /\ f[x] <= g[id[x]] /\ g[x] <= f[id[x]]
                     /\ g[x] \in Nat
  OBVIOUS
<1>6. F(rest) <= G(rest)
  <2>1. \A x \in rest : id[x] \in rest /\ f[x] <= g[id[x]]
    BY <1>5
  <2>2. \A x, y \in rest : id[x] = id[y] => x = y
    BY <1>5
  <2> HIDE DEF id, rest
  <2> QED BY <1>1, <1>5, <2>1, <2>2, SumInto
<1>7. G(rest) <= F(rest)
  <2>1. \A x \in rest : id[x] \in rest /\ g[x] <= f[id[x]]
    BY <1>5
  <2>2. \A x, y \in rest : id[x] = id[y] => x = y
    BY <1>5
  <2> HIDE DEF id, rest
  <2> QED BY <1>1, <1>5, <2>1, <2>2, SumInto
<1>8. g[u] = f[u] + 1 /\ f[u] \in Nat
  OBVIOUS
<1>9. G(S) = F(S) + 1
  <2> HIDE DEF F, G, rest
  <2> QED BY <1>3, <1>4, <1>6, <1>7, <1>8
<1> QED BY <1>9
=============================================================================
