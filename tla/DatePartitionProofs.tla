------------------------- MODULE DatePartitionProofs -------------------------
(***************************************************************************)
(* Proofs about the date partitioner, for every calendar, instant, window  *)
(* and chunk size: its loop returns the closed form, the list tiles the    *)
(* window, and chunks of 24 hours are calendar days where the days have    *)
(* 24 hours.                                                               *)
(***************************************************************************)
EXTENDS DatePartitionLoop, FiniteInduction

-----------------------------------------------------------------------------
(* The calendar *)

(* AlignToMidnight returns the beginning of the day, if there is one.      *)
LEMMA Aligned ==
  ASSUME NEW t \in Int, NEW m \in Midnights, m <= t
  PROVE  /\ AlignToMidnight(t) \in Midnights /\ AlignToMidnight(t) \in Int
         /\ AlignToMidnight(t) <= t
         /\ \A k \in Midnights : k <= t => k <= AlignToMidnight(t)
<1> DEFINE S == {k \in Midnights : k <= t}
<1>1. S \in SUBSET Int /\ S # {} /\ \A x \in S : x <= t
  BY CalendarAssumption
<1>2. Max(S) \in S /\ \A x \in S : Max(S) >= x
  BY <1>1, MaxInt
<1>3. Max(S) = AlignToMidnight(t)
  BY DEF AlignToMidnight, Max
<1> QED BY <1>2, <1>3, CalendarAssumption

(* A day begins at m, and no other one until k.                            *)
LEMMA SameDay ==
  ASSUME NEW m \in Midnights, NEW k \in Int, m <= k,
         \A x \in Midnights : x > m => x > k
  PROVE  AlignToMidnight(k) = m
<1>1. /\ AlignToMidnight(k) \in Midnights /\ AlignToMidnight(k) \in Int
      /\ AlignToMidnight(k) <= k /\ m <= AlignToMidnight(k)
  BY Aligned
<1>2. m \in Int
  BY CalendarAssumption
<1> QED BY <1>1, <1>2
-----------------------------------------------------------------------------
(* The loop *)

Boundary(i) == WindowStart(n, lookBack) + i * chunk

(* What was emitted, by its position.                                      *)
Emitted ==
  \A i \in 1 .. Len(out) :
    /\ out[i] = [start |-> Boundary(i - 1), end |-> Clamp(Boundary(i))]
    /\ Boundary(i - 1) < n

(* A day of 24 hours begins at s.                                          *)
DayBegins(s) ==
  /\ s \in Midnights
  /\ s + DayLength \in Midnights
  /\ \A x \in Midnights : x > s => x >= s + DayLength

(* In a window of whole days a chunk of 24 hours begins with each day.     *)
OnMidnights ==
  WholeDays =>
    /\ cur \in Midnights
    /\ cur = WindowStart(n, lookBack) \/ cur > n - lookBack
    /\ \A i \in 1 .. Len(out) : DayBegins(out[i].start)

LoopInv ==
  /\ TypeOK
  /\ outcome # "rejected" =>
       /\ cur = Boundary(Len(out))
       /\ Emitted
       /\ outcome = "listed" => cur >= n
       /\ OnMidnights

(* The window starts at a midnight before the present.                     *)
LEMMA Window ==
  ASSUME n \in 0 .. MaxNow, lookBack \in 0 .. MaxLen
  PROVE  /\ WindowStart(n, lookBack) \in Midnights /\ WindowStart(n, lookBack) \in Int
         /\ WindowStart(n, lookBack) <= n - lookBack
         /\ \A k \in Midnights : k <= n - lookBack => k <= WindowStart(n, lookBack)
<1>1. /\ n \in Int /\ lookBack \in Int /\ MaxLen \in Int
      /\ n - lookBack \in Int /\ -MaxLen <= n - lookBack
  BY BoundsAssumption
<1>2. PICK m \in Midnights : m <= -MaxLen
  BY CalendarAssumption
<1>3. m \in Int /\ m <= n - lookBack
  BY <1>1, <1>2, CalendarAssumption
<1> QED BY <1>1, <1>3, Aligned DEF WindowStart

(* Boundaries are a chunk apart.                                           *)
LEMMA Boundaries ==
  ASSUME TypeOK
  PROVE  /\ chunk \in Nat /\ n \in Nat /\ lookBack \in Nat
         /\ \A i \in Int : Boundary(i) \in Int
         /\ \A i, j \in Int : j = i + 1 => Boundary(j) = Boundary(i) + chunk
         /\ Boundary(0) = WindowStart(n, lookBack)
<1>1. chunk \in Nat /\ n \in Nat /\ lookBack \in Nat
  BY BoundsAssumption DEF TypeOK
<1>2. PICK w \in Int : w = WindowStart(n, lookBack)
  BY Window DEF TypeOK
<1>3. ASSUME NEW i \in Int
      PROVE  w + i * chunk \in Int /\ w + (i + 1) * chunk = (w + i * chunk) + chunk
  <2>1. (i + 1) * chunk = i * chunk + chunk /\ i * chunk \in Int
    BY <1>1
  <2> QED BY <1>1, <2>1
<1>4. w + 0 * chunk = w
  BY <1>1
<1> QED BY <1>1, <1>2, <1>3, <1>4 DEF Boundary

LEMMA LoopInit ==
  ASSUME Init
  PROVE  LoopInv
<1>1. WindowStart(n, lookBack) \in Midnights /\ WindowStart(n, lookBack) \in Int
  BY Window DEF Init
<1>2. TypeOK
  BY <1>1 DEF Init, TypeOK, Valid
<1>3. cur = Boundary(Len(out))
  <2>1. Boundary(0) = cur /\ Len(out) = 0
    BY <1>2, Boundaries DEF Init
  <2> QED BY <2>1
<1>4. 1 .. Len(out) = {} /\ outcome # "listed" /\ cur = WindowStart(n, lookBack)
  BY DEF Init, Valid
<1> QED BY <1>1, <1>2, <1>3, <1>4 DEF LoopInv, Emitted, OnMidnights

(* A chunk of 24 hours that begins at a midnight is a day, and the next    *)
(* one begins at a midnight of the window.                                 *)
LEMMA NextDay ==
  ASSUME TypeOK, WholeDays, cur \in Midnights, cur < n,
         cur = WindowStart(n, lookBack) \/ cur > n - lookBack, lookBack > 0
  PROVE  DayBegins(cur) /\ cur + chunk > n - lookBack /\ chunk = DayLength
<1>1. /\ n \in Int /\ lookBack \in Int /\ cur \in Int /\ chunk \in Int /\ chunk = DayLength
  BY Boundaries, CalendarAssumption DEF WholeDays
<1>2. PICK t \in n - lookBack .. n - 1 : AlignToMidnight(t) = cur
  <2>1. CASE cur = WindowStart(n, lookBack)
    <3>1. n - lookBack \in n - lookBack .. n - 1
      BY <1>1
    <3> QED BY <2>1, <3>1 DEF WindowStart
  <2>2. CASE cur > n - lookBack
    <3>1. cur \in n - lookBack .. n - 1
      BY <1>1, <2>2
    <3>2. \A x \in Midnights : x > cur => x > cur
      OBVIOUS
    <3>3. AlignToMidnight(cur) = cur
      BY <1>1, <3>2, SameDay
    <3> QED BY <3>1, <3>3
  <2> QED BY <2>1, <2>2
<1>3. {k \in Midnights : cur < k /\ k <= cur + DayLength} = {cur + DayLength}
  BY <1>2 DEF WholeDays
<1>4. cur + DayLength \in Midnights
  BY <1>3
<1>5. ASSUME NEW x \in Midnights, x > cur PROVE x >= cur + DayLength
  <2>1. x \in Int
    BY CalendarAssumption
  <2>2. x <= cur + DayLength => x \in {k \in Midnights : cur < k /\ k <= cur + DayLength}
    BY <1>5
  <2>3. x <= cur + DayLength => x = cur + DayLength
    BY <2>2, <1>3
  <2> QED BY <1>1, <2>1, <2>3
<1>6. cur + DayLength > cur
  BY <1>3
<1>7. cur + chunk > n - lookBack
  <2>1. CASE cur > n - lookBack
    BY <1>1, <1>6, <2>1
  <2>2. CASE cur = WindowStart(n, lookBack)
    <3>1. cur + chunk <= n - lookBack => cur + chunk <= cur
      BY <1>1, <1>4, <2>2, Window DEF TypeOK
    <3> QED BY <1>1, <1>6, <3>1
  <2> QED BY <2>1, <2>2
<1> QED BY <1>1, <1>4, <1>5, <1>7 DEF DayBegins

LEMMA EmitStep ==
  ASSUME LoopInv, Emit
  PROVE  LoopInv'
<1> DEFINE e == [start |-> cur, end |-> Clamp(cur + chunk)]
           L == Len(out)
<1>0. /\ TypeOK /\ cur = Boundary(L) /\ Emitted /\ OnMidnights
      /\ cur < n /\ out' = Append(out, e) /\ cur' = cur + chunk
      /\ UNCHANGED <<n, lookBack, chunk, outcome>> /\ outcome = "running" /\ lookBack > 0
  BY DEF LoopInv, Emit, TypeOK
<1>1. /\ chunk \in Nat /\ n \in Nat /\ lookBack \in Nat /\ cur \in Int
      /\ \A i \in Int : Boundary(i) \in Int
      /\ \A i, j \in Int : j = i + 1 => Boundary(j) = Boundary(i) + chunk
  BY <1>0, Boundaries DEF TypeOK
<1>2. e \in [start : Int, end : Int]
  BY <1>0, <1>1 DEF Clamp
<1>3. out \in Seq([start : Int, end : Int]) /\ L \in Nat
  BY <1>0 DEF TypeOK
<1>4. /\ out' \in Seq([start : Int, end : Int])
      /\ Len(out') = L + 1
      /\ out'[L + 1] = e
      /\ \A i \in 1 .. L : out'[i] = out[i]
  <2> HIDE DEF e, L
  <2>1. Len(Append(out, e)) = Len(out) + 1
    BY <1>2, <1>3
  <2>2. Append(out, e)[Len(out) + 1] = e /\ \A i \in 1 .. Len(out) : Append(out, e)[i] = out[i]
    BY <1>2, <1>3
  <2> QED BY <1>0, <1>2, <1>3, <2>1, <2>2 DEF L
<1>5. cur' = Boundary(Len(out))'
  <2> HIDE DEF e, L
  <2>1. Boundary(L + 1) = cur + chunk
    BY <1>0, <1>1, <1>3
  <2>2. Boundary(Len(out))' = Boundary(L + 1)
    BY <1>0, <1>4 DEF Boundary
  <2> QED BY <1>0, <2>1, <2>2
<1>6. TypeOK'
  <2>1. cur' \in Int
    BY <1>0, <1>1
  <2> HIDE DEF e, L
  <2> QED BY <1>0, <1>4, <2>1 DEF TypeOK
<1>7. Emitted'
  <2> SUFFICES ASSUME NEW i \in 1 .. (L + 1)
               PROVE  /\ out'[i] = [start |-> Boundary(i - 1), end |-> Clamp(Boundary(i))]
                      /\ Boundary(i - 1) < n
    BY <1>0, <1>4 DEF Emitted, Boundary, Clamp
  <2>1. CASE i = L + 1
    <3>1. Boundary(i - 1) = cur /\ Boundary(i) = cur + chunk
      <4>1. i - 1 = L /\ L \in Int /\ L + 1 \in Int /\ Boundary(L + 1) = Boundary(L) + chunk
        BY <1>1, <1>3, <2>1
      <4> QED BY <4>1, <1>0, <2>1
    <3> QED BY <3>1, <1>0, <1>4, <2>1
  <2>2. CASE i # L + 1
    <3>1. i \in 1 .. L
      BY <1>3, <2>2
    <3> QED BY <3>1, <1>0, <1>4 DEF Emitted
  <2> QED BY <2>1, <2>2
<1>8. OnMidnights'
  <2> SUFFICES ASSUME WholeDays
               PROVE  /\ cur + chunk \in Midnights
                      /\ cur + chunk > n - lookBack
                      /\ \A i \in 1 .. (L + 1) : DayBegins(out'[i].start)
    BY <1>0, <1>4 DEF OnMidnights, WholeDays, DayBegins, WindowStart, AlignToMidnight
  <2>1. DayBegins(cur) /\ cur + chunk > n - lookBack /\ chunk = DayLength
    BY <1>0, NextDay DEF OnMidnights
  <2>2. ASSUME NEW i \in 1 .. (L + 1) PROVE DayBegins(out'[i].start)
    <3>1. CASE i = L + 1
      BY <1>4, <2>1, <3>1
    <3>2. CASE i # L + 1
      <4>1. i \in 1 .. L
        BY <1>3, <3>2
      <4> QED BY <4>1, <1>0, <1>4 DEF OnMidnights
    <3> QED BY <3>1, <3>2
  <2> QED BY <2>1, <2>2 DEF DayBegins
<1> QED BY <1>0, <1>5, <1>6, <1>7, <1>8 DEF LoopInv

LEMMA LoopStep == LoopInv /\ [Next]_vars => LoopInv'
<1> SUFFICES ASSUME LoopInv, [Next]_vars PROVE LoopInv'
  OBVIOUS
<1>1. CASE Emit
  BY <1>1, EmitStep
<1>2. ASSUME UNCHANGED <<n, lookBack, chunk, cur, out>>,
             outcome' = outcome \/ (outcome = "running" /\ outcome' = "listed" /\ cur >= n)
      PROVE  LoopInv'
  <2>1. TypeOK'
    BY <1>2 DEF LoopInv, TypeOK
  <2>2. /\ Boundary(Len(out))' = Boundary(Len(out))
        /\ Emitted => Emitted'
        /\ OnMidnights => OnMidnights'
    BY <1>2 DEF Boundary, Emitted, Clamp, OnMidnights, WholeDays, DayBegins
  <2> QED BY <1>2, <2>1, <2>2 DEF LoopInv
<1>3. CASE Return
  BY <1>2, <1>3 DEF Return, LoopEnds
<1>4. CASE UNCHANGED vars
  BY <1>2, <1>4 DEF vars
<1> QED BY <1>1, <1>3, <1>4 DEF Next

LEMMA LoopInvariant == Spec => []LoopInv
BY LoopInit, LoopStep, PTL DEF Spec
-----------------------------------------------------------------------------
(* What the loop returns *)

(* The list when the loop has ended.                                       *)
LEMMA ListFacts ==
  ASSUME LoopInv, outcome = "listed"
  PROVE  /\ chunk \in Nat \ {0} /\ n \in Nat
         /\ out \in Seq([start : Int, end : Int]) /\ Len(out) \in Nat \ {0}
         /\ DOMAIN out = 1 .. Len(out)
         /\ Boundary(Len(out)) >= n /\ Boundary(Len(out) - 1) < n
         /\ WindowStart(n, lookBack) <= n - lookBack
         /\ \A i \in Int : Boundary(i) \in Int
         /\ \A i, j \in Int : j = i + 1 => Boundary(j) = Boundary(i) + chunk
<1>1. /\ TypeOK /\ cur = Boundary(Len(out)) /\ Emitted /\ cur >= n /\ chunk > 0 /\ lookBack > 0
  BY DEF LoopInv, TypeOK
<1>2. /\ chunk \in Nat /\ n \in Nat /\ lookBack \in Nat
      /\ \A i \in Int : Boundary(i) \in Int
      /\ \A i, j \in Int : j = i + 1 => Boundary(j) = Boundary(i) + chunk
      /\ Boundary(0) = WindowStart(n, lookBack)
  BY <1>1, Boundaries
<1>3. /\ out \in Seq([start : Int, end : Int]) /\ Len(out) \in Nat
      /\ DOMAIN out = 1 .. Len(out)
  BY <1>1 DEF TypeOK
<1>4. WindowStart(n, lookBack) \in Int /\ WindowStart(n, lookBack) <= n - lookBack
  BY <1>1, Window DEF TypeOK
<1>5. Len(out) # 0
  <2>1. PICK w \in Int : w = WindowStart(n, lookBack) /\ w <= n - lookBack
    BY <1>4
  <2>2. n \in Int /\ lookBack \in Int /\ lookBack > 0
    BY <1>1, <1>2
  <2>3. w < n
    BY <2>1, <2>2
  <2>4. Boundary(0) < n
    BY <2>1, <2>3, <1>2
  <2>5. Boundary(Len(out)) >= n
    BY <1>1
  <2>6. Boundary(0) \in Int /\ n \in Int
    BY <1>2
  <2> QED BY <2>4, <2>5, <2>6
<1>6. Boundary(Len(out) - 1) < n
  <2>1. Len(out) \in 1 .. Len(out)
    BY <1>3, <1>5
  <2> QED BY <2>1, <1>1 DEF Emitted
<1> QED BY <1>1, <1>2, <1>3, <1>4, <1>5, <1>6

LEMMA ListTiles ==
  ASSUME LoopInv, outcome = "listed"
  PROVE  /\ \A i \in DOMAIN out : out[i].start < out[i].end
         /\ \A i \in 1 .. Len(out) - 1 : out[i].end = out[i + 1].start
         /\ out # <<>> /\ out[1].start <= n - lookBack /\ out[Len(out)].end = n
<1>0. Emitted
  BY DEF LoopInv
<1>1. PICK L \in Nat \ {0} : L = Len(out)
  BY ListFacts
<1>2. /\ chunk \in Nat \ {0} /\ n \in Nat /\ DOMAIN out = 1 .. L
      /\ Boundary(L) >= n
      /\ \A i \in Int : Boundary(i) \in Int
      /\ \A i, j \in Int : j = i + 1 => Boundary(j) = Boundary(i) + chunk
  BY <1>1, ListFacts
<1>3. ASSUME NEW i \in 1 .. L
      PROVE  /\ out[i].start = Boundary(i - 1) /\ out[i].end = Clamp(Boundary(i))
             /\ Boundary(i - 1) < n
  <2>1. out[i] = [start |-> Boundary(i - 1), end |-> Clamp(Boundary(i))] /\ Boundary(i - 1) < n
    BY <1>0, <1>1 DEF Emitted
  <2> QED BY <2>1
<1>4. ASSUME NEW i \in 1 .. L PROVE out[i].start < out[i].end
  <2>1. i \in Int /\ i - 1 \in Int /\ i = (i - 1) + 1
    BY <1>1
  <2>0. Boundary(i) = Boundary(i - 1) + chunk /\ Boundary(i - 1) \in Int
    BY <1>2, <2>1
  <2>2. Boundary(i - 1) < n /\ Boundary(i - 1) < Boundary(i) /\ Boundary(i) \in Int
    BY <1>2, <1>3, <2>0, <2>1
  <2> QED BY <1>2, <1>3, <2>2 DEF Clamp
<1>5. ASSUME NEW i \in 1 .. L - 1 PROVE out[i].end = out[i + 1].start
  <2>1. i \in 1 .. L /\ i + 1 \in 1 .. L /\ (i + 1) - 1 = i
    BY <1>1
  <2>2. Boundary(i) < n /\ out[i + 1].start = Boundary(i) /\ out[i].end = Clamp(Boundary(i))
    BY <1>3, <2>1
  <2>3. Boundary(i) \in Int
    BY <1>2, <2>1
  <2> QED BY <1>2, <2>2, <2>3 DEF Clamp
<1>6. out[1].start <= n - lookBack
  <2>1. out[1].start = Boundary(0) /\ 1 \in 1 .. L
    BY <1>1, <1>3
  <2>2. Boundary(0) = WindowStart(n, lookBack)
    BY Boundaries DEF LoopInv
  <2> QED BY <2>1, <2>2, ListFacts
<1>7. out[L].end = n
  <2>1. L \in 1 .. L /\ L \in Int
    BY <1>1
  <2>2. out[L].end = Clamp(Boundary(L))
    BY <1>3, <2>1
  <2>3. Boundary(L) >= n /\ Boundary(L) \in Int /\ n \in Int
    BY <1>2, <2>1
  <2> QED BY <2>2, <2>3 DEF Clamp
<1> QED BY <1>1, <1>2, <1>4, <1>5, <1>6, <1>7

(* The number of partitions, as a quotient.                                *)
LEMMA Quotient ==
  ASSUME NEW c \in Nat \ {0}, NEW k \in Nat \ {0}, NEW x \in Int,
         (k - 1) * c < x, x <= k * c
  PROVE  (x + c - 1) \div c = k
<1>1. PICK q \in Int : q = (x + c - 1) \div c
  OBVIOUS
<1>2. c * q <= x + c - 1 /\ x + c - 1 < c * q + c
  BY <1>1
<1>3. (k - 1) * c = k * c - c /\ k * c \in Int
  OBVIOUS
<1>4. k * c <= x + c - 1 /\ x + c - 1 < k * c + c
  BY <1>3
<1>5. ASSUME q < k PROVE FALSE
  <2>1. q + 1 <= k
    BY <1>5
  <2>2. (q + 1) * c <= k * c
    BY <2>1
  <2>3. (q + 1) * c = c * q + c
    OBVIOUS
  <2> QED BY <1>2, <1>4, <2>2, <2>3
<1>6. ASSUME q > k PROVE FALSE
  <2>1. k + 1 <= q
    BY <1>6
  <2>2. (k + 1) * c <= q * c
    BY <2>1
  <2>3. (k + 1) * c = k * c + c /\ q * c = c * q
    OBVIOUS
  <2> QED BY <1>2, <1>4, <2>2, <2>3
<1> QED BY <1>1, <1>5, <1>6

LEMMA ListClosedForm ==
  ASSUME LoopInv, outcome = "listed"
  PROVE  out = DatePartitions(n, lookBack, chunk)
<1>0. Emitted /\ TypeOK
  BY DEF LoopInv
<1>1. PICK L \in Nat \ {0} : L = Len(out)
  BY ListFacts
<1>2. PICK w \in Int : w = WindowStart(n, lookBack)
  BY <1>0, Window DEF TypeOK
<1>3. /\ chunk \in Nat \ {0} /\ n \in Nat
      /\ n <= w + L * chunk /\ w + (L - 1) * chunk < n
  BY <1>1, <1>2, ListFacts DEF Boundary
<1>4. (n - w + chunk - 1) \div chunk = L
  <2>1. PICK x \in Int : x = n - w
    BY <1>2, <1>3
  <2>2. (L - 1) * chunk \in Int /\ L * chunk \in Int
    BY <1>3
  <2>3. (L - 1) * chunk < x /\ x <= L * chunk
    BY <1>2, <1>3, <2>1, <2>2
  <2>4. (x + chunk - 1) \div chunk = L
    BY <1>3, <2>3, Quotient
  <2> QED BY <2>1, <2>4
<1>5. DatePartitions(n, lookBack, chunk) =
        [i \in 1 .. L |-> [start |-> w + (i - 1) * chunk, end |-> EndClamped(w + i * chunk, n)]]
  BY <1>2, <1>4 DEF DatePartitions
<1>6. out = [i \in 1 .. L |-> out[i]]
  BY <1>1, ListFacts
<1>7. ASSUME NEW i \in 1 .. L
      PROVE  out[i] = [start |-> w + (i - 1) * chunk, end |-> EndClamped(w + i * chunk, n)]
  BY <1>0, <1>1, <1>2 DEF Emitted, Boundary, Clamp, EndClamped
<1> HIDE DEF DatePartitions
<1> QED BY <1>5, <1>6, <1>7

LEMMA ListCalendarDays ==
  ASSUME LoopInv, outcome = "listed", WholeDays, NEW i \in DOMAIN out,
         NEW k \in out[i].start .. out[i].end - 1
  PROVE  AlignToMidnight(k) = AlignToMidnight(out[i].start)
<1>0. Emitted /\ OnMidnights
  BY DEF LoopInv
<1>1. /\ i \in 1 .. Len(out) /\ i \in Int /\ n \in Nat /\ chunk \in Nat
      /\ \A j \in Int : Boundary(j) \in Int
      /\ \A j, q \in Int : q = j + 1 => Boundary(q) = Boundary(j) + chunk
  <2>1. DOMAIN out = 1 .. Len(out) /\ Len(out) \in Nat
    BY ListFacts
  <2>2. i \in 1 .. Len(out) /\ i \in Int
    BY <2>1
  <2>3. n \in Nat /\ chunk \in Nat
    BY ListFacts
  <2> QED BY <2>2, <2>3, ListFacts
<1>2. PICK s \in Midnights : s = out[i].start /\ DayBegins(s) /\ s \in Int
  <2>1. DayBegins(out[i].start)
    BY <1>0, <1>1 DEF OnMidnights
  <2>2. out[i].start \in Midnights
    BY <2>1 DEF DayBegins
  <2> QED BY <2>1, <2>2, CalendarAssumption
<1>3. out[i].end \in Int /\ out[i].end <= s + DayLength
  <2>1. i - 1 \in Int /\ i = (i - 1) + 1
    <3>1. i \in Int
      BY <1>1
    <3> QED BY ONLY <3>1
  <2>0. Boundary(i) = Boundary(i - 1) + chunk
    BY <1>1, <2>1
  <2>2. s = Boundary(i - 1) /\ out[i].end = Clamp(Boundary(i)) /\ chunk = DayLength
    <3>1. out[i] = [start |-> Boundary(i - 1), end |-> Clamp(Boundary(i))]
      BY <1>0, <1>1 DEF Emitted
    <3> QED BY <3>1, <1>2 DEF WholeDays
  <2>3. Boundary(i) = s + DayLength /\ Boundary(i) \in Int
    BY <1>1, <2>0, <2>2
  <2>4. n \in Int
    BY <1>1
  <2> QED BY <2>2, <2>3, <2>4 DEF Clamp
<1>4. k \in Int /\ s <= k /\ k < s + DayLength
  BY <1>2, <1>3, BoundsAssumption
<1>5. \A x \in Midnights : x > s => x > k
  BY <1>2, <1>4, CalendarAssumption, BoundsAssumption DEF DayBegins
<1>6. \A x \in Midnights : x > s => x > s
  OBVIOUS
<1>7. AlignToMidnight(k) = s
  BY <1>4, <1>5, SameDay
<1>8. AlignToMidnight(s) = s
  BY <1>2, <1>6, SameDay
<1> QED BY <1>2, <1>7, <1>8

(* "Covering [now-LookBack, now)" (partitioner.go:22): the partitions are  *)
(* not empty, without gap or overlap, from before the window to now.       *)
THEOREM WindowIsTiled == Spec => []Tiles
<1>1. LoopInv => Tiles
  BY ListTiles DEF Tiles
<1> QED BY <1>1, LoopInvariant, PTL

(* The loop of Partitions returns the closed form, which the chunked sync  *)
(* is composed with.                                                       *)
THEOREM LoopIsClosedForm == Spec => []ClosedForm
<1>1. LoopInv => ClosedForm
  BY ListClosedForm DEF ClosedForm
<1> QED BY <1>1, LoopInvariant, PTL

(* A 24h ChunkSize yields calendar days in a window without a clock change *)
(* (partitioner.go:22-24), whatever days lie before it.                    *)
THEOREM ChunksAreCalendarDays == Spec => []CalendarDays
<1>1. LoopInv => CalendarDays
  BY ListCalendarDays DEF CalendarDays
<1> QED BY <1>1, LoopInvariant, PTL
=============================================================================
