-------------------------- MODULE InsertSinkProofs --------------------------
(***************************************************************************)
(* Proofs about the insert-if-absent sink, for any runs, batch, attempts   *)
(* and faults: a run that succeeds covers its batch, and a record is       *)
(* created twice only by writers that overlap on a sink that allows it.    *)
(***************************************************************************)
EXTENDS InsertSink, FiniteInduction

Active(w) == pc[w] \in {"find", "create"}

(* An attempt that was not started yet is at its first record.             *)
Fresh == \A w \in Writers : w[2] > attempt[w[1]] => pc[w] = "idle" /\ at[w] = 1

(* A run waits for an attempt from its start on.                           *)
Phases == \A r \in Runs : outcome[r] = "none" <=> attempt[r] = 0

(* What a writer has passed is in the sink, and counted once.              *)
Covered ==
  \A w \in Writers :
    /\ result[w].inserted + result[w].skipped = at[w] - 1
    /\ \A k \in Records : k < at[w] => rows[k] > 0

(* The attempt that made its run succeed is through its batch.             *)
Through == \A r \in Runs : outcome[r] = "ok" => at[<<r, attempt[r]>>] = Count + 1

(* Without time-outs an attempt at work is the one its run waits for.      *)
Current == timeouts = 0 => \A w \in Writers : Active(w) => Awaited(w)

(* Rows are unique where CreateFunc refuses duplicates, and as long as one *)
(* writer is at work; what it is about to create is then not there yet.    *)
Refusing == unique => \A k \in Records : rows[k] <= 1

Alone ==
  OneWriter =>
    /\ \A k \in Records : rows[k] <= 1
    /\ \A w \in Writers : pc[w] = "create" => rows[at[w]] = 0

SinkInv ==
  /\ TypeOK /\ Fresh /\ Phases /\ Covered /\ Through
  /\ Current /\ Refusing /\ Alone

(* A writer is its run and its attempt.                                    *)
LEMMA WriterParts ==
  /\ \A w \in Writers : w[1] \in Runs /\ w[2] \in 1 .. MaxAttempts /\ w = <<w[1], w[2]>>
  /\ \A r \in Runs, a \in 1 .. MaxAttempts : <<r, a>> \in Writers
  /\ \A v, w \in Writers : v[1] = w[1] /\ v[2] = w[2] => v = w
BY DEF Writers

(* With one writer at work, the others are not.                            *)
LEMMA AloneAtWork ==
  ASSUME SinkInv, OneWriter, NEW v \in Writers, NEW w \in Writers, Active(v), Active(w)
  PROVE  v = w
<1>1. Awaited(v) /\ Awaited(w)
  BY DEF SinkInv, Current, OneWriter
<1>2. /\ v[1] \in Runs /\ w[1] \in Runs
      /\ attempt[v[1]] = v[2] /\ attempt[w[1]] = w[2] /\ v[2] > 0 /\ w[2] > 0
  BY <1>1, WriterParts DEF Awaited
<1>3. v[1] = w[1]
  BY <1>2 DEF OneWriter
<1> QED BY <1>2, <1>3, WriterParts

(* Before the runs start.                                                  *)
LEMMA SinkInit ==
  ASSUME Init
  PROVE  SinkInv
<1>1. TypeOK
  BY BoundsAssumption DEF Init, TypeOK, Records, NoResult
<1>2. Fresh /\ Phases /\ Through
  BY WriterParts DEF Init, Fresh, Phases, Through
<1>3. Covered
  <2> SUFFICES ASSUME NEW w \in Writers
               PROVE  /\ result[w].inserted + result[w].skipped = at[w] - 1
                      /\ \A k \in Records : ~ (k < at[w])
    BY DEF Covered
  <2>1. result[w] = NoResult /\ at[w] = 1
    BY DEF Init
  <2> QED BY <2>1 DEF NoResult, Records
<1>4. Current /\ Refusing /\ Alone
  BY DEF Init, Current, Active, Refusing, Alone
<1> QED BY <1>1, <1>2, <1>3, <1>4 DEF SinkInv

(* A run goes on to its next attempt or fails: whatever else the step does *)
(* to the writers, it leaves them where they are or ends them.             *)
LEMMA RetryFacts ==
  ASSUME TypeOK, Fresh, Phases, Through,
         NEW r \in Runs, outcome[r] = "running",
         NEW f \in [Writers -> {"idle", "find", "create", "ended"}],
         \A v \in Writers : f[v] = pc[v] \/ (pc[v] # "idle" /\ f[v] = "ended"),
         Retry(r, f), UNCHANGED at
  PROVE  /\ attempt' \in [Runs -> 0 .. MaxAttempts]
         /\ pc' \in [Writers -> {"idle", "find", "create", "ended"}]
         /\ outcome' \in [Runs -> {"none", "running", "ok", "failed"}]
         /\ Fresh' /\ Phases' /\ Through'
         /\ \A v \in Writers : pc'[v] \in {"find", "create"} =>
              \/ pc'[v] = pc[v] /\ f[v] = pc[v]
              \/ pc'[v] = "find" /\ at[v] = 1 /\ v[1] = r /\ Awaited(v)'
         /\ \A q \in Runs : attempt'[q] >= attempt[q]
         /\ \A v \in Writers : v[1] # r => Awaited(v)' = Awaited(v)
<1>0. /\ attempt \in [Runs -> 0 .. MaxAttempts] /\ MaxAttempts \in Nat \ {0}
      /\ outcome \in [Runs -> {"none", "running", "ok", "failed"}]
      /\ pc \in [Writers -> {"idle", "find", "create", "ended"}]
      /\ attempt[r] # 0
  BY BoundsAssumption DEF TypeOK, Phases
<1>1. CASE attempt[r] < MaxAttempts
  <2> DEFINE n == <<r, attempt[r] + 1>>
  <2>1. /\ attempt' = [attempt EXCEPT ![r] = attempt[r] + 1]
        /\ pc' = [f EXCEPT ![n] = "find"] /\ outcome' = outcome
    BY <1>1 DEF Retry
  <2>2. attempt[r] + 1 \in 1 .. MaxAttempts /\ n \in Writers /\ n[1] = r /\ n[2] = attempt[r] + 1
    BY <1>0, <1>1, WriterParts
  <2>3. pc[n] = "idle" /\ at[n] = 1
    BY <2>2, <1>0 DEF Fresh
  <2>4. \A q \in Runs : attempt'[q] = IF q = r THEN attempt[r] + 1 ELSE attempt[q]
    BY <2>1, <1>0
  <2>5. \A v \in Writers : pc'[v] = IF v = n THEN "find" ELSE f[v]
    BY <2>1
  <2>6. Fresh'
    <3> SUFFICES ASSUME NEW v \in Writers, v[2] > attempt'[v[1]] PROVE pc'[v] = "idle" /\ at'[v] = 1
      BY DEF Fresh
    <3>1. v[1] \in Runs /\ v[2] \in Nat
      BY WriterParts
    <3>2. v[2] > attempt[v[1]]
      BY <3>1, <2>4, <1>0
    <3>3. v # n
      BY <2>2, <2>4, <1>0
    <3> QED BY <3>2, <3>3, <2>5 DEF Fresh
  <2>7. Phases'
    BY <2>1, <2>4, <1>0 DEF Phases
  <2>8. Through'
    BY <2>1, <2>4 DEF Through
  <2>9. ASSUME NEW v \in Writers, pc'[v] \in {"find", "create"}
        PROVE  \/ pc'[v] = pc[v] /\ f[v] = pc[v]
               \/ pc'[v] = "find" /\ at[v] = 1 /\ v[1] = r /\ Awaited(v)'
    <3>1. CASE v = n
      BY <3>1, <2>1, <2>2, <2>3, <2>4, <2>5, <1>0 DEF Awaited
    <3>2. CASE v # n
      BY <3>2, <2>5, <2>9
    <3> QED BY <3>1, <3>2
  <2>10. attempt' \in [Runs -> 0 .. MaxAttempts]
    <3>1. attempt[r] + 1 \in 0 .. MaxAttempts
      BY <2>2
    <3> QED BY <3>1, <2>1, <1>0
  <2>11. pc' \in [Writers -> {"idle", "find", "create", "ended"}]
    BY <2>1
  <2>12. \A v \in Writers : v[1] # r => Awaited(v)' = Awaited(v)
    BY <2>1, <2>4, WriterParts DEF Awaited
  <2> QED BY <2>1, <2>4, <2>6, <2>7, <2>8, <2>9, <2>10, <2>11, <2>12, <1>0
<1>2. CASE ~ (attempt[r] < MaxAttempts)
  <2>1. outcome' = [outcome EXCEPT ![r] = "failed"] /\ pc' = f /\ attempt' = attempt
    BY <1>2 DEF Retry
  <2>2. Fresh'
    BY <2>1 DEF Fresh
  <2>3. Phases' /\ Through'
    BY <2>1, <1>0 DEF Phases, Through
  <2>4. \A v \in Writers : v[1] # r => Awaited(v)' = Awaited(v)
    BY <2>1, <1>0, WriterParts DEF Awaited
  <2> QED BY <2>1, <2>2, <2>3, <2>4, <1>0
<1> QED BY <1>1, <1>2

(* More rows leave everything covered that was.                            *)
LEMMA CoveredGrows ==
  ASSUME TypeOK, Covered, UNCHANGED <<at, result>>,
         rows' \in [Records -> Nat], \A k \in Records : rows'[k] >= rows[k]
  PROVE  Covered'
<1> SUFFICES ASSUME NEW w \in Writers
             PROVE  /\ result[w].inserted + result[w].skipped = at[w] - 1
                    /\ \A k \in Records : k < at[w] => rows'[k] > 0
  BY DEF Covered
<1>1. ASSUME NEW k \in Records, k < at[w] PROVE rows'[k] > 0
  <2>1. rows[k] > 0 /\ rows[k] \in Nat /\ rows'[k] \in Nat /\ rows'[k] >= rows[k]
    BY <1>1 DEF Covered, TypeOK
  <2> QED BY <2>1
<1> QED BY <1>1 DEF Covered

(* An attempt ends with an error, with or without its create in effect.    *)
LEMMA FailureKeepsSinkInv ==
  ASSUME SinkInv, NEW w \in Writers, Active(w), Fails(w),
         UNCHANGED <<unique, at, result, timeouts>>, errors' \in 0 .. MaxErrors,
         \/ rows' = rows
         \/ pc[w] = "create" /\ ~ Refused(at[w]) /\ rows' = [rows EXCEPT ![at[w]] = @ + 1]
  PROVE  SinkInv'
<1> DEFINE ended == [pc EXCEPT ![w] = "ended"]
<1>0. /\ TypeOK /\ Fresh /\ Phases /\ Covered /\ Through
      /\ rows \in [Records -> Nat] /\ at[w] \in Records
      /\ pc \in [Writers -> {"idle", "find", "create", "ended"}]
      /\ w[1] \in Runs
  BY WriterParts DEF SinkInv, TypeOK, Active
<1>1. /\ rows' \in [Records -> Nat]
      /\ \A k \in Records : rows'[k] >= rows[k]
      /\ \A k \in Records : rows'[k] # rows[k] =>
           k = at[w] /\ rows'[k] = rows[k] + 1 /\ pc[w] = "create" /\ (unique => rows[k] = 0)
  BY <1>0 DEF Refused
<1>2. /\ attempt' \in [Runs -> 0 .. MaxAttempts]
      /\ pc' \in [Writers -> {"idle", "find", "create", "ended"}]
      /\ outcome' \in [Runs -> {"none", "running", "ok", "failed"}]
      /\ Fresh' /\ Phases' /\ Through'
      /\ \A v \in Writers : pc'[v] \in {"find", "create"} =>
           \/ pc'[v] = pc[v] /\ v # w
           \/ pc'[v] = "find" /\ at[v] = 1 /\ Awaited(v)'
      /\ \A q \in Runs : attempt'[q] >= attempt[q]
      /\ \A v \in Writers : v[1] # w[1] => Awaited(v)' = Awaited(v)
  <2>1. CASE Awaited(w)
    <3>1. Retry(w[1], ended) /\ outcome[w[1]] = "running"
      BY <2>1 DEF Fails, Awaited
    <3>2. /\ ended \in [Writers -> {"idle", "find", "create", "ended"}]
          /\ \A v \in Writers : ended[v] = IF v = w THEN "ended" ELSE pc[v]
      BY <1>0
    <3>3. \A v \in Writers : ended[v] = pc[v] \/ (pc[v] # "idle" /\ ended[v] = "ended")
      BY <3>2 DEF Active
    <3>4. \A v \in Writers : ended[v] = pc[v] => v # w
      BY <3>2 DEF Active
    <3> HIDE DEF ended
    <3> QED BY <3>1, <3>2, <3>3, <3>4, <1>0, RetryFacts
  <2>2. CASE ~ Awaited(w)
    <3>1. pc' = ended /\ UNCHANGED <<attempt, outcome>>
      BY <2>2 DEF Fails
    <3>2. \A v \in Writers : pc'[v] = IF v = w THEN "ended" ELSE pc[v]
      BY <3>1, <1>0
    <3>3. w[2] <= attempt[w[1]]
      BY <1>0, WriterParts DEF Fresh, Active, TypeOK
    <3>4. Fresh'
      BY <3>1, <3>2, <1>0, <3>3, WriterParts DEF Fresh, TypeOK
    <3>5. Phases' /\ Through'
      BY <3>1, <1>0 DEF Phases, Through
    <3>6. pc' \in [Writers -> {"idle", "find", "create", "ended"}]
      BY <3>1, <1>0
    <3>7. \A q \in Runs : attempt'[q] >= attempt[q]
      BY <3>1, BoundsAssumption, <1>0 DEF TypeOK
    <3> QED BY <3>1, <3>2, <3>4, <3>5, <3>6, <3>7, <1>0 DEF TypeOK, Awaited
  <2> QED BY <2>1, <2>2
<1>3. TypeOK'
  <2>1. \A v \in Writers : pc'[v] \in {"find", "create"} => at'[v] \in Records
    <3> SUFFICES ASSUME NEW v \in Writers, pc'[v] \in {"find", "create"} PROVE at[v] \in Records
      OBVIOUS
    <3>1. CASE pc'[v] = pc[v]
      BY <3>1, <1>0 DEF TypeOK
    <3>2. CASE at[v] = 1
      BY <3>2, BoundsAssumption DEF Records
    <3> QED BY <3>1, <3>2, <1>2
  <2> QED BY <2>1, <1>0, <1>1, <1>2 DEF TypeOK
<1>4. Covered'
  BY <1>0, <1>1, CoveredGrows
<1>5. Current'
  <2> SUFFICES ASSUME timeouts = 0, NEW v \in Writers, pc'[v] \in {"find", "create"}
               PROVE  Awaited(v)'
    BY DEF Current, Active
  <2>1. CASE pc'[v] = pc[v] /\ v # w
    <3>1. Awaited(v) /\ Awaited(w)
      BY <2>1 DEF SinkInv, Current, Active
    <3>2. v[1] # w[1]
      BY <3>1, <2>1, WriterParts DEF Awaited
    <3> QED BY <3>1, <3>2, <1>2
  <2> QED BY <2>1, <1>2
<1>6. Refusing'
  <2> SUFFICES ASSUME unique, NEW k \in Records PROVE rows'[k] <= 1
    BY DEF Refusing
  <2>1. rows[k] <= 1 /\ rows[k] \in Nat
    BY <1>0 DEF SinkInv, Refusing
  <2> QED BY <2>1, <1>1
<1>7. Alone'
  <2> SUFFICES ASSUME OneWriter'
               PROVE  /\ \A k \in Records : rows'[k] <= 1
                      /\ \A v \in Writers : pc'[v] # "create"
    BY DEF Alone
  <2>1. OneWriter
    BY <1>0, <1>2, BoundsAssumption DEF OneWriter, TypeOK
  <2>2. ASSUME NEW k \in Records PROVE rows'[k] <= 1
    <3>1. rows[k] <= 1 /\ rows[k] \in Nat
      BY <2>1, <1>0 DEF SinkInv, Alone
    <3>2. ASSUME rows'[k] # rows[k] PROVE rows[k] = 0 /\ rows'[k] = rows[k] + 1
      BY <3>2, <2>1, <1>1 DEF SinkInv, Alone
    <3> QED BY <3>1, <3>2
  <2>3. ASSUME NEW v \in Writers, pc'[v] = "create" PROVE FALSE
    <3>1. pc[v] = "create" /\ v # w
      BY <2>3, <1>2
    <3> QED BY <3>1, <2>1, AloneAtWork DEF Active
  <2> QED BY <2>2, <2>3
<1> QED BY <1>2, <1>3, <1>4, <1>5, <1>6, <1>7 DEF SinkInv

(* A writer is through with its record, which is in the sink by then.      *)
LEMMA NextRecordKeepsSinkInv ==
  ASSUME SinkInv, NEW w \in Writers, Active(w), NextRecord(w),
         UNCHANGED <<unique, errors, timeouts>>,
         \/ /\ rows[at[w]] > 0 /\ rows' = rows
            /\ result' = [result EXCEPT ![w].skipped = @ + 1]
         \/ /\ pc[w] = "create" /\ ~ Refused(at[w])
            /\ rows' = [rows EXCEPT ![at[w]] = @ + 1]
            /\ result' = [result EXCEPT ![w].inserted = @ + 1]
  PROVE  SinkInv'
<1> DEFINE r == w[1]
<1>0. /\ TypeOK /\ Fresh /\ Phases /\ Covered /\ Through
      /\ rows \in [Records -> Nat] /\ at[w] \in Records /\ r \in Runs /\ Count \in Nat \ {0}
      /\ pc \in [Writers -> {"idle", "find", "create", "ended"}]
      /\ at \in [Writers -> 1 .. (Count + 1)]
      /\ outcome \in [Runs -> {"none", "running", "ok", "failed"}]
      /\ attempt \in [Runs -> 0 .. MaxAttempts]
      /\ result \in [Writers -> [inserted : 0 .. Count, skipped : 0 .. Count]]
  BY WriterParts, BoundsAssumption DEF SinkInv, TypeOK, Active
<1>1. /\ at' = [at EXCEPT ![w] = at[w] + 1]
      /\ pc' = [pc EXCEPT ![w] = IF at[w] < Count THEN "find" ELSE "ended"]
      /\ outcome' = IF at[w] = Count /\ Awaited(w) THEN [outcome EXCEPT ![r] = "ok"] ELSE outcome
      /\ attempt' = attempt
  BY DEF NextRecord
<1>2. /\ rows' \in [Records -> Nat] /\ rows'[at[w]] > 0
      /\ \A k \in Records : rows'[k] >= rows[k]
      /\ \A k \in Records : rows'[k] # rows[k] =>
           k = at[w] /\ rows'[k] = rows[k] + 1 /\ pc[w] = "create" /\ (unique => rows[k] = 0)
  BY <1>0 DEF Refused
<1>3. /\ \A v \in Writers : v # w => at'[v] = at[v] /\ pc'[v] = pc[v] /\ result'[v] = result[v]
      /\ at'[w] = at[w] + 1 /\ at'[w] \in 1 .. (Count + 1) /\ at' \in [Writers -> 1 .. (Count + 1)]
      /\ pc'[w] = IF at[w] < Count THEN "find" ELSE "ended"
      /\ pc' \in [Writers -> {"idle", "find", "create", "ended"}]
  BY <1>0, <1>1 DEF Records
<1>4. /\ result'[w].inserted + result'[w].skipped = at[w]
      /\ result' \in [Writers -> [inserted : 0 .. Count, skipped : 0 .. Count]]
  <2>1. /\ result[w].inserted + result[w].skipped = at[w] - 1
        /\ result[w].inserted \in 0 .. Count /\ result[w].skipped \in 0 .. Count
        /\ at[w] \in 1 .. Count
    BY <1>0 DEF Covered, Records
  <2>2. result[w].inserted + 1 \in 0 .. Count /\ result[w].skipped + 1 \in 0 .. Count
    BY <2>1, <1>0
  <2>3. CASE result' = [result EXCEPT ![w].skipped = @ + 1]
    <3>1. result' = [result EXCEPT ![w] = [result[w] EXCEPT !.skipped = result[w].skipped + 1]]
      BY <2>3
    <3>2. /\ [result[w] EXCEPT !.skipped = result[w].skipped + 1] \in [inserted : 0 .. Count, skipped : 0 .. Count]
          /\ [result[w] EXCEPT !.skipped = result[w].skipped + 1].skipped = result[w].skipped + 1
          /\ [result[w] EXCEPT !.skipped = result[w].skipped + 1].inserted = result[w].inserted
      BY <2>2, <1>0
    <3>3. /\ result'[w] = [result[w] EXCEPT !.skipped = result[w].skipped + 1]
          /\ result' \in [Writers -> [inserted : 0 .. Count, skipped : 0 .. Count]]
      BY <3>1, <3>2, <1>0
    <3>4. result'[w].skipped = result[w].skipped + 1 /\ result'[w].inserted = result[w].inserted
      BY <3>2, <3>3
    <3> QED BY <3>3, <3>4, <2>1
  <2>4. CASE result' = [result EXCEPT ![w].inserted = @ + 1]
    <3>1. result' = [result EXCEPT ![w] = [result[w] EXCEPT !.inserted = result[w].inserted + 1]]
      BY <2>4
    <3>2. /\ [result[w] EXCEPT !.inserted = result[w].inserted + 1] \in [inserted : 0 .. Count, skipped : 0 .. Count]
          /\ [result[w] EXCEPT !.inserted = result[w].inserted + 1].inserted = result[w].inserted + 1
          /\ [result[w] EXCEPT !.inserted = result[w].inserted + 1].skipped = result[w].skipped
      BY <2>2, <1>0
    <3>3. /\ result'[w] = [result[w] EXCEPT !.inserted = result[w].inserted + 1]
          /\ result' \in [Writers -> [inserted : 0 .. Count, skipped : 0 .. Count]]
      BY <3>1, <3>2, <1>0
    <3>4. result'[w].inserted = result[w].inserted + 1 /\ result'[w].skipped = result[w].skipped
      BY <3>2, <3>3
    <3> QED BY <3>3, <3>4, <2>1
  <2> QED BY <2>3, <2>4
<1>5. outcome' \in [Runs -> {"none", "running", "ok", "failed"}]
  BY <1>0, <1>1
<1>6. TypeOK'
  <2>1. ASSUME NEW v \in Writers, pc'[v] \in {"find", "create"} PROVE at'[v] \in Records
    <3>1. CASE v = w
      <4>1. at[w] < Count /\ at[w] \in 1 .. Count
        BY <2>1, <3>1, <1>0, <1>3 DEF Records
      <4>2. at[w] + 1 \in 1 .. Count
        BY <4>1, <1>0
      <4> QED BY <4>2, <3>1, <1>3 DEF Records
    <3>2. CASE v # w
      BY <2>1, <3>2, <1>0, <1>3 DEF TypeOK
    <3> QED BY <3>1, <3>2
  <2> QED BY <2>1, <1>0, <1>1, <1>2, <1>3, <1>4, <1>5 DEF TypeOK
<1>7. Fresh'
  <2>1. ~ (w[2] > attempt[r])
    BY <1>0 DEF Fresh, Active
  <2> QED BY <2>1, <1>0, <1>1, <1>3 DEF Fresh
<1>8. Phases'
  BY <1>0, <1>1 DEF Phases, Awaited
<1>9. Covered'
  <2> SUFFICES ASSUME NEW v \in Writers
               PROVE  /\ result'[v].inserted + result'[v].skipped = at'[v] - 1
                      /\ \A k \in Records : k < at'[v] => rows'[k] > 0
    BY DEF Covered
  <2>1. ASSUME NEW k \in Records, k < at[v] PROVE rows'[k] > 0
    <3>1. rows[k] > 0 /\ rows[k] \in Nat /\ rows'[k] \in Nat /\ rows'[k] >= rows[k]
      BY <2>1, <1>0, <1>2 DEF Covered
    <3> QED BY <3>1
  <2>2. CASE v = w
    <3>1. \A k \in Records : k < at[w] + 1 => k < at[w] \/ k = at[w]
      BY <1>0 DEF Records
    <3>2. \A k \in Records : k < at'[w] => rows'[k] > 0
      BY <3>1, <2>1, <2>2, <1>2, <1>3
    <3>3. at[w] = at'[w] - 1
      BY <1>0, <1>3 DEF Records
    <3>4. result'[w].inserted + result'[w].skipped = at'[w] - 1
      BY <3>3, <1>4
    <3> QED BY <3>2, <3>4, <2>2
  <2>3. CASE v # w
    BY <2>1, <2>3, <1>0, <1>3 DEF Covered
  <2> QED BY <2>2, <2>3
<1>10. Through'
  <2> SUFFICES ASSUME NEW q \in Runs, outcome'[q] = "ok" PROVE at'[<<q, attempt[q]>>] = Count + 1
    BY <1>1 DEF Through
  <2>1. CASE outcome[q] = "ok"
    <3>1. at[<<q, attempt[q]>>] = Count + 1
      BY <2>1, <1>0 DEF Through
    <3>2. <<q, attempt[q]>> # w
      <4>1. at[w] # Count + 1
        BY <1>0 DEF Records
      <4> QED BY <3>1, <4>1
    <3>3. attempt[q] \in 1 .. MaxAttempts
      BY <2>1, <1>0 DEF Phases
    <3> QED BY <3>1, <3>2, <3>3, <1>3, WriterParts
  <2>2. CASE outcome[q] # "ok"
    <3>1. q = r /\ at[w] = Count /\ Awaited(w)
      BY <2>2, <1>0, <1>1
    <3>2. <<q, attempt[q]>> = w
      BY <3>1, WriterParts DEF Awaited
    <3> QED BY <3>1, <3>2, <1>3
  <2> QED BY <2>1, <2>2
<1>11. Current'
  <2> SUFFICES ASSUME timeouts = 0, NEW v \in Writers, pc'[v] \in {"find", "create"}
               PROVE  outcome'[v[1]] = "running" /\ attempt[v[1]] = v[2]
    BY <1>1 DEF Current, Active, Awaited
  <2>1. Active(v)
    BY <1>3 DEF Active
  <2>2. Awaited(v) /\ Awaited(w)
    BY <2>1 DEF SinkInv, Current
  <2>3. ASSUME at[w] = Count PROVE v[1] # r
    <3>1. v # w
      BY <2>3, <1>0, <1>3
    <3> QED BY <3>1, <2>2, WriterParts DEF Awaited
  <2> QED BY <2>2, <2>3, <1>0, <1>1, WriterParts DEF Awaited
<1>12. Refusing'
  <2> SUFFICES ASSUME unique, NEW k \in Records PROVE rows'[k] <= 1
    BY DEF Refusing
  <2>1. rows[k] <= 1 /\ rows[k] \in Nat
    BY <1>0 DEF SinkInv, Refusing
  <2> QED BY <2>1, <1>2
<1>13. Alone'
  <2> SUFFICES ASSUME OneWriter'
               PROVE  /\ \A k \in Records : rows'[k] <= 1
                      /\ \A v \in Writers : pc'[v] # "create"
    BY DEF Alone
  <2>1. OneWriter
    BY <1>1 DEF OneWriter
  <2>2. ASSUME NEW k \in Records PROVE rows'[k] <= 1
    <3>1. rows[k] <= 1 /\ rows[k] \in Nat
      BY <2>1, <1>0 DEF SinkInv, Alone
    <3>2. ASSUME rows'[k] # rows[k] PROVE rows[k] = 0 /\ rows'[k] = rows[k] + 1
      BY <3>2, <2>1, <1>2 DEF SinkInv, Alone
    <3> QED BY <3>1, <3>2
  <2>3. ASSUME NEW v \in Writers, pc'[v] = "create" PROVE FALSE
    <3>1. pc[v] = "create" /\ v # w
      BY <2>3, <1>3
    <3> QED BY <3>1, <2>1, AloneAtWork DEF Active
  <2> QED BY <2>2, <2>3
<1> QED BY <1>6, <1>7, <1>8, <1>9, <1>10, <1>11, <1>12, <1>13 DEF SinkInv

(* A time-out leaves the attempt at work and starts the next one.          *)
LEMMA TimeoutKeepsSinkInv ==
  ASSUME SinkInv, NEW r \in Runs, Timeout(r)
  PROVE  SinkInv'
<1>0. /\ TypeOK /\ Fresh /\ Phases /\ Covered /\ Through
      /\ pc \in [Writers -> {"idle", "find", "create", "ended"}]
      /\ outcome[r] = "running" /\ Retry(r, pc) /\ timeouts' = timeouts + 1
      /\ timeouts' \in 0 .. MaxTimeouts /\ timeouts' # 0
      /\ UNCHANGED <<unique, rows, at, result, errors>>
  BY BoundsAssumption DEF SinkInv, TypeOK, Timeout
<1>1. /\ attempt' \in [Runs -> 0 .. MaxAttempts]
      /\ pc' \in [Writers -> {"idle", "find", "create", "ended"}]
      /\ outcome' \in [Runs -> {"none", "running", "ok", "failed"}]
      /\ Fresh' /\ Phases' /\ Through'
      /\ \A v \in Writers : pc'[v] \in {"find", "create"} => pc'[v] = pc[v] \/ at[v] = 1
  BY <1>0, RetryFacts
<1>2. TypeOK'
  <2>1. \A v \in Writers : pc'[v] \in {"find", "create"} => at'[v] \in Records
    BY <1>0, <1>1, BoundsAssumption DEF TypeOK, Records
  <2> QED BY <2>1, <1>0, <1>1 DEF TypeOK
<1>3. Covered'
  BY <1>0 DEF Covered
<1>4. Current' /\ Refusing' /\ Alone'
  BY <1>0 DEF SinkInv, Current, Refusing, Alone, OneWriter
<1> QED BY <1>1, <1>2, <1>3, <1>4 DEF SinkInv

(* A run starts its first attempt.                                         *)
LEMMA StartKeepsSinkInv ==
  ASSUME SinkInv, NEW r \in Runs, Start(r)
  PROVE  SinkInv'
<1> DEFINE n == <<r, 1>>
<1>0. /\ TypeOK /\ Fresh /\ Phases /\ Covered /\ Through
      /\ pc \in [Writers -> {"idle", "find", "create", "ended"}]
      /\ outcome \in [Runs -> {"none", "running", "ok", "failed"}]
      /\ attempt \in [Runs -> 0 .. MaxAttempts] /\ MaxAttempts \in Nat \ {0}
      /\ outcome[r] = "none" /\ attempt[r] = 0
      /\ outcome' = [outcome EXCEPT ![r] = "running"]
      /\ attempt' = [attempt EXCEPT ![r] = 1]
      /\ pc' = [pc EXCEPT ![n] = "find"]
      /\ UNCHANGED <<unique, rows, at, result, errors, timeouts>>
  BY BoundsAssumption DEF SinkInv, TypeOK, Start, Phases
<1>1. 1 \in 1 .. MaxAttempts /\ n \in Writers /\ n[1] = r /\ n[2] = 1
  BY <1>0, WriterParts
<1>2. pc[n] = "idle" /\ at[n] = 1
  BY <1>0, <1>1 DEF Fresh
<1>3. /\ \A v \in Writers : pc'[v] = IF v = n THEN "find" ELSE pc[v]
      /\ \A q \in Runs : attempt'[q] = IF q = r THEN 1 ELSE attempt[q]
      /\ \A q \in Runs : outcome'[q] = IF q = r THEN "running" ELSE outcome[q]
  BY <1>0
<1>4. TypeOK'
  <2>1. ASSUME NEW v \in Writers, pc'[v] \in {"find", "create"} PROVE at'[v] \in Records
    <3>1. CASE v = n
      BY <3>1, <1>0, <1>2, BoundsAssumption DEF Records
    <3>2. CASE v # n
      <4>1. pc[v] \in {"find", "create"}
        BY <2>1, <3>2, <1>3
      <4> QED BY <4>1, <1>0 DEF TypeOK
    <3> QED BY <3>1, <3>2
  <2>2. attempt' \in [Runs -> 0 .. MaxAttempts]
    BY <1>0
  <2>3. pc' \in [Writers -> {"idle", "find", "create", "ended"}]
    BY <1>0
  <2>4. outcome' \in [Runs -> {"none", "running", "ok", "failed"}]
    BY <1>0
  <2> QED BY <2>1, <2>2, <2>3, <2>4, <1>0 DEF TypeOK
<1>5. Fresh'
  <2> SUFFICES ASSUME NEW v \in Writers, v[2] > attempt'[v[1]] PROVE pc'[v] = "idle" /\ at'[v] = 1
    BY DEF Fresh
  <2>1. v[1] \in Runs /\ v[2] \in Nat
    BY WriterParts
  <2>2. v[2] > attempt[v[1]] /\ v # n
    BY <2>1, <1>0, <1>1, <1>3
  <2> QED BY <2>2, <1>0, <1>3 DEF Fresh
<1>6. Phases' /\ Covered'
  BY <1>0, <1>3 DEF Phases, Covered
<1>7. Through'
  BY <1>0, <1>3 DEF Through
<1>8. Current'
  <2> SUFFICES ASSUME timeouts = 0, NEW v \in Writers, pc'[v] \in {"find", "create"}
               PROVE  Awaited(v)'
    BY <1>0 DEF Current, Active
  <2>1. CASE v = n
    BY <2>1, <1>1, <1>3, <1>0 DEF Awaited
  <2>2. CASE v # n
    <3>1. Awaited(v)
      BY <2>2, <1>3 DEF SinkInv, Current, Active
    <3> QED BY <3>1, <1>0, <1>3, WriterParts DEF Awaited
  <2> QED BY <2>1, <2>2
<1>9. Refusing'
  BY <1>0 DEF SinkInv, Refusing
<1>10. Alone'
  <2> SUFFICES ASSUME OneWriter'
               PROVE  /\ \A k \in Records : rows[k] <= 1
                      /\ \A v \in Writers : pc'[v] = "create" => rows[at[v]] = 0
    BY <1>0 DEF Alone
  <2>1. OneWriter
    BY <1>0, <1>3 DEF OneWriter
  <2> QED BY <2>1, <1>3 DEF SinkInv, Alone
<1> QED BY <1>4, <1>5, <1>6, <1>7, <1>8, <1>9, <1>10 DEF SinkInv

(* The record was not found: the writer goes on to create it.              *)
LEMMA MissKeepsSinkInv ==
  ASSUME SinkInv, NEW w \in Writers, Find(w), ~ (rows[at[w]] > 0)
  PROVE  SinkInv'
<1>0. /\ TypeOK /\ Fresh /\ Phases /\ Covered /\ Through
      /\ pc[w] = "find" /\ pc' = [pc EXCEPT ![w] = "create"]
      /\ UNCHANGED <<unique, rows, at, result, attempt, outcome, errors, timeouts>>
  BY DEF SinkInv, Find
<1>1. \A v \in Writers : pc'[v] = IF v = w THEN "create" ELSE pc[v]
  BY <1>0 DEF TypeOK
<1>2. rows[at[w]] = 0
  BY <1>0 DEF TypeOK
<1>3. TypeOK'
  BY <1>0 DEF TypeOK
<1>4. Fresh' /\ Phases' /\ Covered' /\ Through' /\ Refusing'
  BY <1>0, <1>1 DEF SinkInv, Fresh, Phases, Covered, Through, Refusing
<1>5. Current'
  BY <1>0, <1>1 DEF SinkInv, Current, Active, Awaited
<1>6. Alone'
  BY <1>0, <1>1, <1>2 DEF SinkInv, Alone, OneWriter
<1> QED BY <1>3, <1>4, <1>5, <1>6 DEF SinkInv

(* Every step keeps the invariant.                                         *)
LEMMA SinkStep ==
  ASSUME SinkInv, [Next]_vars
  PROVE  SinkInv'
<1>1. ASSUME NEW r \in Runs, Start(r) \/ Timeout(r) PROVE SinkInv'
  BY <1>1, StartKeepsSinkInv, TimeoutKeepsSinkInv
<1>2. ASSUME NEW w \in Writers, Find(w) PROVE SinkInv'
  <2>1. CASE rows[at[w]] > 0
    BY <1>2, <2>1, NextRecordKeepsSinkInv DEF Find, Active
  <2>2. CASE ~ (rows[at[w]] > 0)
    BY <1>2, <2>2, MissKeepsSinkInv
  <2> QED BY <2>1, <2>2
<1>3. ASSUME NEW w \in Writers, Create(w) PROVE SinkInv'
  <2>1. CASE Refused(at[w])
    <3>1. errors' \in 0 .. MaxErrors
      BY <1>3 DEF Create, SinkInv, TypeOK
    <3> QED BY <1>3, <2>1, <3>1, FailureKeepsSinkInv DEF Create, Active
  <2>2. CASE ~ Refused(at[w])
    BY <1>3, <2>2, NextRecordKeepsSinkInv DEF Create, Active
  <2> QED BY <2>1, <2>2
<1>4. ASSUME NEW w \in Writers, CallFails(w) PROVE SinkInv'
  <2>1. errors' \in 0 .. MaxErrors
    BY <1>4, BoundsAssumption DEF CallFails, SinkInv, TypeOK
  <2> QED BY <1>4, <2>1, FailureKeepsSinkInv DEF CallFails, Active
<1>5. CASE UNCHANGED vars
  <2>1. UNCHANGED <<unique, rows, pc, at, result, attempt, outcome, errors, timeouts>>
    BY <1>5 DEF vars, writerVars
  <2> QED BY <2>1 DEF SinkInv, TypeOK, Fresh, Phases, Covered, Through, Current, Refusing, Alone,
                      OneWriter, Active, Awaited
<1> QED BY <1>1, <1>2, <1>3, <1>4, <1>5 DEF Next

(* The invariant holds whatever fails or times out.                        *)
LEMMA SinkInvariant == Spec => []SinkInv
<1>1. Init => SinkInv
  BY SinkInit
<1>2. SinkInv /\ [Next]_vars => SinkInv'
  BY SinkStep
<1> QED BY <1>1, <1>2, PTL DEF Spec

(* The types of the sink, its writers and its runs.                        *)
THEOREM SinkTypes == Spec => []TypeOK
<1>1. SinkInv => TypeOK
  BY DEF SinkInv
<1> QED BY <1>1, SinkInvariant, PTL

(* A record is created twice only where CreateFunc allows it and two       *)
(* attempts overlap: never by the retries of one run without time-outs,    *)
(* however often an attempt fails half-way and starts over.                *)
THEOREM RecordsAreCreatedOnce == Spec => []NoDuplicates
<1>1. SinkInv => NoDuplicates
  BY DEF SinkInv, Refusing, Alone, NoDuplicates
<1> QED BY <1>1, SinkInvariant, PTL

(* A run that succeeds has every record of its batch in the sink, and its  *)
(* result accounts for each of them once.                                  *)
THEOREM SuccessfulRunCoversItsBatch == Spec => []SuccessCovers
<1>1. SinkInv => SuccessCovers
  <2> SUFFICES ASSUME SinkInv, NEW r \in Runs, outcome[r] = "ok"
               PROVE  /\ \A k \in Records : rows[k] > 0
                      /\ Reported(r).inserted + Reported(r).skipped = Count
    BY DEF SuccessCovers, Succeeded
  <2> DEFINE w == <<r, attempt[r]>>
  <2>1. attempt[r] \in 1 .. MaxAttempts /\ at[w] = Count + 1 /\ Count \in Nat
    BY BoundsAssumption DEF SinkInv, Phases, Through, TypeOK
  <2>2. w \in Writers
    BY <2>1, WriterParts
  <2>3. \A k \in Records : k < Count + 1
    BY <2>1 DEF Records
  <2> QED BY <2>1, <2>2, <2>3 DEF SinkInv, Covered, Reported
<1> QED BY <1>1, SinkInvariant, PTL

-----------------------------------------------------------------------------
(* The rows the writers claim                                              *)

(* What each writer reports as inserted.                                   *)
Claims == [w \in Writers |-> result[w].inserted]

Claimed == SumFunctionOnSet(Claims, Writers)

Stored == SumFunctionOnSet(rows, Records)

(* All writers, successful or not, claim at most the rows there are: a     *)
(* create that failed may have added a row nobody claims.                  *)
ClaimsBacked == Claimed <= Stored

(* What the sums range over.                                               *)
LEMMA ClaimTypes ==
  ASSUME TypeOK
  PROVE  /\ IsFiniteSet(Writers) /\ IsFiniteSet(Records)
         /\ \A w \in Writers : Claims[w] = result[w].inserted /\ Claims[w] \in Nat
         /\ \A k \in Records : rows[k] \in Nat
         /\ Claimed \in Nat /\ Stored \in Nat
<1>1. IsFiniteSet(1 .. MaxAttempts) /\ IsFiniteSet(Records)
  BY BoundsAssumption, FS_Interval DEF Records
<1>2. IsFiniteSet(Writers)
  BY <1>1, BoundsAssumption, FS_Product DEF Writers
<1>3. ASSUME NEW w \in Writers PROVE Claims[w] = result[w].inserted /\ Claims[w] \in Nat
  <2>1. result[w] \in [inserted : 0 .. Count, skipped : 0 .. Count]
    BY DEF TypeOK
  <2>2. result[w].inserted \in 0 .. Count
    BY <2>1
  <2> QED BY <2>2, BoundsAssumption DEF Claims
<1>4. \A k \in Records : rows[k] \in Nat
  BY DEF TypeOK
<1>5. Claimed \in Nat
  BY <1>2, <1>3, SumRemove DEF Claimed
<1>6. Stored \in Nat
  BY <1>1, <1>4, SumRemove DEF Stored
<1> QED BY <1>1, <1>2, <1>3, <1>4, <1>5, <1>6

(* Nobody claims anything before the runs start.                           *)
LEMMA ClaimsInit ==
  ASSUME Init
  PROVE  ClaimsBacked
<1>1. TypeOK
  BY SinkInit DEF SinkInv
<1>2. \A w \in Writers : Claims[w] = 0
  BY DEF Init, Claims, NoResult
<1>3. Claimed = 0
  BY <1>1, <1>2, ClaimTypes, SumZero DEF Claimed
<1> QED BY <1>1, <1>3, ClaimTypes DEF ClaimsBacked

(* A step that adds a row to the sink, a claim, or both, in this order.    *)
LEMMA RowAdded ==
  ASSUME TypeOK, TypeOK', NEW k \in Records, rows' = [rows EXCEPT ![k] = @ + 1]
  PROVE  Stored' = Stored + 1
<1>1. IsFiniteSet(Records) /\ \A j \in Records : rows[j] \in Nat
  BY ClaimTypes
<1>2. \A j \in Records : rows'[j] = IF j = k THEN rows[j] + 1 ELSE rows[j]
  BY DEF TypeOK
<1>3. SumFunctionOnSet(rows', Records) = SumFunctionOnSet(rows, Records) + 1
  BY <1>1, <1>2, SumBump
<1> QED BY <1>3 DEF Stored

LEMMA ClaimAdded ==
  ASSUME TypeOK, TypeOK', NEW w \in Writers, result' = [result EXCEPT ![w].inserted = @ + 1]
  PROVE  Claimed' = Claimed + 1
<1>1. IsFiniteSet(Writers) /\ \A v \in Writers : Claims[v] \in Nat
  BY ClaimTypes
<1>2. ASSUME NEW v \in Writers PROVE Claims'[v] = IF v = w THEN Claims[v] + 1 ELSE Claims[v]
  <2>1. /\ result \in [Writers -> [inserted : 0 .. Count, skipped : 0 .. Count]]
        /\ Claims[v] = result[v].inserted /\ Claims'[v] = result'[v].inserted
    BY DEF TypeOK, Claims
  <2>2. result' = [result EXCEPT ![w] = [result[w] EXCEPT !.inserted = result[w].inserted + 1]]
    OBVIOUS
  <2>3. result'[v] = IF v = w THEN [result[w] EXCEPT !.inserted = result[w].inserted + 1] ELSE result[v]
    BY <2>1, <2>2
  <2>4. [result[w] EXCEPT !.inserted = result[w].inserted + 1].inserted = result[w].inserted + 1
    BY <2>1
  <2> QED BY <2>1, <2>3, <2>4
<1> DEFINE C == Claims'
<1>3. SumFunctionOnSet(C, Writers) = SumFunctionOnSet(Claims, Writers) + 1
  <2>1. \A v \in Writers : C[v] = IF v = w THEN Claims[v] + 1 ELSE Claims[v]
    BY <1>2
  <2> HIDE DEF C
  <2> QED BY <1>1, <2>1, SumBump
<1> QED BY <1>3 DEF Claimed

LEMMA SkipClaimsNothing ==
  ASSUME TypeOK, NEW w \in Writers, result' = [result EXCEPT ![w].skipped = @ + 1]
  PROVE  Claimed' = Claimed
<1>1. ASSUME NEW v \in Writers PROVE result'[v].inserted = result[v].inserted
  <2>1. result \in [Writers -> [inserted : 0 .. Count, skipped : 0 .. Count]]
    BY DEF TypeOK
  <2>2. result' = [result EXCEPT ![w] = [result[w] EXCEPT !.skipped = result[w].skipped + 1]]
    OBVIOUS
  <2>3. result'[v] = IF v = w THEN [result[w] EXCEPT !.skipped = result[w].skipped + 1] ELSE result[v]
    BY <2>1, <2>2
  <2>4. [result[w] EXCEPT !.skipped = result[w].skipped + 1].inserted = result[w].inserted
    BY <2>1
  <2> QED BY <2>3, <2>4
<1>2. Claims' = Claims
  BY <1>1 DEF Claims
<1> QED BY <1>2 DEF Claimed

(* No step claims a row that it does not add.                              *)
LEMMA ClaimsStep ==
  ASSUME SinkInv, ClaimsBacked, [Next]_vars
  PROVE  ClaimsBacked'
<1>0. TypeOK /\ TypeOK'
  BY SinkStep DEF SinkInv
<1>1. Claimed \in Nat /\ Stored \in Nat /\ Claimed <= Stored
  BY <1>0, ClaimTypes DEF ClaimsBacked
<1>2. ASSUME UNCHANGED <<rows, result>> PROVE Claimed' = Claimed /\ Stored' = Stored
  BY <1>2 DEF Claimed, Claims, Stored
<1>3. SUFFICES \/ Claimed' = Claimed /\ Stored' = Stored
               \/ Claimed' = Claimed /\ Stored' = Stored + 1
               \/ Claimed' = Claimed + 1 /\ Stored' = Stored + 1
  BY <1>1 DEF ClaimsBacked
<1>4. ASSUME NEW r \in Runs, Start(r) \/ Timeout(r) PROVE UNCHANGED <<rows, result>>
  BY <1>4 DEF Start, Timeout
<1>5. ASSUME NEW w \in Writers, Find(w) PROVE Claimed' = Claimed /\ Stored' = Stored
  <2>1. rows' = rows /\ (result' = result \/ result' = [result EXCEPT ![w].skipped = @ + 1])
    BY <1>5 DEF Find
  <2>2. Stored' = Stored
    BY <2>1 DEF Stored
  <2> QED BY <2>1, <2>2, <1>0, <1>2, SkipClaimsNothing
<1>6. ASSUME NEW w \in Writers, Create(w)
      PROVE  \/ Claimed' = Claimed /\ Stored' = Stored
             \/ Claimed' = Claimed + 1 /\ Stored' = Stored + 1
  <2>1. CASE Refused(at[w])
    BY <1>6, <2>1, <1>2 DEF Create
  <2>2. CASE ~ Refused(at[w])
    <3>1. /\ at[w] \in Records
          /\ rows' = [rows EXCEPT ![at[w]] = @ + 1]
          /\ result' = [result EXCEPT ![w].inserted = @ + 1]
      BY <1>6, <2>2, <1>0 DEF Create, TypeOK
    <3> QED BY <3>1, <1>0, RowAdded, ClaimAdded
  <2> QED BY <2>1, <2>2
<1>7. ASSUME NEW w \in Writers, CallFails(w)
      PROVE  Claimed' = Claimed /\ (Stored' = Stored \/ Stored' = Stored + 1)
  <2>1. at[w] \in Records /\ result' = result
    BY <1>7, <1>0 DEF CallFails, TypeOK
  <2>2. Claimed' = Claimed
    BY <2>1 DEF Claimed, Claims
  <2>3. CASE rows' = rows
    BY <2>2, <2>3 DEF Stored
  <2>4. CASE rows' = [rows EXCEPT ![at[w]] = @ + 1]
    BY <2>1, <2>2, <2>4, <1>0, RowAdded
  <2> QED BY <1>7, <2>3, <2>4 DEF CallFails
<1>8. ASSUME UNCHANGED vars PROVE UNCHANGED <<rows, result>>
  BY <1>8 DEF vars, writerVars
<1> QED BY <1>2, <1>4, <1>5, <1>6, <1>7, <1>8 DEF Next

(* The successful runs are among the writers.                              *)
LEMMA SuccessesAmongClaims ==
  ASSUME SinkInv
  PROVE  SumFunction([r \in Succeeded |-> Reported(r).inserted]) <= Claimed
<1> DEFINE f == [r \in Succeeded |-> Reported(r).inserted]
           h == [r \in Succeeded |-> <<r, attempt[r]>>]
<1>1. IsFiniteSet(Succeeded) /\ DOMAIN f = Succeeded
  BY BoundsAssumption, FS_Subset DEF Succeeded
<1>2. ASSUME NEW r \in Succeeded
      PROVE  h[r] \in Writers /\ h[r][1] = r /\ f[r] = Claims[h[r]] /\ f[r] \in Nat
  <2>1. r \in Runs /\ attempt[r] \in 1 .. MaxAttempts
    BY BoundsAssumption DEF SinkInv, Phases, TypeOK, Succeeded
  <2>2. h[r] = <<r, attempt[r]>> /\ h[r] \in Writers
    BY <2>1, WriterParts
  <2>3. f[r] = result[<<r, attempt[r]>>].inserted
    BY DEF Reported
  <2>4. Claims[h[r]] = result[h[r]].inserted /\ Claims[h[r]] \in Nat
    <3> HIDE DEF h
    <3> QED BY <2>2, ClaimTypes DEF SinkInv
  <2> QED BY <2>2, <2>3, <2>4
<1>3. \A r \in Succeeded : f[r] \in Nat /\ h[r] \in Writers /\ f[r] <= Claims[h[r]]
  <2> SUFFICES ASSUME NEW r \in Succeeded PROVE f[r] \in Nat /\ h[r] \in Writers /\ f[r] <= Claims[h[r]]
    OBVIOUS
  <2> HIDE DEF f, h
  <2> QED BY <1>2
<1>4. \A r, q \in Succeeded : h[r] = h[q] => r = q
  <2> HIDE DEF f, h
  <2> QED BY <1>2
<1>5. IsFiniteSet(Writers) /\ \A w \in Writers : Claims[w] \in Nat
  BY ClaimTypes DEF SinkInv
<1>6. SumFunctionOnSet(f, Succeeded) <= Claimed
  <2> HIDE DEF f, h
  <2> QED BY <1>1, <1>3, <1>4, <1>5, SumInto DEF Claimed
<1>7. SumFunction(f) = SumFunctionOnSet(f, Succeeded)
  BY <1>1 DEF SumFunction
<1> QED BY <1>6, <1>7

(* The successful runs together report no more inserted rows than the sink *)
(* holds, whatever attempts of the same or of other runs fail, time out or *)
(* go on beside them.                                                      *)
THEOREM SuccessIsNotOverstated == Spec => []SuccessIsComplete
<1>1. Init => SinkInv /\ ClaimsBacked
  BY SinkInit, ClaimsInit
<1>2. SinkInv /\ ClaimsBacked /\ [Next]_vars => (SinkInv /\ ClaimsBacked)'
  BY SinkStep, ClaimsStep
<1>3. SinkInv /\ ClaimsBacked
        => SumFunction([r \in Succeeded |-> Reported(r).inserted]) <= SumFunction(rows)
  <2> SUFFICES ASSUME SinkInv, ClaimsBacked
               PROVE  SumFunction([r \in Succeeded |-> Reported(r).inserted]) <= SumFunction(rows)
    OBVIOUS
  <2> DEFINE reported == SumFunction([r \in Succeeded |-> Reported(r).inserted])
  <2>1. reported <= Claimed /\ Claimed <= Stored /\ Claimed \in Nat /\ Stored \in Nat
    BY SuccessesAmongClaims, ClaimTypes DEF SinkInv, ClaimsBacked
  <2>2. reported \in Nat
    <3> DEFINE f == [r \in Succeeded |-> Reported(r).inserted]
    <3>1. IsFiniteSet(Succeeded) /\ DOMAIN f = Succeeded
      BY BoundsAssumption, FS_Subset DEF Succeeded
    <3>2. ASSUME NEW r \in Succeeded PROVE f[r] \in Nat
      <4>1. r \in Runs /\ attempt[r] \in 1 .. MaxAttempts
        BY BoundsAssumption DEF SinkInv, Phases, TypeOK, Succeeded
      <4>2. <<r, attempt[r]>> \in Writers
        BY <4>1, WriterParts
      <4> QED BY <4>2, ClaimTypes DEF SinkInv, Reported
    <3>3. SumFunctionOnSet(f, Succeeded) \in Nat
      <4> HIDE DEF f
      <4> QED BY <3>1, <3>2, SumRemove
    <3> QED BY <3>1, <3>3 DEF SumFunction
  <2>3. Stored = SumFunction(rows)
    BY DEF Stored, SumFunction, SinkInv, TypeOK
  <2> HIDE DEF reported
  <2>4. reported <= Stored
    BY <2>1, <2>2
  <2> QED BY <2>3, <2>4 DEF reported
<1>4. Spec => [](SumFunction([r \in Succeeded |-> Reported(r).inserted]) <= SumFunction(rows))
  BY <1>1, <1>2, <1>3, PTL DEF Spec
<1> QED BY <1>4, SuccessfulRunCoversItsBatch, PTL DEF SuccessIsComplete
=============================================================================
