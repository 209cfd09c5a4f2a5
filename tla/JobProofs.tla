------------------------------ MODULE JobProofs ------------------------------
(***************************************************************************)
(* Proofs about jobs on their way to the workers, for any builders, jobs,  *)
(* workers and registries: a schedule is paused for the disabled jobs      *)
(* only, a handler is called once for each attempt that is not lost, by    *)
(* the job's own implementation, a staged pattern runs one stage after     *)
(* the other, and what a builder built stays as it was, outlives its       *)
(* containers and is accepted, whatever is called on the builder.          *)
(***************************************************************************)
EXTENDS SyncJobs, JobWorker, PatternRun, JobBuilder, FiniteInduction

(* The sync builders and the schedules they share                          *)

AllParts == {"partitioner", "fetcher", "source", "mapper", "sink", "tracker"}

BuilderState ==
  [given : SUBSET AllParts, schedule : Nat, disabled : BOOLEAN, cap : 0 .. 1]

ScheduleSpec == [fires : {"raw", "interval", "cron"}, asked : BOOLEAN, paused : BOOLEAN]

ScheduledJob ==
  [by : SyncBuilders, spec : Nat, disabled : BOOLEAN, given : SUBSET AllParts, cap : 0 .. 1]

SyncTypeOK ==
  /\ syncBuilder \in [SyncBuilders -> BuilderState]
  /\ specs \in Seq(ScheduleSpec)
  /\ jobs \in Seq(ScheduledJob)

(* Every pointer to a schedule is to one of the heap, and a SyncJobBuilder *)
(* cannot be disabled.                                                     *)
PointersHold ==
  /\ Len(specs) >= RawSpec
  /\ \A b \in SyncBuilders : syncBuilder[b].schedule <= Len(specs)
  /\ \A k \in DOMAIN jobs : jobs[k].spec <= Len(specs)
  /\ \A b \in SyncBuilders : BuilderType[b] = "job" => ~ syncBuilder[b].disabled

SyncInv == SyncTypeOK /\ PointersHold /\ PausedIffDisabled

(* Sequences that are appended to or changed at one place.                 *)
LEMMA SequenceFacts ==
  ASSUME NEW T, NEW s \in Seq(T)
  PROVE  /\ Len(s) \in Nat /\ DOMAIN s = 1 .. Len(s)
         /\ \A i \in 1 .. Len(s) : s[i] \in T
OBVIOUS

LEMMA AppendFacts ==
  ASSUME NEW T, NEW s \in Seq(T), NEW e \in T
  PROVE  /\ Append(s, e) \in Seq(T) /\ Len(Append(s, e)) = Len(s) + 1
         /\ DOMAIN Append(s, e) = 1 .. (Len(s) + 1)
         /\ Append(s, e)[Len(s) + 1] = e
         /\ \A i \in 1 .. Len(s) : Append(s, e)[i] = s[i]
OBVIOUS

LEMMA ExceptFacts ==
  ASSUME NEW T, NEW s \in Seq(T), NEW e \in T, NEW i \in 1 .. Len(s)
  PROVE  /\ [s EXCEPT ![i] = e] \in Seq(T) /\ Len([s EXCEPT ![i] = e]) = Len(s)
         /\ \A j \in 1 .. Len(s) : [s EXCEPT ![i] = e][j] = IF j = i THEN e ELSE s[j]
OBVIOUS

(* What every part a builder takes is one of.                              *)
LEMMA PartsAreParts ==
  ASSUME NEW b \in SyncBuilders
  PROVE  /\ Settable(BuilderType[b]) \subseteq AllParts
         /\ BuilderType[b] \in {"job", "chunked", "date"}
BY BuildersAssumption DEF Settable, Parts, AllParts

(* The program starts with fresh builders and the caller's own spec.       *)
LEMMA SyncStart ==
  ASSUME SyncInit
  PROVE  SyncInv
<1>1. NewBuilder \in BuilderState /\ NewBuilder.schedule = 0 /\ ~ NewBuilder.disabled
  BY DEF NewBuilder, BuilderState, NoSpec
<1>2. ASSUME NEW b \in SyncBuilders
      PROVE  LET p == Provided(BuilderType[b])
             IN  p \in BuilderState /\ p.schedule = 0 /\ ~ p.disabled
  BY <1>1, PartsAreParts DEF Provided, BuilderState
<1>3. \A b \in SyncBuilders :
        syncBuilder[b] \in BuilderState /\ syncBuilder[b].schedule = 0 /\ ~ syncBuilder[b].disabled
  BY <1>1, <1>2 DEF SyncInit
<1>4. syncBuilder \in [SyncBuilders -> BuilderState]
  BY <1>1, <1>2 DEF SyncInit
<1>5. /\ specs \in Seq(ScheduleSpec) /\ Len(specs) = 1 /\ jobs = <<>>
      /\ specs[1].paused <=> specs[1].asked
  BY DEF SyncInit, CallersSpecs, ScheduleSpec
<1> QED BY <1>3, <1>4, <1>5 DEF SyncInv, SyncTypeOK, PointersHold, PausedIffDisabled, RawSpec

(* A setter changes one builder, and none of the definitions.              *)
LEMMA SetterKeepsSyncInv ==
  ASSUME SyncInv, NEW b \in SyncBuilders, NEW s \in BuilderState,
         syncBuilder' = [syncBuilder EXCEPT ![b] = s], UNCHANGED jobs,
         \/ UNCHANGED specs
         \/ \E fires \in {"interval", "cron"} : specs' = Append(specs, NewSpec(fires)),
         s.schedule <= Len(specs'), BuilderType[b] = "job" => ~ s.disabled
  PROVE  SyncInv'
<1> DEFINE m == Len(specs)
           n == Len(jobs)
<1>0. SyncTypeOK /\ PointersHold /\ PausedIffDisabled
  BY DEF SyncInv
<1>1. /\ m \in Nat /\ DOMAIN specs = 1 .. m
      /\ n \in Nat /\ DOMAIN jobs = 1 .. n
  BY <1>0, SequenceFacts DEF SyncTypeOK
<1>2. \A k \in 1 .. n : jobs[k].spec \in Nat
  <2>1. \A k \in 1 .. n : jobs[k] \in ScheduledJob
    BY <1>0, SequenceFacts DEF SyncTypeOK
  <2> QED BY <2>1 DEF ScheduledJob
<1>3. /\ \A c \in SyncBuilders : syncBuilder'[c] = IF c = b THEN s ELSE syncBuilder[c]
      /\ \A c \in SyncBuilders : syncBuilder[c].schedule \in Nat
      /\ syncBuilder' \in [SyncBuilders -> BuilderState]
  BY <1>0 DEF SyncTypeOK, BuilderState
<1>4. /\ specs' \in Seq(ScheduleSpec) /\ Len(specs') \in {m, m + 1} /\ DOMAIN specs' = 1 .. Len(specs')
      /\ \A i \in 1 .. m : specs'[i] = specs[i]
      /\ Len(specs') = m + 1 => ~ specs'[m + 1].paused /\ ~ specs'[m + 1].asked
  <2>1. CASE UNCHANGED specs
    <3>1. specs' = specs /\ Len(specs') = m /\ DOMAIN specs' = 1 .. m
      BY <2>1, <1>1
    <3> HIDE DEF m
    <3> QED BY <3>1, <1>0, <1>1 DEF SyncTypeOK
  <2>2. CASE ~ UNCHANGED specs
    <3>1. PICK fires \in {"interval", "cron"} : specs' = Append(specs, NewSpec(fires))
      BY <2>2
    <3> DEFINE e == NewSpec(fires)
    <3>2. e \in ScheduleSpec /\ ~ e.paused /\ ~ e.asked
      BY DEF NewSpec, ScheduleSpec
    <3> HIDE DEF e
    <3>3. specs' = Append(specs, e)
      BY <3>1 DEF e
    <3>4. /\ specs' \in Seq(ScheduleSpec) /\ Len(specs') = m + 1 /\ DOMAIN specs' = 1 .. (m + 1)
          /\ specs'[m + 1] = e /\ \A i \in 1 .. m : specs'[i] = specs[i]
      BY <3>2, <3>3, <1>0, AppendFacts DEF SyncTypeOK
    <3> QED BY <3>2, <3>4
  <2> QED BY <2>1, <2>2
<1> DEFINE l == Len(specs')
<1>6. jobs' = jobs /\ m >= 1 /\ (\A c \in SyncBuilders : syncBuilder[c].schedule <= m)
      /\ (\A k \in 1 .. n : jobs[k].spec <= m)
      /\ s.schedule <= l /\ l \in {m, m + 1}
  BY <1>0, <1>1, <1>4 DEF PointersHold, RawSpec
<1> HIDE DEF l, m, n
<1>7. PointersHold'
  <2>1. l >= 1
    BY <1>1, <1>6
  <2>2. ASSUME NEW c \in SyncBuilders PROVE syncBuilder'[c].schedule <= l
    BY <1>1, <1>3, <1>6
  <2>3. ASSUME NEW k \in DOMAIN jobs PROVE jobs[k].spec <= l
    BY <1>1, <1>2, <1>6
  <2>4. ASSUME NEW c \in SyncBuilders, BuilderType[c] = "job" PROVE ~ syncBuilder'[c].disabled
    BY <2>4, <1>0, <1>3 DEF PointersHold
  <2> QED BY <2>1, <2>2, <2>3, <2>4, <1>6 DEF PointersHold, RawSpec, l
<1>8. PausedIffDisabled'
  <2> SUFFICES ASSUME NEW i \in DOMAIN specs'
               PROVE  specs'[i].paused <=>
                        specs'[i].asked \/ \E k \in 1 .. n : jobs[k].spec = i /\ jobs[k].disabled
    BY <1>1, <1>6 DEF PausedIffDisabled
  <2>1. CASE i \in 1 .. m
    BY <2>1, <1>0, <1>1, <1>4 DEF PausedIffDisabled
  <2>2. CASE i \notin 1 .. m
    <3>1. i = m + 1 /\ l = m + 1
      <4>1. i \in 1 .. l /\ l \in {m, m + 1}
        BY <1>4, <1>6 DEF l
      <4> QED BY <4>1, <2>2, <1>1
    <3>2. \A k \in 1 .. n : jobs[k].spec # i
      BY <3>1, <1>1, <1>2, <1>6
    <3> QED BY <3>1, <3>2, <1>4 DEF l
  <2> QED BY <2>1, <2>2
<1> QED BY <1>0, <1>3, <1>4, <1>6, <1>7, <1>8 DEF SyncInv, SyncTypeOK

(* Build adds a definition, which may pause the schedule it points to, or  *)
(* gets a new one.                                                         *)
LEMMA BuildKeepsSyncInv ==
  ASSUME SyncInv, NEW d \in ScheduledJob, jobs' = Append(jobs, d), UNCHANGED syncBuilder,
         \/ /\ d.spec <= Len(specs)
            /\ specs' = IF d.spec # NoSpec /\ d.disabled
                          THEN [specs EXCEPT ![d.spec].paused = TRUE] ELSE specs
         \/ /\ d.spec = Len(specs) + 1 /\ ~ d.disabled
            /\ specs' = Append(specs, NewSpec("interval"))
  PROVE  SyncInv'
<1> DEFINE m == Len(specs)
           n == Len(jobs)
           l == Len(specs')
<1>0. SyncTypeOK /\ PointersHold /\ PausedIffDisabled
  BY DEF SyncInv
<1>1. /\ m \in Nat /\ DOMAIN specs = 1 .. m /\ \A i \in 1 .. m : specs[i] \in ScheduleSpec
      /\ n \in Nat /\ DOMAIN jobs = 1 .. n
  BY <1>0, SequenceFacts DEF SyncTypeOK
<1>2. /\ d.spec \in Nat /\ d.disabled \in BOOLEAN /\ \A k \in 1 .. n : jobs[k].spec \in Nat
      /\ \A i \in 1 .. m : specs[i].paused \in BOOLEAN /\ specs[i].asked \in BOOLEAN
  <2>1. \A k \in 1 .. n : jobs[k] \in ScheduledJob
    BY <1>0, SequenceFacts DEF SyncTypeOK
  <2> QED BY <2>1, <1>1 DEF ScheduledJob, ScheduleSpec
<1>3. /\ jobs' \in Seq(ScheduledJob) /\ DOMAIN jobs' = 1 .. (n + 1)
      /\ jobs'[n + 1] = d /\ \A k \in 1 .. n : jobs'[k] = jobs[k]
  BY <1>0, AppendFacts DEF SyncTypeOK
<1>4. /\ specs' \in Seq(ScheduleSpec) /\ DOMAIN specs' = 1 .. l
      /\ \/ l = m /\ d.spec <= m
         \/ l = m + 1 /\ d.spec = m + 1 /\ ~ d.disabled
            /\ ~ specs'[m + 1].paused /\ ~ specs'[m + 1].asked
      /\ \A i \in 1 .. m : /\ specs'[i].paused <=> specs[i].paused \/ (i = d.spec /\ d.disabled)
                          /\ specs'[i].asked = specs[i].asked
  <2>1. CASE d.spec <= m /\ d.spec # NoSpec /\ d.disabled
               /\ specs' = [specs EXCEPT ![d.spec].paused = TRUE]
    <3> DEFINE e == [specs[d.spec] EXCEPT !.paused = TRUE]
    <3>1. d.spec \in 1 .. m
      BY <2>1, <1>1, <1>2 DEF NoSpec
    <3>2. specs[d.spec] \in ScheduleSpec
      BY <3>1, <1>1
    <3>3. e \in ScheduleSpec /\ e.paused = TRUE /\ e.asked = specs[d.spec].asked
      BY <3>2 DEF ScheduleSpec
    <3>4. specs' = [specs EXCEPT ![d.spec] = e]
      BY <2>1
    <3> HIDE DEF e
    <3>5. /\ specs' \in Seq(ScheduleSpec) /\ l = m
          /\ \A i \in 1 .. m : specs'[i] = IF i = d.spec THEN e ELSE specs[i]
      BY <3>1, <3>3, <3>4, <1>0, ExceptFacts DEF SyncTypeOK
    <3>6. DOMAIN specs' = 1 .. l
      BY <3>5, SequenceFacts
    <3> QED BY <3>3, <3>5, <3>6, <2>1
  <2>2. CASE d.spec <= m /\ ~ (d.spec # NoSpec /\ d.disabled) /\ specs' = specs
    <3>1. l = m /\ DOMAIN specs' = 1 .. l /\ specs' \in Seq(ScheduleSpec)
      BY <2>2, <1>0, <1>1 DEF SyncTypeOK
    <3>2. ASSUME NEW i \in 1 .. m, i = d.spec PROVE ~ d.disabled
      <4>1. d.spec # NoSpec
        BY <3>2, <1>1 DEF NoSpec
      <4> QED BY <4>1, <2>2
    <3> QED BY <3>1, <3>2, <2>2
  <2>3. CASE d.spec = m + 1 /\ ~ d.disabled
               /\ specs' = Append(specs, NewSpec("interval"))
    <3> DEFINE e == NewSpec("interval")
    <3>1. e \in ScheduleSpec /\ ~ e.paused /\ ~ e.asked
      BY DEF NewSpec, ScheduleSpec
    <3>2. specs' = Append(specs, e)
      BY <2>3
    <3> HIDE DEF e
    <3>3. /\ specs' \in Seq(ScheduleSpec) /\ l = m + 1 /\ DOMAIN specs' = 1 .. (m + 1)
          /\ specs'[m + 1] = e /\ \A i \in 1 .. m : specs'[i] = specs[i]
      BY <3>1, <3>2, <1>0, AppendFacts DEF SyncTypeOK
    <3> QED BY <3>1, <3>3, <2>3
  <2> QED BY <2>1, <2>2, <2>3
<1>5. m >= 1 /\ (\A c \in SyncBuilders : syncBuilder[c].schedule <= m) /\ (\A k \in 1 .. n : jobs[k].spec <= m)
  BY <1>0, <1>1 DEF PointersHold, RawSpec
<1>6. \A c \in SyncBuilders : syncBuilder[c].schedule \in Nat
  BY <1>0 DEF SyncTypeOK, BuilderState
<1> HIDE DEF l, m, n
<1>7. PointersHold'
  <2>1. l >= 1 /\ \A c \in SyncBuilders : syncBuilder[c].schedule <= l
    BY <1>1, <1>4, <1>5, <1>6
  <2>2. ASSUME NEW k \in 1 .. (n + 1) PROVE jobs'[k].spec <= l
    <3>1. CASE k = n + 1
      BY <3>1, <1>1, <1>3, <1>4
    <3>2. CASE k # n + 1
      <4>1. k \in 1 .. n
        BY <3>2, <1>1
      <4> QED BY <4>1, <1>1, <1>2, <1>3, <1>4, <1>5
    <3> QED BY <3>1, <3>2
  <2> QED BY <2>1, <2>2, <1>0, <1>3 DEF PointersHold, RawSpec, l
<1>8. PausedIffDisabled'
  <2> SUFFICES ASSUME NEW i \in 1 .. l
               PROVE  specs'[i].paused <=>
                        \/ specs'[i].asked
                        \/ \E k \in 1 .. (n + 1) : jobs'[k].spec = i /\ jobs'[k].disabled
    <3>1. DOMAIN specs' = 1 .. l /\ DOMAIN jobs' = 1 .. (n + 1)
      BY <1>3, <1>4
    <3> QED BY <3>1 DEF PausedIffDisabled
  <2>1. (\E k \in 1 .. (n + 1) : jobs'[k].spec = i /\ jobs'[k].disabled)
          <=> ((\E k \in 1 .. n : jobs[k].spec = i /\ jobs[k].disabled) \/ (d.spec = i /\ d.disabled))
    <3>1. \A k \in 1 .. (n + 1) : k \in 1 .. n \/ k = n + 1
      BY <1>1
    <3>2. 1 .. n \subseteq 1 .. (n + 1) /\ n + 1 \in 1 .. (n + 1)
      BY <1>1
    <3> QED BY <3>1, <3>2, <1>3
  <2>2. CASE i \in 1 .. m
    <3>1. specs[i].paused <=>
            specs[i].asked \/ \E k \in 1 .. n : jobs[k].spec = i /\ jobs[k].disabled
      BY <2>2, <1>0, <1>1 DEF PausedIffDisabled
    <3> QED BY <2>1, <2>2, <3>1, <1>4
  <2>3. CASE i \notin 1 .. m
    <3>1. i = m + 1 /\ d.spec = i /\ ~ d.disabled /\ ~ specs'[i].paused /\ ~ specs'[i].asked
      BY <2>3, <1>1, <1>4
    <3>2. \A k \in 1 .. n : jobs[k].spec # i
      BY <3>1, <1>1, <1>2, <1>5
    <3> QED BY <2>1, <3>1, <3>2
  <2> QED BY <2>2, <2>3
<1> QED BY <1>0, <1>3, <1>4, <1>7, <1>8 DEF SyncInv, SyncTypeOK

(* What Build makes of a builder.                                          *)
LEMMA BuiltKeepsSyncInv ==
  ASSUME SyncInv, NEW b \in SyncBuilders, NEW at \in Nat, Built(b, at), UNCHANGED syncBuilder,
         \/ at = syncBuilder[b].schedule /\ Paused(b)
         \/ /\ at = Len(specs) + 1 /\ BuilderType[b] = "job"
            /\ specs' = Append(specs, NewSpec("interval"))
  PROVE  SyncInv'
<1> DEFINE d == [by |-> b, spec |-> at, disabled |-> syncBuilder[b].disabled,
                 given |-> Given(b), cap |-> syncBuilder[b].cap]
<1>1. /\ syncBuilder[b] \in BuilderState
      /\ syncBuilder[b].schedule <= Len(specs)
      /\ BuilderType[b] = "job" => ~ syncBuilder[b].disabled
  BY DEF SyncInv, SyncTypeOK, PointersHold
<1>2. Given(b) \subseteq AllParts
  BY <1>1 DEF Given, BuilderState, AllParts
<1>3. d \in ScheduledJob /\ d.spec = at /\ d.disabled = syncBuilder[b].disabled
  BY <1>1, <1>2 DEF ScheduledJob, BuilderState
<1>4. jobs' = Append(jobs, d)
  BY DEF Built
<1>5. CASE at = syncBuilder[b].schedule /\ Paused(b)
  <2>1. /\ at <= Len(specs)
        /\ specs' = IF at # NoSpec /\ syncBuilder[b].disabled
                      THEN [specs EXCEPT ![at].paused = TRUE] ELSE specs
    BY <1>1, <1>5 DEF Paused
  <2> HIDE DEF d
  <2> QED BY <2>1, <1>3, <1>4, BuildKeepsSyncInv
<1>6. CASE /\ at = Len(specs) + 1 /\ BuilderType[b] = "job"
           /\ specs' = Append(specs, NewSpec("interval"))
  <2> HIDE DEF d
  <2> QED BY <1>1, <1>3, <1>4, <1>6, BuildKeepsSyncInv
<1> QED BY <1>5, <1>6

(* Every call of a builder keeps the invariant.                            *)
LEMMA SyncKeepsInv ==
  ASSUME SyncInv, [SyncNext]_syncVars
  PROVE  SyncInv'
<1>0. \A b \in SyncBuilders :
        /\ syncBuilder[b] \in BuilderState
        /\ syncBuilder[b].schedule <= Len(specs)
        /\ BuilderType[b] = "job" => ~ syncBuilder[b].disabled
  BY DEF SyncInv, SyncTypeOK, PointersHold
<1>00. Len(specs) \in Nat /\ Len(specs) >= 1
  BY DEF SyncInv, SyncTypeOK, PointersHold, RawSpec
<1>1. ASSUME NEW b \in SyncBuilders, NEW part \in Settable(BuilderType[b]), NEW isNil \in BOOLEAN,
             SetPart(b, part, isNil)
      PROVE  SyncInv'
  <2> DEFINE g == IF isNil /\ ~ Wraps(BuilderType[b], part)
                    THEN syncBuilder[b].given \ {part} ELSE syncBuilder[b].given \cup {part}
             s == [syncBuilder[b] EXCEPT !.given = g]
  <2>1. g \in SUBSET AllParts
    BY <1>0, PartsAreParts DEF BuilderState
  <2>2. syncBuilder' = [syncBuilder EXCEPT ![b] = s] /\ UNCHANGED <<specs, jobs>>
    BY <1>1 DEF SetPart
  <2> HIDE DEF g
  <2>3. s \in BuilderState /\ s.schedule = syncBuilder[b].schedule /\ s.disabled = syncBuilder[b].disabled
    BY <2>1, <1>0 DEF BuilderState
  <2> HIDE DEF s
  <2> QED BY <2>2, <2>3, <1>0, SetterKeepsSyncInv
<1>2. ASSUME NEW b \in SyncBuilders, NEW positive \in BOOLEAN, WithSchedule(b, positive) PROVE SyncInv'
  <2> DEFINE i == IF positive THEN Positive ELSE NoSpec
             s == [syncBuilder[b] EXCEPT !.schedule = i]
  <2>1. i \in {0, 1}
    BY DEF Positive, NoSpec
  <2>2. syncBuilder' = [syncBuilder EXCEPT ![b] = s] /\ UNCHANGED <<specs, jobs>>
    BY <1>2 DEF WithSchedule
  <2> HIDE DEF i
  <2>3. s \in BuilderState /\ s.schedule = i /\ s.disabled = syncBuilder[b].disabled
    BY <2>1, <1>0 DEF BuilderState
  <2>4. s.schedule <= Len(specs)
    BY <2>1, <2>3, <1>00
  <2> HIDE DEF s
  <2> QED BY <2>2, <2>3, <2>4, <1>0, SetterKeepsSyncInv
<1>3. ASSUME NEW b \in SyncBuilders, NEW fires \in {"interval", "cron"}, Schedule(b, fires) PROVE SyncInv'
  <2> DEFINE m == Len(specs)
             s == [syncBuilder[b] EXCEPT !.schedule = m + 1]
  <2>1. /\ syncBuilder' = [syncBuilder EXCEPT ![b] = s] /\ UNCHANGED jobs
        /\ specs' = Append(specs, NewSpec(fires))
        /\ BuilderType[b] # "job"
    BY <1>3 DEF Schedule
  <2>2. m + 1 \in Nat
    BY <1>00
  <2>3. Len(specs') = m + 1
    BY <2>1 DEF SyncInv, SyncTypeOK
  <2> HIDE DEF m
  <2>4. s \in BuilderState /\ s.schedule = m + 1 /\ s.disabled = syncBuilder[b].disabled
    BY <2>2, <1>0 DEF BuilderState
  <2>5. s.schedule <= Len(specs')
    BY <2>2, <2>3, <2>4
  <2> HIDE DEF s
  <2> QED BY <2>1, <2>4, <2>5, <1>0, SetterKeepsSyncInv
<1>4. ASSUME NEW b \in SyncBuilders, NEW spec \in {RawSpec, NoSpec}, ScheduleRaw(b, spec) PROVE SyncInv'
  <2> DEFINE s == [syncBuilder[b] EXCEPT !.schedule = spec]
  <2>1. syncBuilder' = [syncBuilder EXCEPT ![b] = s] /\ UNCHANGED <<specs, jobs>>
    BY <1>4 DEF ScheduleRaw
  <2>2. s \in BuilderState /\ s.schedule \in {0, 1} /\ s.disabled = syncBuilder[b].disabled
    BY <1>0 DEF BuilderState, RawSpec, NoSpec
  <2>3. s.schedule <= Len(specs)
    BY <2>2, <1>00
  <2> HIDE DEF s
  <2> QED BY <2>1, <2>2, <2>3, <1>0, SetterKeepsSyncInv
<1>5. ASSUME NEW b \in SyncBuilders, NEW disabled \in BOOLEAN, Disabled(b, disabled) PROVE SyncInv'
  <2> DEFINE s == [syncBuilder[b] EXCEPT !.disabled = disabled]
  <2>1. /\ syncBuilder' = [syncBuilder EXCEPT ![b] = s] /\ UNCHANGED <<specs, jobs>>
        /\ BuilderType[b] # "job"
    BY <1>5 DEF Disabled
  <2>2. s \in BuilderState /\ s.schedule = syncBuilder[b].schedule
    BY <1>0 DEF BuilderState
  <2> HIDE DEF s
  <2> QED BY <2>1, <2>2, <1>0, SetterKeepsSyncInv
<1>6. ASSUME NEW b \in SyncBuilders, NEW n \in 0 .. 1, MaxPartitionsPerExecution(b, n) PROVE SyncInv'
  <2> DEFINE s == [syncBuilder[b] EXCEPT !.cap = n]
  <2>1. syncBuilder' = [syncBuilder EXCEPT ![b] = s] /\ UNCHANGED <<specs, jobs>>
    BY <1>6 DEF MaxPartitionsPerExecution
  <2>2. s \in BuilderState /\ s.schedule = syncBuilder[b].schedule /\ s.disabled = syncBuilder[b].disabled
    BY <1>0 DEF BuilderState
  <2> HIDE DEF s
  <2> QED BY <2>1, <2>2, <1>0, SetterKeepsSyncInv
<1>7. ASSUME UNCHANGED <<syncBuilder, specs, jobs>> PROVE SyncInv'
  BY <1>7 DEF SyncInv, SyncTypeOK, PointersHold, PausedIffDisabled
<1>8. ASSUME NEW b \in SyncBuilders, BuildChunked(b) PROVE SyncInv'
  <2>1. CASE buildValidate(b)
    <3>1. syncBuilder[b].schedule \in Nat
      BY <1>0 DEF BuilderState
    <3> QED BY <3>1, <2>1, <1>8, BuiltKeepsSyncInv DEF BuildChunked
  <2>2. CASE ~ buildValidate(b)
    BY <2>2, <1>7, <1>8 DEF BuildChunked
  <2> QED BY <2>1, <2>2
<1>9. ASSUME NEW b \in SyncBuilders, BuildSyncJob(b) PROVE SyncInv'
  <2>1. CASE Complete(b) /\ syncBuilder[b].schedule # NoSpec
    <3>1. Len(specs) + 1 \in Nat
      BY <1>00
    <3> QED BY <3>1, <2>1, <1>9, BuiltKeepsSyncInv DEF BuildSyncJob
  <2>2. CASE ~ (Complete(b) /\ syncBuilder[b].schedule # NoSpec)
    BY <2>2, <1>7, <1>9 DEF BuildSyncJob
  <2> QED BY <2>1, <2>2
<1>10. CASE UNCHANGED syncVars
  BY <1>7, <1>10 DEF syncVars
<1> QED BY <1>1, <1>2, <1>3, <1>4, <1>5, <1>6, <1>8, <1>9, <1>10 DEF SyncNext

(* A schedule is paused for as long as a job that was disabled when it was *)
(* built shares it, and for no other reason but the caller's own wish,     *)
(* whatever the builders of the program call in whatever order.            *)
THEOREM SchedulesArePausedForDisabledJobs == SyncSpec => []PausedIffDisabled
<1>1. SyncInit => SyncInv
  BY SyncStart
<1>2. SyncInv /\ [SyncNext]_syncVars => SyncInv'
  BY SyncKeepsInv
<1>3. SyncInv => PausedIffDisabled
  BY DEF SyncInv
<1> QED BY <1>1, <1>2, <1>3, PTL DEF SyncSpec
-----------------------------------------------------------------------------
(* The workers                                                             *)

ActivityNames == {ActivityName("container"), ActivityName("function")}

Packages == {"container", "function"}

Implementations == {j.activity : j \in Jobs}

Execution ==
  [package : Packages \cup {NotRegistered}, attempts : Nat, calls : Nat,
   outcome : {"new", "open", "succeeded", "failed"},
   ran : Implementations \cup {NotRegistered}, equipped : BOOLEAN]

WorkerTypeOK ==
  /\ workflows \in [Workers -> [AllTypes -> Packages \cup {NotRegistered}]]
  /\ activities \in [Workers -> [ActivityNames -> Implementations \cup {NotRegistered}]]
  /\ registered \in [Workers -> SUBSET Jobs]
  /\ handlers \in [Registries -> SUBSET HandlerNames]
  /\ job \in Jobs
  /\ execution \in Execution
  /\ crashes \in Nat

(* A worker's tables hold what the jobs registered on it brought along.    *)
TablesFilled ==
  \A w \in Workers :
    /\ \A t \in AllTypes : workflows[w][t] # NotRegistered =>
         \E j \in registered[w] : t \in Types(j.package) /\ workflows[w][t] = j.package
    /\ \A a \in ActivityNames : activities[w][a] # NotRegistered =>
         \E j \in registered[w] : a = ActivityName(j.package) /\ activities[w][a] = j.activity
    /\ \A j \in registered[w] : activities[w][ActivityName(j.package)] # NotRegistered

(* A job that was equipped when it was started stays so.                   *)
Equipped ==
  execution.equipped =>
    /\ Knows(job.activity)
    /\ \A w \in Colleagues : job \in registered[w]

(* Calls are the attempts' that were lost, and the one that ended it.      *)
CallsCounted ==
  /\ execution.calls <= 1 + crashes
  /\ execution.outcome \in {"new", "open"} => execution.calls <= crashes
  /\ execution.outcome = "new" =>
       execution.attempts = 0 /\ crashes = 0 /\ execution.package = NotRegistered

(* An equipped job that nothing shadows loses its attempts by crashes only.*)
AttemptsCounted ==
  Unshadowed /\ execution.equipped =>
    /\ execution.attempts = crashes
    /\ execution.outcome = "failed" => execution.calls > 0 \/ crashes = MaxAttempts

Own ==
  Unshadowed =>
    /\ execution.package \in {NotRegistered, job.package}
    /\ execution.ran \in {NotRegistered, job.activity}

WorkerInv ==
  WorkerTypeOK /\ TablesFilled /\ Equipped /\ CallsCounted /\ AttemptsCounted /\ Own

(* The names the packages register.                                        *)
LEMMA Names ==
  /\ Types("container") \subseteq AllTypes /\ Types("function") \subseteq AllTypes
  /\ \A p \in Packages : ActivityName(p) \in ActivityNames
  /\ NotRegistered \notin Packages
  /\ \A j \in Jobs : /\ j.package \in Packages /\ j.activity # NotRegistered
                     /\ j.type \in AllTypes /\ j.activity \in Implementations
BY JobsAssumption DEF AllTypes, ActivityNames, Packages, NotRegistered, Implementations

(* Before anything is registered.                                          *)
LEMMA WorkerStart ==
  ASSUME WorkerInit
  PROVE  WorkerInv
<1>1. /\ workflows \in [Workers -> [AllTypes -> Packages \cup {NotRegistered}]]
      /\ activities \in [Workers -> [ActivityNames -> Implementations \cup {NotRegistered}]]
      /\ registered \in [Workers -> SUBSET Jobs]
      /\ handlers \in [Registries -> SUBSET HandlerNames]
      /\ job \in Jobs /\ crashes = 0
  BY DEF WorkerInit, ActivityNames
<1>2. /\ execution \in Execution /\ execution.package = NotRegistered /\ execution.attempts = 0
      /\ execution.calls = 0 /\ execution.outcome = "new" /\ execution.ran = NotRegistered
      /\ execution.equipped = FALSE
  BY DEF WorkerInit, Execution
<1>3. TablesFilled
  BY DEF WorkerInit, TablesFilled, ActivityNames
<1>4. Equipped /\ CallsCounted /\ AttemptsCounted /\ Own
  BY <1>1, <1>2 DEF Equipped, CallsCounted, AttemptsCounted, Own
<1> QED BY <1>1, <1>2, <1>3, <1>4 DEF WorkerInv, WorkerTypeOK

(* A job is registered: its entries are made where there were none.        *)
LEMMA RegisterKeepsWorkerInv ==
  ASSUME WorkerInv, NEW w \in Workers, NEW j \in Jobs, Register(w, j)
  PROVE  WorkerInv'
<1>0. /\ WorkerTypeOK /\ TablesFilled /\ Equipped /\ CallsCounted /\ AttemptsCounted /\ Own
      /\ UNCHANGED <<handlers, job, execution, crashes>>
      /\ j.package \in Packages /\ j.activity \in Implementations /\ j.activity # NotRegistered
      /\ ActivityName(j.package) \in ActivityNames
  BY Names DEF WorkerInv, Register
<1> DEFINE wf == Once(workflows[w], Types(j.package), j.package)
           act == Once(activities[w], {ActivityName(j.package)}, j.activity)
<1>1. /\ workflows' = [workflows EXCEPT ![w] = wf]
      /\ activities' = [activities EXCEPT ![w] = act]
      /\ registered' = [registered EXCEPT ![w] = registered[w] \cup {j}]
  BY DEF Register, RegisterAll, RegisterWorkflows, RegisterActivity
<1>2. /\ wf \in [AllTypes -> Packages \cup {NotRegistered}]
      /\ \A t \in AllTypes : \/ wf[t] = workflows[w][t]
                             \/ t \in Types(j.package) /\ wf[t] = j.package
  BY <1>0 DEF Once, WorkerTypeOK
<1>3. /\ act \in [ActivityNames -> Implementations \cup {NotRegistered}]
      /\ \A a \in ActivityNames : \/ act[a] = activities[w][a]
                                  \/ a = ActivityName(j.package) /\ act[a] = j.activity
      /\ \A a \in ActivityNames : activities[w][a] # NotRegistered => act[a] # NotRegistered
      /\ act[ActivityName(j.package)] # NotRegistered
  BY <1>0 DEF Once, WorkerTypeOK
<1> HIDE DEF wf, act
<1>4. \A v \in Workers : /\ workflows'[v] = IF v = w THEN wf ELSE workflows[v]
                         /\ activities'[v] = IF v = w THEN act ELSE activities[v]
                         /\ registered'[v] = IF v = w THEN registered[w] \cup {j} ELSE registered[v]
  BY <1>0, <1>1 DEF WorkerTypeOK
<1>5. WorkerTypeOK'
  BY <1>0, <1>1, <1>2, <1>3 DEF WorkerTypeOK
<1>6. TablesFilled'
  <2> SUFFICES ASSUME NEW v \in Workers
      PROVE  /\ \A t \in AllTypes : workflows'[v][t] # NotRegistered =>
                  \E i \in registered'[v] : t \in Types(i.package) /\ workflows'[v][t] = i.package
             /\ \A a \in ActivityNames : activities'[v][a] # NotRegistered =>
                  \E i \in registered'[v] : a = ActivityName(i.package) /\ activities'[v][a] = i.activity
             /\ \A i \in registered'[v] : activities'[v][ActivityName(i.package)] # NotRegistered
    BY DEF TablesFilled
  <2>1. CASE v # w
    BY <2>1, <1>0, <1>4 DEF TablesFilled
  <2>2. CASE v = w
    <3>1. \A t \in AllTypes : wf[t] # NotRegistered =>
            \E i \in registered[w] \cup {j} : t \in Types(i.package) /\ wf[t] = i.package
      BY <1>0, <1>2 DEF TablesFilled
    <3>2. \A a \in ActivityNames : act[a] # NotRegistered =>
            \E i \in registered[w] \cup {j} : a = ActivityName(i.package) /\ act[a] = i.activity
      BY <1>0, <1>3 DEF TablesFilled
    <3>3. ASSUME NEW i \in registered[w] PROVE act[ActivityName(i.package)] # NotRegistered
      <4>1. ActivityName(i.package) \in ActivityNames
        BY <1>0, Names DEF WorkerTypeOK
      <4> QED BY <4>1, <1>0, <1>3 DEF TablesFilled
    <3> QED BY <2>2, <3>1, <3>2, <3>3, <1>3, <1>4
  <2> QED BY <2>1, <2>2
<1>7. Colleagues' = Colleagues /\ Colleagues \subseteq Workers
  BY <1>0 DEF Colleagues
<1>8. \A v \in Workers : registered[v] \subseteq registered'[v]
  BY <1>4
<1>9. Unshadowed' => Unshadowed
  BY <1>0, <1>7, <1>8 DEF Unshadowed
<1>10. Equipped' /\ CallsCounted' /\ AttemptsCounted' /\ Own'
  BY <1>0, <1>7, <1>8, <1>9 DEF Equipped, CallsCounted, AttemptsCounted, Own, Knows
<1> QED BY <1>5, <1>6, <1>10 DEF WorkerInv

(* A handler is registered: the registries know more.                      *)
LEMMA HandlerKeepsWorkerInv ==
  ASSUME WorkerInv, NEW r \in Registries, NEW name \in HandlerNames, RegisterHandler(r, name)
  PROVE  WorkerInv'
<1>0. /\ WorkerTypeOK /\ TablesFilled /\ Equipped /\ CallsCounted /\ AttemptsCounted /\ Own
      /\ UNCHANGED <<workflows, activities, registered, job, execution, crashes>>
      /\ handlers' = [handlers EXCEPT ![r] = handlers[r] \cup {name}]
  BY DEF WorkerInv, RegisterHandler
<1>1. WorkerTypeOK'
  BY <1>0 DEF WorkerTypeOK
<1>2. \A q \in Registries : handlers[q] \subseteq handlers'[q]
  BY <1>0 DEF WorkerTypeOK
<1>3. Equipped'
  BY <1>0, <1>2 DEF Equipped, Knows, Colleagues
<1>4. Unshadowed' <=> Unshadowed
  BY <1>0 DEF Unshadowed, Colleagues
<1>5. TablesFilled' /\ CallsCounted' /\ AttemptsCounted' /\ Own'
  BY <1>0, <1>4 DEF TablesFilled, CallsCounted, AttemptsCounted, Own
<1> QED BY <1>1, <1>3, <1>5 DEF WorkerInv

(* The execution goes on while the tables stay: what is left to show.      *)
LEMMA ExecutionKeepsWorkerInv ==
  ASSUME WorkerInv, UNCHANGED tables, crashes' \in Nat, execution' \in Execution,
         Equipped', CallsCounted',
         Unshadowed =>
           /\ execution'.package \in {NotRegistered, job.package}
           /\ execution'.ran \in {NotRegistered, job.activity},
         Unshadowed /\ execution'.equipped =>
           /\ execution'.attempts = crashes'
           /\ execution'.outcome = "failed" => execution'.calls > 0 \/ crashes' = MaxAttempts
  PROVE  WorkerInv'
<1>1. UNCHANGED <<workflows, activities, registered, handlers, job>>
  BY DEF tables
<1>2. WorkerTypeOK' /\ TablesFilled'
  BY <1>1 DEF WorkerInv, WorkerTypeOK, TablesFilled
<1>3. Unshadowed' <=> Unshadowed
  BY <1>1 DEF Unshadowed, Colleagues
<1>4. AttemptsCounted' /\ Own'
  BY <1>1, <1>3 DEF AttemptsCounted, Own
<1> QED BY <1>2, <1>4 DEF WorkerInv

(* A worker of the queue knows the package and the activity that a job     *)
(* which nothing shadows means.                                            *)
LEMMA TablesMeanTheJob ==
  ASSUME WorkerInv, Unshadowed, NEW w \in Colleagues
  PROVE  /\ workflows[w][job.type] \in {NotRegistered, job.package}
         /\ activities[w][ActivityName(job.package)] \in {NotRegistered, job.activity}
         /\ execution.equipped => activities[w][ActivityName(job.package)] # NotRegistered
<1>0. /\ WorkerTypeOK /\ TablesFilled /\ Equipped /\ w \in Workers
      /\ job.type \in AllTypes /\ ActivityName(job.package) \in ActivityNames
  BY Names DEF WorkerInv, WorkerTypeOK, Colleagues
<1>1. \A j \in registered[w] : j \in UNION {registered[v] : v \in Colleagues}
  OBVIOUS
<1>2. \A j \in registered[w] :
        /\ job.type \in Types(j.package) => j.package = job.package
        /\ ActivityName(j.package) = ActivityName(job.package) => j.activity = job.activity
  BY <1>1 DEF Unshadowed
<1>3. workflows[w][job.type] \in {NotRegistered, job.package}
  BY <1>0, <1>2 DEF TablesFilled
<1>4. activities[w][ActivityName(job.package)] \in {NotRegistered, job.activity}
  BY <1>0, <1>2 DEF TablesFilled
<1>5. execution.equipped => activities[w][ActivityName(job.package)] # NotRegistered
  BY <1>0 DEF TablesFilled, Equipped
<1> QED BY <1>3, <1>4, <1>5

(* The job is started.                                                     *)
LEMMA ExecuteKeepsWorkerInv ==
  ASSUME WorkerInv, Execute
  PROVE  WorkerInv'
<1> DEFINE eq == Knows(job.activity) /\ \A w \in Colleagues : job \in registered[w]
<1>0. /\ WorkerTypeOK /\ CallsCounted /\ Own
      /\ execution \in Execution /\ execution.outcome = "new"
      /\ execution' = [execution EXCEPT !.outcome = "open", !.equipped = eq]
      /\ UNCHANGED tables /\ crashes' = crashes
  BY DEF WorkerInv, WorkerTypeOK, Execute
<1>1. eq \in BOOLEAN
  OBVIOUS
<1>2. UNCHANGED <<workflows, activities, registered, handlers, job>>
  BY <1>0 DEF tables
<1>3. eq' <=> eq
  BY <1>2 DEF Knows, Colleagues
<1>4. eq => Knows(job.activity)' /\ \A w \in Colleagues' : job' \in registered'[w]
  BY <1>3
<1> HIDE DEF eq
<1>5. execution' \in Execution
  BY <1>0, <1>1 DEF Execution
<1>6. /\ execution'.outcome = "open" /\ execution'.equipped = eq
      /\ execution'.package = execution.package /\ execution'.ran = execution.ran
      /\ execution'.attempts = execution.attempts /\ execution'.calls = execution.calls
  BY <1>0 DEF Execution
<1>7. Equipped'
  BY <1>4, <1>6 DEF Equipped
<1>8. CallsCounted'
  BY <1>0, <1>6 DEF CallsCounted
<1>9. crashes' \in Nat
  BY <1>0 DEF WorkerTypeOK
<1> QED BY <1>0, <1>5, <1>6, <1>7, <1>8, <1>9, ExecutionKeepsWorkerInv DEF CallsCounted, Own

(* A worker takes the workflow's first task.                               *)
LEMMA WorkflowTaskKeepsWorkerInv ==
  ASSUME WorkerInv, NEW w \in Workers, WorkflowTask(w)
  PROVE  WorkerInv'
<1> DEFINE package == workflows[w][job.type]
           next == IF package = job.package THEN execution.outcome ELSE "failed"
<1>0. /\ WorkerTypeOK /\ CallsCounted /\ Own /\ Equipped /\ AttemptsCounted
      /\ execution \in Execution /\ execution.outcome = "open" /\ w \in Colleagues
      /\ package # NotRegistered
      /\ execution' = [execution EXCEPT !.package = package, !.outcome = next]
      /\ UNCHANGED tables /\ crashes' = crashes
  BY DEF WorkerInv, WorkerTypeOK, WorkflowTask
<1>1. package \in Packages /\ next \in {"open", "failed"}
  BY <1>0, Names DEF WorkerTypeOK
<1>2. Unshadowed => package = job.package /\ next = "open"
  BY <1>0, TablesMeanTheJob
<1> HIDE DEF package, next
<1>3. execution' \in Execution
  BY <1>0, <1>1 DEF Execution
<1>4. /\ execution'.outcome = next /\ execution'.equipped = execution.equipped
      /\ execution'.package = package /\ execution'.ran = execution.ran
      /\ execution'.attempts = execution.attempts /\ execution'.calls = execution.calls
  BY <1>0 DEF Execution
<1>5. Equipped'
  BY <1>0, <1>4 DEF Equipped, tables, Knows, Colleagues
<1>6. CallsCounted'
  BY <1>0, <1>1, <1>4 DEF CallsCounted
<1>7. crashes' \in Nat
  BY <1>0 DEF WorkerTypeOK
<1> QED BY <1>0, <1>2, <1>3, <1>4, <1>5, <1>6, <1>7, ExecutionKeepsWorkerInv DEF AttemptsCounted, Own

(* How an attempt that fails or ends it changes the execution.             *)
LEMMA ExecutionStates ==
  ASSUME NEW e \in Execution
  PROVE  /\ Attempted(e) \in Execution
         /\ Attempted(e).package = e.package /\ Attempted(e).ran = e.ran
         /\ Attempted(e).equipped = e.equipped /\ Attempted(e).calls = e.calls
         /\ Attempted(e).attempts = e.attempts + 1
         /\ Attempted(e).outcome = IF e.attempts + 1 = MaxAttempts THEN "failed" ELSE e.outcome
         /\ \A o \in {"succeeded", "failed"} :
              LET c == [e EXCEPT !.outcome = o]
              IN  /\ c \in Execution /\ c.package = e.package /\ c.ran = e.ran
                  /\ c.equipped = e.equipped /\ c.calls = e.calls /\ c.attempts = e.attempts
                  /\ c.outcome = o
<1>1. e.attempts + 1 \in Nat /\ e.calls + 1 \in Nat
  BY DEF Execution
<1>2. /\ Attempted(e) \in Execution
      /\ Attempted(e).package = e.package /\ Attempted(e).ran = e.ran
      /\ Attempted(e).equipped = e.equipped /\ Attempted(e).calls = e.calls
      /\ Attempted(e).attempts = e.attempts + 1
      /\ Attempted(e).outcome = IF e.attempts + 1 = MaxAttempts THEN "failed" ELSE e.outcome
  <2> DEFINE a == e.attempts + 1
             o == IF a = MaxAttempts THEN "failed" ELSE e.outcome
  <2>1. a \in Nat /\ o \in {"new", "open", "succeeded", "failed"}
    BY <1>1 DEF Execution
  <2>2. Attempted(e) = [e EXCEPT !.attempts = a, !.outcome = o]
    BY DEF Attempted
  <2> HIDE DEF a, o
  <2>3. Attempted(e) \in Execution
    BY <2>1, <2>2 DEF Execution
  <2>4. /\ Attempted(e).package = e.package /\ Attempted(e).ran = e.ran
        /\ Attempted(e).equipped = e.equipped /\ Attempted(e).calls = e.calls
        /\ Attempted(e).attempts = a /\ Attempted(e).outcome = o
    BY <2>2 DEF Execution
  <2> QED BY <2>3, <2>4 DEF a, o
<1>3. ASSUME NEW o \in {"succeeded", "failed"}
      PROVE  LET c == [e EXCEPT !.outcome = o]
              IN  /\ c \in Execution /\ c.package = e.package /\ c.ran = e.ran
                  /\ c.equipped = e.equipped /\ c.calls = e.calls /\ c.attempts = e.attempts
                  /\ c.outcome = o
  BY DEF Execution
<1> QED BY <1>2, <1>3

(* The activity is run by a worker that takes it, or the worker is lost    *)
(* with it: what the handler's caller sees, and what an attempt leaves.    *)
LEMMA ActivityKeepsWorkerInv ==
  ASSUME WorkerInv, NEW w \in Workers, ActivityTask(w) \/ AttemptLost(w)
  PROVE  WorkerInv'
<1> DEFINE i == Implementation(w)
           called == Called(i)
<1>0. /\ WorkerTypeOK /\ CallsCounted /\ Own /\ Equipped /\ AttemptsCounted
      /\ execution \in Execution /\ execution.outcome = "open" /\ w \in Colleagues
      /\ execution.package \in Packages /\ crashes \in Nat
      /\ UNCHANGED tables
  BY DEF WorkerInv, WorkerTypeOK, ActivityTask, AttemptLost, Takes, Execution, Packages
<1>1. i \in Implementations \cup {NotRegistered}
  BY <1>0, Names DEF Implementation, WorkerTypeOK
<1>2. Unshadowed => /\ execution.package = job.package
                    /\ i \in {NotRegistered, job.activity}
                    /\ execution.equipped => i = job.activity /\ Callable(w)
  <2> SUFFICES ASSUME Unshadowed
               PROVE  /\ execution.package = job.package
                      /\ i \in {NotRegistered, job.activity}
                      /\ execution.equipped => i = job.activity /\ Callable(w)
    OBVIOUS
  <2>1. execution.package = job.package
    BY <1>0, Names DEF Own
  <2>2. i = activities[w][ActivityName(job.package)]
    BY <2>1 DEF Implementation
  <2>3. /\ i \in {NotRegistered, job.activity}
        /\ execution.equipped => i # NotRegistered
    BY <2>2, <1>0, TablesMeanTheJob
  <2>4. ASSUME execution.equipped PROVE i = job.activity /\ Callable(w)
    BY <2>3, <2>4, <1>0 DEF Equipped, Callable
  <2> QED BY <2>1, <2>3, <2>4
<1>3. Callable(w) => i \in Implementations
  BY <1>1 DEF Callable
<1>4. Equipped /\ execution'.equipped = execution.equipped => Equipped'
  BY <1>0 DEF Equipped, tables, Knows, Colleagues
<1>5. execution.calls \in Nat /\ execution.attempts \in Nat
  BY <1>0 DEF Execution
<1>6. Callable(w) =>
        /\ called \in Execution /\ called.package = execution.package /\ called.ran = i
        /\ called.equipped = execution.equipped /\ called.calls = execution.calls + 1
        /\ called.attempts = execution.attempts /\ called.outcome = execution.outcome
  <2> DEFINE n == execution.calls + 1
             c == [execution EXCEPT !.calls = n, !.ran = i]
  <2> SUFFICES ASSUME i \in Implementations
               PROVE  /\ c \in Execution /\ c.package = execution.package /\ c.ran = i
                      /\ c.equipped = execution.equipped /\ c.calls = n
                      /\ c.attempts = execution.attempts /\ c.outcome = execution.outcome
    BY <1>3 DEF Called
  <2>1. n \in Nat
    BY <1>5
  <2> HIDE DEF n, i
  <2>2. c \in Execution
    BY <2>1, <1>0 DEF Execution
  <2>3. /\ c.package = execution.package /\ c.ran = i /\ c.equipped = execution.equipped
        /\ c.calls = n /\ c.attempts = execution.attempts /\ c.outcome = execution.outcome
    BY <1>0 DEF Execution
  <2> QED BY <2>2, <2>3
<1> HIDE DEF i, called
<1>7. CASE ~ Callable(w) /\ execution' = Attempted(execution) /\ crashes' = crashes
  <2>1. /\ execution' \in Execution /\ execution'.calls = execution.calls
        /\ execution'.package = execution.package /\ execution'.ran = execution.ran
        /\ execution'.equipped = execution.equipped /\ execution'.outcome \in {"open", "failed"}
    BY <1>0, <1>7, ExecutionStates
  <2>2. CallsCounted'
    BY <2>1, <1>0, <1>5, <1>7 DEF CallsCounted
  <2>3. Unshadowed => ~ execution'.equipped
    BY <2>1, <1>2, <1>7
  <2> QED BY <2>1, <2>2, <2>3, <1>0, <1>4, <1>7, ExecutionKeepsWorkerInv DEF Own
<1>8. CASE Callable(w) /\ crashes' = crashes
             /\ \E o \in {"succeeded", "failed"} : execution' = [called EXCEPT !.outcome = o]
  <2>1. /\ execution' \in Execution /\ execution'.calls = execution.calls + 1
        /\ execution'.package = execution.package /\ execution'.ran = i
        /\ execution'.equipped = execution.equipped /\ execution'.outcome \in {"succeeded", "failed"}
        /\ execution'.attempts = execution.attempts
    <3>1. PICK o \in {"succeeded", "failed"} : execution' = [called EXCEPT !.outcome = o]
      BY <1>8
    <3>2. LET c == [called EXCEPT !.outcome = o]
          IN  /\ c \in Execution /\ c.package = called.package /\ c.ran = called.ran
              /\ c.equipped = called.equipped /\ c.calls = called.calls /\ c.attempts = called.attempts
              /\ c.outcome = o
      BY <1>6, <1>8, ExecutionStates
    <3> QED BY <3>1, <3>2, <1>6, <1>8
  <2>2. CallsCounted'
    BY <2>1, <1>0, <1>5, <1>8 DEF CallsCounted
  <2>3. execution'.calls > 0
    BY <2>1, <1>5
  <2>4. Unshadowed => execution'.package \in {NotRegistered, job.package}
                        /\ execution'.ran \in {NotRegistered, job.activity}
    BY <2>1, <1>2
  <2>5. Unshadowed /\ execution'.equipped => execution'.attempts = crashes'
    BY <2>1, <1>0, <1>8 DEF AttemptsCounted
  <2> QED BY <2>1, <2>2, <2>3, <2>4, <2>5, <1>0, <1>4, <1>8, ExecutionKeepsWorkerInv
<1>9. CASE Callable(w) /\ crashes' = crashes + 1
             /\ execution' \in {Attempted(execution), Attempted(called)}
  <2>1. /\ execution' \in Execution /\ execution'.calls \in {execution.calls, execution.calls + 1}
        /\ execution'.package = execution.package /\ execution'.ran \in {execution.ran, i}
        /\ execution'.equipped = execution.equipped
        /\ execution'.attempts = execution.attempts + 1
        /\ execution'.outcome = IF execution.attempts + 1 = MaxAttempts THEN "failed" ELSE "open"
    <3>1. CASE execution' = Attempted(execution)
      BY <3>1, <1>0, ExecutionStates
    <3>2. CASE execution' = Attempted(called)
      <4>1. /\ Attempted(called) \in Execution /\ Attempted(called).package = called.package
            /\ Attempted(called).ran = called.ran /\ Attempted(called).equipped = called.equipped
            /\ Attempted(called).calls = called.calls
            /\ Attempted(called).attempts = called.attempts + 1
            /\ Attempted(called).outcome =
                 IF called.attempts + 1 = MaxAttempts THEN "failed" ELSE called.outcome
        BY <1>6, <1>9, ExecutionStates
      <4> QED BY <4>1, <3>2, <1>0, <1>6, <1>9
    <3> QED BY <3>1, <3>2, <1>9
  <2>2. CallsCounted'
    BY <2>1, <1>0, <1>5, <1>9 DEF CallsCounted
  <2>3. Unshadowed => execution'.package \in {NotRegistered, job.package}
                        /\ execution'.ran \in {NotRegistered, job.activity}
    BY <2>1, <1>0, <1>2 DEF Own
  <2>4. ASSUME Unshadowed, execution'.equipped
        PROVE  /\ execution'.attempts = crashes'
               /\ execution'.outcome = "failed" => crashes' = MaxAttempts
    BY <2>1, <2>4, <1>0, <1>5, <1>9 DEF AttemptsCounted
  <2>5. crashes' \in Nat
    BY <1>0, <1>9
  <2> QED BY <2>1, <2>2, <2>3, <2>4, <2>5, <1>0, <1>4, ExecutionKeepsWorkerInv
<1> QED
  <2>1. CASE ActivityTask(w)
    BY <2>1, <1>7, <1>8 DEF ActivityTask, Handled, i, called
  <2>2. CASE AttemptLost(w)
    BY <2>2, <1>9 DEF AttemptLost, i, called
  <2> QED BY <2>1, <2>2

(* Every step of the workers keeps the invariant.                          *)
LEMMA WorkerKeepsInv ==
  ASSUME WorkerInv, [WorkerNext]_workerVars
  PROVE  WorkerInv'
<1>1. CASE UNCHANGED workerVars
  BY <1>1 DEF workerVars, WorkerInv, WorkerTypeOK, TablesFilled, Equipped, CallsCounted, AttemptsCounted,
              Own, Unshadowed, Colleagues, Knows
<1> QED BY <1>1, RegisterKeepsWorkerInv, HandlerKeepsWorkerInv, ExecuteKeepsWorkerInv,
           WorkflowTaskKeepsWorkerInv, ActivityKeepsWorkerInv DEF WorkerNext

(* The invariant of the workers.                                           *)
LEMMA WorkerInvariant == WorkerSpec => []WorkerInv
<1>1. WorkerInit => WorkerInv
  BY WorkerStart
<1>2. WorkerInv /\ [WorkerNext]_workerVars => WorkerInv'
  BY WorkerKeepsInv
<1> QED BY <1>1, <1>2, PTL DEF WorkerSpec

(* A handler is called again for lost attempts only: its error, its panic  *)
(* or a container's exit code is the result, which Temporal does not retry.*)
THEOREM HandlersAreNotRetried == WorkerSpec => []HandlerNotRetried
<1>1. WorkerInv => HandlerNotRetried
  BY DEF WorkerInv, CallsCounted, HandlerNotRetried
<1> QED BY <1>1, WorkerInvariant, PTL

(* A job whose names mean nothing else on its queue is run by its own      *)
(* package and registry; when every worker had it as it started, it fails  *)
(* only after its function was called or with every attempt lost.          *)
THEOREM JobsRunTheirOwnImplementation == WorkerSpec => []OwnImplementationRuns
<1>1. WorkerInv => OwnImplementationRuns
  BY DEF WorkerInv, Own, AttemptsCounted, OwnImplementationRuns
<1> QED BY <1>1, WorkerInvariant, PTL

-----------------------------------------------------------------------------
(* The patterns                                                            *)

(* What every call of Add keeps, a list of them keeps.                     *)
LEMMA AddAll ==
  ASSUME NEW stages, NEW n \in Nat, DOMAIN stages = 1 .. n, NEW P, NEW base \in P,
         \A k \in 1 .. n, b \in P : Add(b, stages[k]) \in P
  PROVE  FoldLeft(Add, base, stages) \in P
<1> DEFINE S == 1 .. n
           Step(k, b) == Add(b, stages[k])
           Folds(g) == g = [s \in SUBSET S |->
                              IF s = {} THEN base ELSE Step(Max(s), g[s \ {Max(s)}])]
           h == CHOOSE g : Folds(g)
           step == [k \in S |-> [b \in P |-> Step(k, b)]]
<1>1. FoldLeft(Add, base, stages) = h[S]
  BY DEF FoldLeft, MapThenFoldSet
<1>2. \A k \in S, b \in P : step[k][b] = Step(k, b) /\ step[k][b] \in P
  OBVIOUS
<1>3. PICK g : IsLeftFold(g, n, P, base, step)
  <2>1. \A k \in 1 .. n, b \in P : step[k][b] \in P
    BY <1>2
  <2> HIDE DEF step
  <2> QED BY <2>1, LeftFoldDefined
<1>4. ASSUME NEW s \in SUBSET S, s # {}, NEW f, f[s \ {Max(s)}] \in P
      PROVE  Step(Max(s), f[s \ {Max(s)}]) = step[Max(s)][f[s \ {Max(s)}]]
  <2>1. Max(s) \in S
    BY <1>3, <1>4 DEF IsLeftFold
  <2> HIDE DEF step, Step
  <2> QED BY <1>2, <1>4, <2>1
<1>5. Folds(g)
  <2>1. ASSUME NEW s \in SUBSET S, s # {} PROVE g[s] = Step(Max(s), g[s \ {Max(s)}])
    <3>1. g[s] = step[Max(s)][g[s \ {Max(s)}]] /\ g[s \ {Max(s)}] \in P
      BY <1>3, <2>1 DEF IsLeftFold
    <3> HIDE DEF step, Step
    <3> QED BY <1>4, <2>1, <3>1
  <2> HIDE DEF Step, step
  <2> QED BY <1>3, <2>1 DEF IsLeftFold
<1>6. Folds(h)
  <2> HIDE DEF Folds
  <2> QED BY <1>5
<1>7. h[{}] = base
  <2> HIDE DEF h, Step
  <2> QED BY <1>6
<1>8. \A s \in SUBSET (1 .. n) : s # {} /\ h[s \ {Max(s)}] \in P =>
        h[s] = step[Max(s)][h[s \ {Max(s)}]]
  <2> SUFFICES ASSUME NEW s \in SUBSET S, s # {}, h[s \ {Max(s)}] \in P
               PROVE  h[s] = step[Max(s)][h[s \ {Max(s)}]]
    OBVIOUS
  <2>1. h[s] = Step(Max(s), h[s \ {Max(s)}])
    <3> HIDE DEF h, Step
    <3> QED BY <1>6
  <2> HIDE DEF h, Step, step
  <2> QED BY <2>1, <1>4
<1>9. h[S] = g[S]
  <2>1. \A s \in SUBSET (1 .. n) : h[s] = g[s]
    <3> HIDE DEF h, step
    <3> QED BY <1>3, <1>7, <1>8, LeftFoldUnique
  <2> HIDE DEF h
  <2> QED BY <2>1
<1>10. g[S] \in P
  BY <1>3 DEF IsLeftFold
<1> QED
  <2> HIDE DEF h
  <2> QED BY <1>1, <1>9, <1>10

(* The builder without options.                                            *)
EmptyBuilder ==
  [tasks |-> <<>>, stopOnError |-> TRUE, cleanup |-> FALSE, failFast |-> FALSE,
   maxConcurrency |-> 0, errors |-> <<>>, name |-> "", queue |-> "",
   activity |-> "container", mode |-> "unset", exitHandlers |-> <<>>, options |-> Nil]

LEMMA NoOptions == NewWorkflowBuilder(<<>>) = EmptyBuilder
<1> DEFINE Folds(g) == g = [s \in SUBSET (DOMAIN <<>>) |->
                              IF s = {} THEN EmptyBuilder
                                ELSE BuilderOption(g[s \ {Max(s)}], <<>>[Max(s)])]
           h == CHOOSE g : Folds(g)
<1>1. NewWorkflowBuilder(<<>>) = h[DOMAIN <<>>]
  BY DEF NewWorkflowBuilder, EmptyBuilder, FoldLeft, MapThenFoldSet
<1>2. DOMAIN <<>> = {}
  OBVIOUS
<1>3. Folds([s \in {{}} |-> EmptyBuilder])
  BY <1>2
<1>4. Folds(h)
  <2> HIDE DEF Folds
  <2> QED BY <1>3
<1>5. h[{}] = EmptyBuilder
  <2> HIDE DEF h
  <2> QED BY <1>4, <1>2
<1> QED
  <2> HIDE DEF h
  <2> QED BY <1>1, <1>2, <1>5

(* The builders that Add and AddInput make of the one without options.     *)
ChainErrors == {"cannot add nil source"}

ChainBuilders(T) ==
  [tasks : Seq(T), stopOnError : {TRUE}, cleanup : {FALSE}, failFast : {FALSE},
   maxConcurrency : {0}, errors : Seq(ChainErrors), name : {""}, queue : {""},
   activity : {"container"}, mode : {"unset"}, exitHandlers : {<<>>}, options : {Nil}]

GenericBuilders(T) ==
  [tasks : Seq(T), stopOnError : {TRUE}, cleanup : {FALSE}, failFast : {FALSE},
   maxConcurrency : {0}, errors : Seq(ChainErrors)]

LEMMA ChainsFilled ==
  ASSUME NEW T, NEW b \in ChainBuilders(T), NEW t \in T
  PROVE  AddInput(b, t) \in ChainBuilders(T) /\ Add(b, t) \in ChainBuilders(T)
<1>1. ASSUME NEW list \in Seq(T)
      PROVE  [b EXCEPT !.tasks = list] \in ChainBuilders(T)
  BY DEF ChainBuilders
<1>2. ASSUME NEW list \in Seq(ChainErrors)
      PROVE  [b EXCEPT !.errors = list] \in ChainBuilders(T)
  BY DEF ChainBuilders
<1>3. b.tasks \in Seq(T) /\ b.errors \in Seq(ChainErrors)
  BY DEF ChainBuilders
<1>4. Append(b.tasks, t) \in Seq(T)
  BY <1>3
<1>5. Append(b.errors, "cannot add nil source") \in Seq(ChainErrors)
  <2> DEFINE m == "cannot add nil source"
  <2>1. m \in ChainErrors
    BY DEF ChainErrors
  <2> HIDE DEF m
  <2>2. Append(b.errors, m) \in Seq(ChainErrors)
    BY <1>3, <2>1
  <2> QED BY <2>2 DEF m
<1> QED BY <1>1, <1>2, <1>4, <1>5 DEF Add, AddInput, Accumulate

LEMMA GenericFilled ==
  ASSUME NEW T, NEW b \in GenericBuilders(T), NEW t \in T
  PROVE  AddInput(b, t) \in GenericBuilders(T)
<1>1. ASSUME NEW list \in Seq(T)
      PROVE  [b EXCEPT !.tasks = list] \in GenericBuilders(T)
  BY DEF GenericBuilders
<1>2. b.tasks \in Seq(T)
  BY DEF GenericBuilders
<1>3. Append(b.tasks, t) \in Seq(T)
  BY <1>2
<1> QED BY <1>1, <1>3 DEF AddInput

LEMMA EmptyFilled ==
  ASSUME NEW T
  PROVE  EmptyBuilder \in ChainBuilders(T) /\ NewGenericBuilder \in GenericBuilders(T)
BY DEF EmptyBuilder, ChainBuilders, GenericBuilders, NewGenericBuilder

LEMMA ChainFacts ==
  ASSUME NEW stages, NEW n \in Nat, DOMAIN stages = 1 .. n
  PROVE  \E T : Chain(stages) \in ChainBuilders(T)
<1> DEFINE T == {stages[k] : k \in 1 .. n}
           P == ChainBuilders(T)
<1>1. EmptyBuilder \in P
  BY EmptyFilled
<1>2. \A k \in 1 .. n, b \in P : Add(b, stages[k]) \in P
  BY ChainsFilled
<1>3. FoldLeft(Add, EmptyBuilder, stages) \in P
  <2> HIDE DEF P
  <2> QED BY <1>1, <1>2, AddAll
<1> QED BY <1>3, NoOptions DEF Chain

(* A pipeline that stops at an error, and a loop that fails fast, launch   *)
(* their tasks one by one until one of them fails.                         *)
OneByOne(i) == i = Failed \/ (RunsAtOnce(i) = FALSE /\ StopsOnFailure(i) = TRUE)

LEMMA FailedPipeline ==
  ASSUME NEW b, b.stopOnError = TRUE
  PROVE  OneByOne(PipelineInput(b))
BY DEF OneByOne, PipelineInput, RunsAtOnce, StopsOnFailure

LEMMA ChainPipelines ==
  ASSUME NEW T, NEW b \in ChainBuilders(T)
  PROVE  /\ OneByOne(BuildPipeline(Set(b, "stopOnError", TRUE)))
         /\ OneByOne(BuildPipeline(b))
         /\ \A s : OneByOne(BuildPipeline(AddExitHandler(Set(b, "stopOnError", TRUE), s)))
<1>1. ASSUME NEW c, c.stopOnError = TRUE PROVE OneByOne(BuildPipeline(c))
  <2>1. OneByOne(PipelineInput(c)) /\ OneByOne(Failed)
    BY <1>1, FailedPipeline DEF OneByOne
  <2> QED BY <2>1 DEF BuildPipeline
<1>2. b.stopOnError = TRUE /\ {"stopOnError", "exitHandlers", "errors"} \subseteq DOMAIN b
  BY DEF ChainBuilders
<1>3. Set(b, "stopOnError", TRUE).stopOnError = TRUE
  BY <1>2 DEF Set
<1>4. ASSUME NEW s
      PROVE  AddExitHandler(Set(b, "stopOnError", TRUE), s).stopOnError = TRUE
  <2> DEFINE c == Set(b, "stopOnError", TRUE)
  <2>1. DOMAIN c = DOMAIN b
    BY DEF Set
  <2>2. c.stopOnError = TRUE /\ "stopOnError" \in DOMAIN c
    BY <1>2, <1>3, <2>1
  <2> HIDE DEF c
  <2>3. Accumulate(c, "cannot add nil exit handler").stopOnError = TRUE
    BY <2>2 DEF Accumulate
  <2>4. AddExitHandlerInput(c, s).stopOnError = TRUE
    BY <2>2 DEF AddExitHandlerInput
  <2> QED BY <2>3, <2>4 DEF AddExitHandler, c
<1> QED BY <1>1, <1>2, <1>3, <1>4

(* What AddInput keeps, a list of them keeps: as AddAll.                   *)
LEMMA AddInputAll ==
  ASSUME NEW stages, NEW n \in Nat, DOMAIN stages = 1 .. n, NEW P, NEW base \in P,
         \A k \in 1 .. n, b \in P : AddInput(b, stages[k]) \in P
  PROVE  FoldLeft(AddInput, base, stages) \in P
<1> DEFINE S == 1 .. n
           Step(k, b) == AddInput(b, stages[k])
           Folds(g) == g = [s \in SUBSET S |->
                              IF s = {} THEN base ELSE Step(Max(s), g[s \ {Max(s)}])]
           h == CHOOSE g : Folds(g)
           step == [k \in S |-> [b \in P |-> Step(k, b)]]
<1>1. FoldLeft(AddInput, base, stages) = h[S]
  BY DEF FoldLeft, MapThenFoldSet
<1>2. \A k \in S, b \in P : step[k][b] = Step(k, b) /\ step[k][b] \in P
  OBVIOUS
<1>3. PICK g : IsLeftFold(g, n, P, base, step)
  <2>1. \A k \in 1 .. n, b \in P : step[k][b] \in P
    BY <1>2
  <2> HIDE DEF step
  <2> QED BY <2>1, LeftFoldDefined
<1>4. ASSUME NEW s \in SUBSET S, s # {}, NEW f, f[s \ {Max(s)}] \in P
      PROVE  Step(Max(s), f[s \ {Max(s)}]) = step[Max(s)][f[s \ {Max(s)}]]
  <2>1. Max(s) \in S
    BY <1>3, <1>4 DEF IsLeftFold
  <2> HIDE DEF step, Step
  <2> QED BY <1>2, <1>4, <2>1
<1>5. Folds(g)
  <2>1. ASSUME NEW s \in SUBSET S, s # {} PROVE g[s] = Step(Max(s), g[s \ {Max(s)}])
    <3>1. g[s] = step[Max(s)][g[s \ {Max(s)}]] /\ g[s \ {Max(s)}] \in P
      BY <1>3, <2>1 DEF IsLeftFold
    <3> HIDE DEF step, Step
    <3> QED BY <1>4, <2>1, <3>1
  <2> HIDE DEF Step, step
  <2> QED BY <1>3, <2>1 DEF IsLeftFold
<1>6. Folds(h)
  <2> HIDE DEF Folds
  <2> QED BY <1>5
<1>7. h[{}] = base
  <2> HIDE DEF h, Step
  <2> QED BY <1>6
<1>8. \A s \in SUBSET (1 .. n) : s # {} /\ h[s \ {Max(s)}] \in P =>
        h[s] = step[Max(s)][h[s \ {Max(s)}]]
  <2> SUFFICES ASSUME NEW s \in SUBSET S, s # {}, h[s \ {Max(s)}] \in P
               PROVE  h[s] = step[Max(s)][h[s \ {Max(s)}]]
    OBVIOUS
  <2>1. h[s] = Step(Max(s), h[s \ {Max(s)}])
    <3> HIDE DEF h, Step
    <3> QED BY <1>6
  <2> HIDE DEF h, Step, step
  <2> QED BY <2>1, <1>4
<1>9. h[S] = g[S]
  <2>1. \A s \in SUBSET (1 .. n) : h[s] = g[s]
    <3> HIDE DEF h, step
    <3> QED BY <1>3, <1>7, <1>8, LeftFoldUnique
  <2> HIDE DEF h
  <2> QED BY <2>1
<1>10. g[S] \in P
  BY <1>3 DEF IsLeftFold
<1> QED
  <2> HIDE DEF h
  <2> QED BY <1>1, <1>9, <1>10


LEMMA FunctionChains ==
  ASSUME NEW names, NEW n \in Nat, DOMAIN names = 1 .. n
  PROVE  OneByOne(FunctionSteps(names))
<1> DEFINE T == {names[k] : k \in 1 .. n}
           P == GenericBuilders(T)
           b == WithFunctions(names)
<1>1. NewGenericBuilder \in P
  BY EmptyFilled
<1>2. \A k \in 1 .. n, c \in P : AddInput(c, names[k]) \in P
  BY GenericFilled
<1>3. b \in P
  <2> HIDE DEF P
  <2> QED BY <1>1, <1>2, AddInputAll DEF WithFunctions
<1>4. b.stopOnError = TRUE
  BY <1>3 DEF GenericBuilders
<1>5. OneByOne(PipelineInput(b)) /\ OneByOne(Failed)
  <2> HIDE DEF b
  <2> QED BY <1>4, FailedPipeline DEF OneByOne
<1> QED BY <1>5 DEF FunctionSteps, GenericBuildPipeline

LEMMA ChainedStages ==
  ASSUME NEW stages, NEW n \in Nat, DOMAIN stages = 1 .. n
  PROVE  /\ OneByOne(BuildPipeline(Set(Chain(stages), "stopOnError", TRUE)))
         /\ \A s : OneByOne(BuildPipeline(AddExitHandler(Set(Chain(stages), "stopOnError", TRUE), s)))
<1>1. PICK T : Chain(stages) \in ChainBuilders(T)
  BY ChainFacts
<1> DEFINE b == Chain(stages)
<1> HIDE DEF b
<1>2. b \in ChainBuilders(T)
  BY <1>1 DEF b
<1>3. /\ OneByOne(BuildPipeline(Set(b, "stopOnError", TRUE)))
      /\ \A s : OneByOne(BuildPipeline(AddExitHandler(Set(b, "stopOnError", TRUE), s)))
  BY <1>2, ChainPipelines
<1> QED BY <1>3 DEF b

LEMMA LoopsOneByOne ==
  ASSUME NEW items
  PROVE  OneByOne(SequentialLoop(items)) /\ OneByOne(SequentialMigration(items))
<1>1. OneByOne(SequentialLoop(items))
  BY DEF SequentialLoop, newLoopInput, OneByOne, RunsAtOnce, StopsOnFailure
<1> DEFINE b == Set(Set(WithTemplate(NewFunctionLoopBuilder(items), "run-migration"), "parallel", FALSE),
                    "failFast", TRUE)
<1>2. b.parallel = FALSE /\ b.failFast = TRUE
  BY DEF Set, WithTemplate, NewFunctionLoopBuilder, LoopBuilder
<1> HIDE DEF b
<1>3. OneByOne(LoopInput(b)) /\ OneByOne(Failed)
  BY <1>2 DEF LoopInput, OneByOne, RunsAtOnce, StopsOnFailure, Strategy
<1>4. OneByOne(BuildFunctionLoop(b))
  BY <1>3 DEF BuildFunctionLoop
<1>5. OneByOne(SequentialMigration(items))
  BY <1>4 DEF b, SequentialMigration
<1> QED BY <1>1, <1>5

LEMMA MapReduceOneByOne ==
  ASSUME NEW inputs, NEW n \in Nat, DOMAIN inputs = 1 .. n
  PROVE  OneByOne(MapReduce(inputs))
<1> DEFINE stages == MapStages(inputs)
           maps == ParallelChain(stages, FALSE)
<1>1. CASE maps = Failed
  BY <1>1 DEF MapReduce, OneByOne
<1>2. CASE maps # Failed
  <2>1. DOMAIN stages = 1 .. n
    BY DEF MapStages
  <2>2. PICK T : Chain(stages) \in ChainBuilders(T)
    <3> HIDE DEF stages
    <3> QED BY <2>1, ChainFacts
  <2> DEFINE c == Set(Chain(stages), "failFast", FALSE)
  <2>3. maps = ParallelInput(c)
    BY <1>2 DEF ParallelChain, BuildParallel
  <2>4. c.tasks \in Seq(T)
    <3> DEFINE b == Chain(stages)
    <3> HIDE DEF b
    <3>1. b \in ChainBuilders(T)
      BY <2>2 DEF b
    <3>2. [b EXCEPT !["failFast"] = FALSE].tasks = b.tasks /\ b.tasks \in Seq(T)
      BY <3>1 DEF ChainBuilders
    <3> QED BY <3>2 DEF Set, b
  <2>5. maps.tasks = c.tasks
    <3> HIDE DEF c, maps
    <3> QED BY <2>3 DEF ParallelInput
  <2> DEFINE list == maps.tasks
             U == T \cup {Stage("reduce")}
             filled == FoldLeft(AddInput, NewWorkflowBuilder(<<>>), list)
  <2>6. list \in Seq(T)
    <3> HIDE DEF c, maps
    <3> QED BY <2>4, <2>5
  <2>7. PICK m \in Nat : DOMAIN list = 1 .. m
    <3> HIDE DEF list
    <3> QED BY <2>6
  <2>8. \A k \in 1 .. m : list[k] \in U
    <3> HIDE DEF list
    <3> QED BY <2>6, <2>7
  <2>9. filled \in ChainBuilders(U)
    <3> HIDE DEF list, U
    <3>1. EmptyBuilder \in ChainBuilders(U)
      BY EmptyFilled
    <3>2. \A k \in 1 .. m, b \in ChainBuilders(U) : AddInput(b, list[k]) \in ChainBuilders(U)
      BY <2>8, ChainsFilled
    <3> DEFINE P == ChainBuilders(U)
    <3> HIDE DEF P
    <3>3. EmptyBuilder \in P /\ \A k \in 1 .. m, b \in P : AddInput(b, list[k]) \in P
      BY <3>1, <3>2 DEF P
    <3>4. FoldLeft(AddInput, EmptyBuilder, list) \in P
      BY <2>7, <3>3, AddInputAll
    <3> QED BY <3>4, NoOptions DEF P
  <2> HIDE DEF filled, list
  <2>10. Add(filled, Stage("reduce")) \in ChainBuilders(U)
    BY <2>9, ChainsFilled
  <2>11. OneByOne(BuildPipeline(Add(filled, Stage("reduce"))))
    <3> HIDE DEF U
    <3> QED BY <2>10, ChainPipelines
  <2> HIDE DEF maps
  <2>12. MapReduce(inputs) = BuildPipeline(Add(filled, Stage("reduce")))
    <3>1. ParallelChain(MapStages(inputs), FALSE) = maps
      BY DEF maps
    <3> QED BY <1>2, <3>1 DEF MapReduce, filled, list
  <2> QED BY <2>11, <2>12
<1> QED BY <1>1, <1>2

(* Every staged pattern returns such an input, or none.                    *)
LEMMA StagedOneByOne ==
  ASSUME NEW p \in PatternInputs, p.name \in Staged
  PROVE  OneByOne(p.input)
<1>1. p.input \in StagedCalls[p.name]
  BY CallsAssumption
<1>2. ASSUME NEW l \in Lists
      PROVE  \E n \in Nat : DOMAIN l = 1 .. n
  BY CallsAssumption
<1>3. CASE p.name = "BuildTestDeploy"
  <2> DEFINE s == <<Stage("build"), Stage("test"), Stage("deploy")>>
  <2>1. DOMAIN s = 1 .. 3
    OBVIOUS
  <2>2. OneByOne(BuildPipeline(Set(Chain(s), "stopOnError", TRUE)))
    <3> HIDE DEF s
    <3> QED BY <2>1, ChainedStages
  <2>3. OneByOne(BuildTestDeploy)
    BY <2>2 DEF BuildTestDeploy
  <2>4. p.input = BuildTestDeploy
    <3> DEFINE x == BuildTestDeploy
    <3>1. StagedCalls["BuildTestDeploy"] = {x}
      <4> HIDE DEF x
      <4> QED BY DEF StagedCalls, x
    <3> HIDE DEF x
    <3> QED BY <1>1, <1>3, <3>1 DEF x
  <2> QED BY <2>3, <2>4
<1>4. CASE p.name = "BuildTestDeployWithHealthCheck"
  <2> DEFINE s == <<Stage("build"), Stage("test"), Stage("deploy"),
                    HTTPToInput(NewHTTPHealthCheck("health-check"))>>
  <2>1. DOMAIN s = 1 .. 4
    OBVIOUS
  <2>2. OneByOne(BuildPipeline(Set(Chain(s), "stopOnError", TRUE)))
    <3> HIDE DEF s
    <3> QED BY <2>1, ChainedStages
  <2>3. OneByOne(BuildTestDeployWithHealthCheck)
    BY <2>2 DEF BuildTestDeployWithHealthCheck
  <2>4. p.input = BuildTestDeployWithHealthCheck
    <3> DEFINE x == BuildTestDeployWithHealthCheck
    <3>1. StagedCalls["BuildTestDeployWithHealthCheck"] = {x}
      <4> HIDE DEF x
      <4> QED BY DEF StagedCalls, x
    <3> HIDE DEF x
    <3> QED BY <1>1, <1>4, <3>1 DEF x
  <2> QED BY <2>3, <2>4
<1>5. CASE p.name = "BuildTestDeployWithNotification"
  <2> DEFINE s == <<Stage("build"), Stage("test"), Stage("deploy")>>
             w == HTTPToInput(NewHTTPWebhook("notify"))
  <2>1. DOMAIN s = 1 .. 3
    OBVIOUS
  <2>2. OneByOne(BuildPipeline(AddExitHandler(Set(Chain(s), "stopOnError", TRUE), w)))
    <3> HIDE DEF s, w
    <3> QED BY <2>1, ChainedStages
  <2>3. OneByOne(BuildTestDeployWithNotification)
    BY <2>2 DEF BuildTestDeployWithNotification
  <2>4. p.input = BuildTestDeployWithNotification
    <3> DEFINE x == BuildTestDeployWithNotification
    <3>1. StagedCalls["BuildTestDeployWithNotification"] = {x}
      <4> HIDE DEF x
      <4> QED BY DEF StagedCalls, x
    <3> HIDE DEF x
    <3> QED BY <1>1, <1>5, <3>1 DEF x
  <2> QED BY <2>3, <2>4
<1>6. CASE p.name = "MultiEnvironmentDeploy"
  <2>1. PICK l \in Lists : p.input = MultiEnvironmentDeploy(l)
    BY <1>1, <1>6 DEF StagedCalls
  <2> DEFINE s == [k \in DOMAIN l |-> Stage("deploy-" \o l[k])]
  <2>2. PICK n \in Nat : DOMAIN s = 1 .. n
    BY <1>2
  <2>3. OneByOne(BuildPipeline(Set(Chain(s), "stopOnError", TRUE)))
    <3> HIDE DEF s
    <3> QED BY <2>2, ChainedStages
  <2> QED BY <2>1, <2>3 DEF MultiEnvironmentDeploy
<1>7. CASE p.name = "MapReduce"
  <2>1. PICK l \in Lists : p.input = MapReduce(l)
    BY <1>1, <1>7 DEF StagedCalls
  <2> QED BY <1>2, <2>1, MapReduceOneByOne
<1>8. CASE p.name = "SequentialLoop"
  <2>1. PICK l \in Lists : p.input = SequentialLoop(l)
    BY <1>1, <1>8 DEF StagedCalls
  <2> QED BY <2>1, LoopsOneByOne
<1>9. CASE p.name = "ETLPipeline"
  <2> DEFINE s == <<"extract", "etl-transform", "load">>
  <2>1. DOMAIN s = 1 .. 3
    OBVIOUS
  <2>2. OneByOne(FunctionSteps(s))
    <3> HIDE DEF s
    <3> QED BY <2>1, FunctionChains
  <2> QED BY <1>1, <1>9, <2>2 DEF StagedCalls, ETLPipeline
<1>10. CASE p.name = "ValidateTransformNotify"
  <2> DEFINE s == <<"validate", "transform", "notify">>
  <2>1. DOMAIN s = 1 .. 3
    OBVIOUS
  <2>2. OneByOne(FunctionSteps(s))
    <3> HIDE DEF s
    <3> QED BY <2>1, FunctionChains
  <2> QED BY <1>1, <1>10, <2>2 DEF StagedCalls, ValidateTransformNotify
<1>11. CASE p.name = "DeployEnvironments"
  <2>1. PICK l \in Lists : p.input = DeployEnvironments(l)
    BY <1>1, <1>11 DEF StagedCalls
  <2> DEFINE s == [k \in DOMAIN l |-> "deploy-service"]
  <2>2. PICK n \in Nat : DOMAIN s = 1 .. n
    BY <1>2
  <2>3. OneByOne(FunctionSteps(s))
    <3> HIDE DEF s
    <3> QED BY <2>2, FunctionChains
  <2> QED BY <2>1, <2>3 DEF DeployEnvironments
<1>12. CASE p.name = "SequentialMigration"
  <2>1. PICK l \in Lists : p.input = SequentialMigration(l)
    BY <1>1, <1>12 DEF StagedCalls
  <2> QED BY <2>1, LoopsOneByOne
<1>13. p.name \in {"BuildTestDeploy", "BuildTestDeployWithHealthCheck",
                   "BuildTestDeployWithNotification", "MultiEnvironmentDeploy", "MapReduce",
                   "SequentialLoop", "ETLPipeline", "ValidateTransformNotify",
                   "DeployEnvironments", "SequentialMigration"}
  BY DEF Staged, StagedCalls
<1> QED BY <1>3, <1>4, <1>5, <1>6, <1>7, <1>8, <1>9, <1>10, <1>11, <1>12, <1>13

(* What is known of a batch of n tasks that is run one by one and stops at *)
(* a failure: nothing beyond the task whose result is awaited is launched, *)
(* what was collected has succeeded, the last result of a workflow that    *)
(* has returned excepted, and such a workflow launches nothing more.       *)
Gated(n) ==
  /\ task \in [1 .. n -> {"new", "running", "ok", "error", "failure"}]
  /\ results \in Seq({"ok", "error", "failure"})
  /\ Len(results) <= n
  /\ \A i \in 1 .. n : i <= Len(results) => task[i] = results[i]
  /\ \A i \in 1 .. n : i > Len(results) + 1 => task[i] = "new"
  /\ returned = "none" => \A i \in 1 .. n : i <= Len(results) => task[i] = "ok"
  /\ returned # "none" =>
       \A i \in 1 .. n : /\ i < Len(results) => task[i] = "ok"
                         /\ i > Len(results) => task[i] = "new"

StagedRun ==
  pattern.name \in Staged =>
    /\ \E n \in 1 .. MaxTasks : n = TaskCount(pattern.input) /\ Gated(n)
    /\ pattern.input # Failed => parallel = FALSE /\ stopOnFail = TRUE

PatternInv ==
  /\ pattern \in PatternInputs
  /\ StagedRun

LEMMA GatedNext ==
  ASSUME NEW n \in Nat, Gated(n), parallel = FALSE, stopOnFail = TRUE, Batch(n)!Next
  PROVE  Gated(n)'
<1> DEFINE c == Len(results)
<1>1. c \in Nat /\ c <= n
  BY DEF Gated
<1>2. CASE Batch(n)!LaunchAll
  BY <1>2 DEF Batch!LaunchAll
<1>3. CASE Batch(n)!LaunchNext
  <2>1. /\ task' = [task EXCEPT ![c + 1] = "running"] /\ returned = "none" /\ c < n
        /\ UNCHANGED <<results, returned>>
    BY <1>3 DEF Batch!LaunchNext, Batch!Collected
  <2>2. c + 1 \in 1 .. n
    BY <1>1, <2>1
  <2>3. task' \in [1 .. n -> {"new", "running", "ok", "error", "failure"}]
    BY <2>1 DEF Gated
  <2>4. \A i \in 1 .. n : i # c + 1 => task'[i] = task[i]
    BY <2>1 DEF Gated
  <2>5. \A i \in 1 .. n : i <= c => i # c + 1
    BY <1>1
  <2>6. \A i \in 1 .. n : i > c + 1 => i # c + 1
    BY <1>1
  <2> QED BY <2>1, <2>3, <2>4, <2>5, <2>6 DEF Gated
<1>4. ASSUME NEW j \in Batch(n)!Tasks, NEW o \in Batch(n)!Outcomes, Batch(n)!TaskEnds(j, o)
      PROVE  Gated(n)'
  <2>1. j \in 1 .. n /\ o \in {"ok", "error", "failure"} /\ task[j] = "running"
        /\ task' = [task EXCEPT ![j] = o] /\ UNCHANGED <<results, returned>>
    BY <1>4 DEF Batch!TaskEnds, Batch!Tasks, Batch!Outcomes, Batch!Failures
  <2>2. returned = "none"
    <3> SUFFICES ASSUME returned # "none" PROVE FALSE
      OBVIOUS
    <3>1. (j < c => task[j] = "ok") /\ (j > c => task[j] = "new") /\ (j <= c => task[j] = results[j])
      BY <2>1 DEF Gated
    <3>2. j <= c => results[j] \in {"ok", "error", "failure"}
      BY <1>1, <2>1 DEF Gated
    <3>3. j <= c \/ j > c
      BY <1>1, <2>1
    <3> QED BY <2>1, <3>1, <3>2, <3>3
  <2>3. ~ (j <= c)
    BY <2>1, <2>2 DEF Gated
  <2>4. ~ (j > c + 1)
    BY <2>1 DEF Gated
  <2>5. task' \in [1 .. n -> {"new", "running", "ok", "error", "failure"}]
    BY <2>1 DEF Gated
  <2>6. \A i \in 1 .. n : i # j => task'[i] = task[i]
    BY <2>1 DEF Gated
  <2> QED BY <2>1, <2>2, <2>3, <2>4, <2>5, <2>6 DEF Gated
<1>5. CASE Batch(n)!Collect
  <2>1. PICK i \in 1 .. n :
          /\ i = c + 1 /\ task[i] \in {"ok", "error", "failure"}
          /\ results' = Append(results, task[i])
          /\ returned' = CASE Batch(n)!Stops(task[i])                     -> "error"
                           [] ~ Batch(n)!Stops(task[i]) /\ c + 1 = n -> "ok"
                           [] ~ Batch(n)!Stops(task[i]) /\ c + 1 < n -> "none"
    BY <1>5 DEF Batch!Collect, Batch!NextFuture, Batch!Collected, Batch!Tasks, Batch!Outcomes,
                Batch!Failures
  <2>2. returned = "none" /\ UNCHANGED task
    BY <1>5 DEF Batch!Collect
  <2>3. Batch(n)!Stops(task[i]) <=> task[i] # "ok"
    BY <2>1 DEF Batch!Stops, Batch!Failures
  <2>4. returned' = "none" => task[i] = "ok"
    BY <2>1, <2>3
  <2>5. /\ results' \in Seq({"ok", "error", "failure"}) /\ Len(results') = c + 1
        /\ \A k \in 1 .. c : results'[k] = results[k]
        /\ results'[c + 1] = task[i]
    BY <2>1 DEF Gated
  <2>6. \A k \in 1 .. n : k <= c + 1 => task[k] = results'[k]
    <3> SUFFICES ASSUME NEW k \in 1 .. n, k <= c + 1 PROVE task[k] = results'[k]
      OBVIOUS
    <3>1. CASE k = c + 1
      BY <3>1, <2>1, <2>5
    <3>2. CASE k <= c
      <4>1. k \in 1 .. c
        BY <1>1, <3>2
      <4>2. task[k] = results[k]
        BY <3>2 DEF Gated
      <4> QED BY <4>1, <4>2, <2>5
    <3> QED BY <1>1, <3>1, <3>2
  <2>7. \A k \in 1 .. n : /\ k > c + 1 => task[k] = "new"
                          /\ k < c + 1 => task[k] = "ok"
    <3>1. \A k \in 1 .. n : (k > c + 1 => task[k] = "new") /\ (k <= c => task[k] = "ok")
      BY <2>2 DEF Gated
    <3> QED BY <1>1, <3>1
  <2>8. task \in [1 .. n -> {"new", "running", "ok", "error", "failure"}]
    BY DEF Gated
  <2>9. c + 1 <= n /\ \A k \in 1 .. n : /\ k <= c + 1 <=> (k < c + 1 \/ k = i)
                                        /\ k > c + 1 + 1 => k > c + 1
    BY <1>1, <2>1
  <2> HIDE DEF c
  <2> QED BY <2>2, <2>4, <2>5, <2>6, <2>7, <2>8, <2>9 DEF Gated
<1> QED BY <1>2, <1>3, <1>4, <1>5 DEF Batch!Next

(* A stage of a staged pattern starts only when every stage before it has  *)
(* succeeded, whatever the lists, for as many stages as there are.         *)
THEOREM StagesInOrder == PatternSpec => []StagesGated
<1>1. PatternInit => PatternInv
  <2> SUFFICES ASSUME PatternInit, pattern.name \in Staged PROVE StagedRun
    BY DEF PatternInit, PatternInv, StagedRun
  <2>1. PICK n \in 1 .. MaxTasks : n = TaskCount(pattern.input) /\ Batch(n)!Init
    BY DEF PatternInit
  <2>2. task = [i \in 1 .. n |-> "new"] /\ results = <<>> /\ returned = "none"
    BY <2>1 DEF Batch!Init, Batch!Tasks
  <2>3. Gated(n)
    BY <2>2 DEF Gated
  <2>4. OneByOne(pattern.input)
    BY StagedOneByOne DEF PatternInit
  <2>5. pattern.input # Failed => parallel = FALSE /\ stopOnFail = TRUE
    BY <2>4 DEF OneByOne, PatternInit
  <2> QED BY <2>1, <2>3, <2>5 DEF StagedRun
<1>2. PatternInv /\ [PatternNext]_<<pattern, batchVars>> => PatternInv'
  <2> SUFFICES ASSUME PatternInv, [PatternNext]_<<pattern, batchVars>> PROVE PatternInv'
    OBVIOUS
  <2>1. CASE PatternNext
    <3>1. pattern' = pattern /\ pattern.input # Failed
      BY <2>1 DEF PatternNext
    <3>2. CASE pattern.name \in Staged
      <4>1. PICK n \in 1 .. MaxTasks : n = TaskCount(pattern.input) /\ Batch(n)!Next
        BY <2>1 DEF PatternNext
      <4>2. Gated(n) /\ parallel = FALSE /\ stopOnFail = TRUE /\ n \in Nat
        BY <3>1, <3>2, <4>1, CallsAssumption DEF PatternInv, StagedRun
      <4>3. Gated(n)'
        BY <4>1, <4>2, GatedNext
      <4>4. UNCHANGED <<parallel, stopOnFail>>
        BY <4>1 DEF Batch!Next, Batch!LaunchAll, Batch!LaunchNext, Batch!TaskEnds, Batch!Collect
      <4> QED BY <3>1, <4>1, <4>2, <4>3, <4>4 DEF PatternInv, StagedRun
    <3> QED BY <3>1, <3>2 DEF PatternInv, StagedRun
  <2>2. CASE UNCHANGED <<pattern, batchVars>>
    BY <2>2 DEF PatternInv, StagedRun, Gated, batchVars
  <2> QED BY <2>1, <2>2
<1>3. PatternInv => StagesGated
  <2> SUFFICES ASSUME PatternInv, pattern.name \in Staged, NEW i \in DOMAIN task, NEW k \in DOMAIN task,
                      i < k, task[k] # "new"
               PROVE  task[i] = "ok"
    BY DEF StagesGated
  <2>1. PICK n \in 1 .. MaxTasks : Gated(n)
    BY DEF PatternInv, StagedRun
  <2> DEFINE c == Len(results)
  <2>2. c \in Nat /\ n \in Nat /\ i \in 1 .. n /\ k \in 1 .. n
    BY <2>1, CallsAssumption DEF Gated
  <2>3. k <= c + 1
    BY <2>1, <2>2 DEF Gated
  <2>4. returned = "none" => (i <= c => task[i] = "ok")
    BY <2>1, <2>2 DEF Gated
  <2>5. returned # "none" => k <= c /\ (i < c => task[i] = "ok")
    BY <2>1, <2>2 DEF Gated
  <2> QED BY <2>2, <2>3, <2>4, <2>5
<1> QED BY <1>1, <1>2, <1>3, PTL DEF PatternSpec
-----------------------------------------------------------------------------
(* The builders                                                            *)

(* Sequences of anything: what is built is a record of many shapes.        *)
IsList(s) == \E S : s \in Seq(S)

LEMMA ListFacts ==
  ASSUME NEW s, IsList(s)
  PROVE  /\ Len(s) \in Nat /\ DOMAIN s = 1 .. Len(s)
         /\ s = <<>> <=> Len(s) = 0
BY DEF IsList

LEMMA ListAppend ==
  ASSUME NEW s, IsList(s), NEW x
  PROVE  /\ IsList(Append(s, x)) /\ Len(Append(s, x)) = Len(s) + 1
         /\ DOMAIN Append(s, x) = 1 .. (Len(s) + 1)
         /\ \A k \in 1 .. Len(s) : Append(s, x)[k] = s[k]
         /\ Append(s, x)[Len(s) + 1] = x
         /\ Append(s, x) # <<>>
<1>1. PICK S : s \in Seq(S)
  BY DEF IsList
<1> DEFINE T == S \cup {x}
<1>2. s \in Seq(T)
  BY <1>1
<1>3. x \in T
  OBVIOUS
<1> HIDE DEF T
<1>4. /\ Append(s, x) \in Seq(T) /\ Len(Append(s, x)) = Len(s) + 1
      /\ DOMAIN Append(s, x) = 1 .. (Len(s) + 1)
      /\ \A k \in 1 .. Len(s) : Append(s, x)[k] = s[k]
      /\ Append(s, x)[Len(s) + 1] = x
      /\ Append(s, x) # <<>>
  BY <1>2, <1>3
<1> QED BY <1>4 DEF IsList

LEMMA ListMapped ==
  ASSUME NEW s, IsList(s), NEW t, DOMAIN t = DOMAIN s, t = [k \in DOMAIN t |-> t[k]]
  PROVE  IsList(t) /\ Len(t) = Len(s)
<1>1. Len(s) \in Nat /\ DOMAIN s = 1 .. Len(s)
  BY ListFacts
<1> DEFINE T == {t[k] : k \in DOMAIN t}
<1>2. t \in [1 .. Len(s) -> T]
  BY <1>1
<1> HIDE DEF T
<1>3. t \in Seq(T) /\ Len(t) = Len(s)
  BY <1>1, <1>2
<1> QED BY <1>3 DEF IsList

ListKinds == {"workflow", "functions", "generic", "dag"}

(* What the calls rely on in the builder b of kind k. *)
BuilderTyped(k, b) ==
  /\ k \in {"workflow", "functions", "generic", "dag", "loop", "functionLoop"}
  /\ "errors" \in DOMAIN b /\ IsList(b.errors)
  /\ k \in ListKinds => "tasks" \in DOMAIN b /\ IsList(b.tasks)
  /\ k \in {"workflow", "functions"} =>
       "mode" \in DOMAIN b /\ b.mode \in {"unset", "pipeline", "parallel", "single"}
  /\ k \in {"loop", "functionLoop"} =>
       "mode" \in DOMAIN b /\ b.mode \in {"loop", "parameterizedLoop"} /\ "template" \in DOMAIN b
  /\ k \in {"workflow", "loop"} => "options" \in DOMAIN b /\ b.options \in OptionsType
  /\ k = "workflow" => \A n \in 1 .. Len(b.tasks) : b.tasks[n] \in ContainerType
  /\ k = "loop" => b.template \in ContainerType
  /\ k = "dag" => \A n \in 1 .. Len(b.tasks) : {"name", "deps"} \subseteq DOMAIN b.tasks[n]

(* A list of a built input that is still a part of the builder's. *)
AttachedTo(k, i, list) ==
  /\ k = "workflow" => i.type \in {"pipeline", "parallel"} /\ "options" \in DOMAIN i
  /\ k = "dag" => i.type = "dag"
  /\ k \in {"workflow", "dag"}
  /\ {"type", "tasks"} \subseteq DOMAIN i
  /\ i.type = "parallel" => "strategy" \in DOMAIN i
  /\ IsList(i.tasks)
  /\ Len(i.tasks) <= Len(list)
  /\ \A n \in 1 .. Len(i.tasks) : i.tasks[n] = list[n]

IsAttached(i) == AttachedTo(kind, i, builder.tasks)

IsEntry(e) ==
  /\ e = [via |-> e.via, result |-> e.result, attached |-> e.attached, retimed |-> e.retimed]
  /\ e.attached \in BOOLEAN
  /\ e.retimed \in BOOLEAN
  /\ "input" \in DOMAIN e.result
  /\ e.attached => IsAttached(e.result.input)

BuilderInv ==
  /\ BuilderTyped(kind, builder)
  /\ spare \in Nat
  /\ IsList(built)
  /\ \A k \in 1 .. Len(built) : IsEntry(built[k])

(* Two tasks that differ in what may be changed in place only. *)
Alike(c, d) ==
  /\ kind = "workflow" =>
       [c EXCEPT !.timeout = 0, !.autoRemove = FALSE] = [d EXCEPT !.timeout = 0, !.autoRemove = FALSE]
  /\ kind = "dag" =>
       [c EXCEPT !.outputs = {}, !.inputs = {}, !.data = ""]
         = [d EXCEPT !.outputs = {}, !.inputs = {}, !.data = ""]

(* What a step may make of the entry e. *)
Follows(d, e) ==
  /\ d.via = e.via
  /\ Outline(d.result.input) = Outline(e.result.input)
  /\ e.retimed => d.retimed
  /\ ~ e.attached => d.result = e.result
  /\ e.attached =>
       LET j == d.result.input
           i == e.result.input
       IN  /\ j.type = i.type
           /\ kind = "workflow" => j.options = i.options
           /\ i.type = "parallel" => j.strategy = i.strategy
           /\ IsList(j.tasks) /\ Len(j.tasks) = Len(i.tasks)
           /\ \A n \in 1 .. Len(i.tasks) :
                /\ Alike(j.tasks[n], i.tasks[n])
                /\ kind = "workflow" /\ ~ d.retimed => j.tasks[n].timeout = i.tasks[n].timeout

Outlives(i) ==
  \A c \in Containers(i) :
    c.timeout > 0 => ResolveActivityOptions(i.options).startToClose > c.timeout

(* What OutlivesRunTimeout and BuiltAccepted say of an entry. *)
IsGood(e) ==
  /\ kind \in {"workflow", "loop"} /\ e.via = "Build" /\ e.result.input.type # "single" /\ ~ e.retimed
       => Outlives(e.result.input)
  /\ ~ (kind = "workflow" /\ e.result.input.type # "single" /\ e.via # "generic")
       => Accepted(e.result.input)

(* What a step may do to the entries. *)
Kept ==
  /\ \A k \in 1 .. Len(built) : Follows(built'[k], built[k])
  /\ \/ Len(built') = Len(built)
     \/ Len(built') = Len(built) + 1 /\ IsGood(built'[Len(built) + 1])

(* Every builder starts as the assumption on the constructors' results     *)
(* says, with nothing built.                                               *)
LEMMA BuilderStart == BuilderInit => BuilderInv
<1> SUFFICES ASSUME BuilderInit PROVE BuilderInv
  OBVIOUS
<1>1. PICK b \in Builders : kind = b.kind /\ builder = b.builder
  BY DEF BuilderInit
<1> DEFINE types == FieldTypes[b.kind]
<1>2. /\ b.kind \in DOMAIN FieldTypes
      /\ \A f \in DOMAIN types : f \in DOMAIN b.builder /\ b.builder[f] \in types[f]
  BY BuilderArguments
<1>3. kind \in {"workflow", "functions", "generic", "dag", "loop", "functionLoop"}
  BY <1>1, <1>2 DEF FieldTypes
<1>4. ASSUME NEW S, NEW s \in Seq(S) PROVE IsList(s)
  BY DEF IsList
<1>5. "errors" \in DOMAIN builder /\ builder.errors \in Seq(STRING)
  BY <1>1, <1>2, <1>3 DEF FieldTypes
<1>6. /\ kind = "workflow" => "tasks" \in DOMAIN builder /\ builder.tasks \in Seq(ContainerType)
      /\ kind \in {"functions", "generic"} => "tasks" \in DOMAIN builder /\ builder.tasks \in Seq(STRING)
      /\ kind = "dag" => "tasks" \in DOMAIN builder /\ builder.tasks \in Seq(NodeType)
  BY <1>1, <1>2, <1>3 DEF FieldTypes
<1>7. /\ kind \in {"workflow", "functions"} =>
           "mode" \in DOMAIN builder /\ builder.mode \in {"unset", "pipeline", "parallel", "single"}
      /\ kind \in {"loop", "functionLoop"} =>
           "mode" \in DOMAIN builder /\ builder.mode \in {"loop", "parameterizedLoop"}
           /\ "template" \in DOMAIN builder
      /\ kind \in {"workflow", "loop"} => "options" \in DOMAIN builder /\ builder.options \in OptionsType
      /\ kind = "loop" => builder.template \in ContainerType
  BY <1>1, <1>2, <1>3 DEF FieldTypes
<1>8. kind \in ListKinds => "tasks" \in DOMAIN builder /\ IsList(builder.tasks)
  BY <1>4, <1>6 DEF ListKinds
<1>9. \A c \in NodeType : {"name", "deps"} \subseteq DOMAIN c
  BY DEF NodeType
<1>10. kind = "dag" => \A n \in 1 .. Len(builder.tasks) : {"name", "deps"} \subseteq DOMAIN builder.tasks[n]
  BY <1>6, <1>9
<1>11. kind = "workflow" => \A n \in 1 .. Len(builder.tasks) : builder.tasks[n] \in ContainerType
  BY <1>6
<1>12. BuilderTyped(kind, builder)
  BY <1>3, <1>4, <1>5, <1>7, <1>8, <1>10, <1>11 DEF BuilderTyped
<1>13. IsList(built) /\ Len(built) = 0 /\ spare \in Nat
  BY DEF BuilderInit, IsList
<1> QED BY <1>12, <1>13 DEF BuilderInv

(* A field is set, the others stay. *)
LEMMA SetField ==
  ASSUME NEW b, NEW f, NEW v
  PROVE  /\ DOMAIN Set(b, f, v) = DOMAIN b
         /\ f \in DOMAIN b => Set(b, f, v)[f] = v
         /\ \A g \in DOMAIN b : g # f => Set(b, f, v)[g] = b[g]
BY DEF Set

(* An error is recorded: nothing else of the builder changes.              *)
LEMMA AccumulateKeepsTyped ==
  ASSUME NEW k, NEW b, BuilderTyped(k, b), NEW e
  PROVE  /\ BuilderTyped(k, Accumulate(b, e))
         /\ k \in ListKinds => Accumulate(b, e).tasks = b.tasks
         /\ Accumulate(b, e).errors # <<>>
<1> DEFINE c == Accumulate(b, e)
           list == Append(b.errors, e)
<1>1. "errors" \in DOMAIN b /\ IsList(b.errors)
  BY DEF BuilderTyped
<1>2. IsList(list) /\ list # <<>>
  BY <1>1, ListAppend
<1>3. DOMAIN c = DOMAIN b /\ c.errors = list /\ \A g \in DOMAIN b : g # "errors" => c[g] = b[g]
  BY <1>1 DEF Accumulate
<1> HIDE DEF c, list
<1>4. BuilderTyped(k, c)
  BY <1>2, <1>3 DEF BuilderTyped, ListKinds
<1>5. k \in ListKinds => c.tasks = b.tasks
  BY <1>3 DEF BuilderTyped
<1> QED BY <1>2, <1>3, <1>4, <1>5 DEF c

(* What is built stays as it is when a call leaves the builder's list and  *)
(* what is built alone.                                                    *)
LEMMA EntriesRest ==
  ASSUME BuilderInv, UNCHANGED <<kind, built, spare>>, BuilderTyped(kind, builder'),
         kind \in ListKinds => builder'.tasks = builder.tasks
  PROVE  BuilderInv' /\ Kept
<1>1. Len(built) \in Nat /\ DOMAIN built = 1 .. Len(built)
  BY ListFacts DEF BuilderInv
<1>2. ASSUME NEW i, IsAttached(i) PROVE IsAttached(i)'
  <2>1. builder'.tasks = builder.tasks
    BY <1>2 DEF IsAttached, AttachedTo, ListKinds
  <2> QED BY <1>2, <2>1 DEF IsAttached, AttachedTo
<1>3. \A k \in 1 .. Len(built) : IsEntry(built[k])'
  <2> SUFFICES ASSUME NEW k \in 1 .. Len(built) PROVE IsEntry(built[k])'
    OBVIOUS
  <2>1. IsEntry(built[k])
    BY DEF BuilderInv
  <2> QED BY <1>2, <2>1 DEF IsEntry
<1>4. BuilderInv'
  BY <1>3 DEF BuilderInv
<1>5. Kept
  <2> SUFFICES ASSUME NEW k \in 1 .. Len(built) PROVE Follows(built[k], built[k])
    BY DEF Kept
  <2>1. built[k].attached => IsList(built[k].result.input.tasks)
    BY DEF BuilderInv, IsEntry, IsAttached, AttachedTo
  <2> QED BY <2>1 DEF Follows, Alike
<1> QED BY <1>4, <1>5

LEMMA ConfigureKeeps ==
  ASSUME BuilderInv, Configure
  PROVE  BuilderInv' /\ Kept
<1>1. PICK s \in Settings : s.kind = kind /\ s.field \in Setters /\ builder' = Set(builder, s.field, s.value)
  BY DEF Configure
<1>2. UNCHANGED <<kind, built, spare>>
  BY DEF Configure, Call
<1> DEFINE f == s.field
           v == s.value
           c == Set(builder, f, v)
<1>3. BuilderTyped(kind, builder)
  BY DEF BuilderInv
<1>4. f \notin {"tasks", "errors", "template"}
  BY <1>1, <1>3 DEF Setters, GenericSetters, WorkflowSetters, WorkflowListSetters, FunctionSetters,
                    FunctionListSetters, LoopSetters, LoopRunSetters, FunctionLoopSetters,
                    FunctionLoopRunSetters, DAGSetters, BuilderTyped
<1>5. f \in DOMAIN FieldTypes[kind] => v \in FieldTypes[kind][f]
  BY <1>1, BuilderArguments
<1>6. /\ kind \in {"workflow", "functions"} /\ f = "mode" => v \in {"unset", "pipeline", "parallel", "single"}
      /\ kind \in {"loop", "functionLoop"} /\ f = "mode" => v \in {"loop", "parameterizedLoop"}
      /\ kind \in {"workflow", "loop"} /\ f = "options" => v \in OptionsType
  BY <1>5 DEF FieldTypes
<1>7. /\ DOMAIN c = DOMAIN builder
      /\ f \in DOMAIN builder => c[f] = v
      /\ \A g \in DOMAIN builder : g # f => c[g] = builder[g]
  BY SetField
<1> HIDE DEF c, f, v
<1>8. BuilderTyped(kind, c) /\ (kind \in ListKinds => c.tasks = builder.tasks)
  <2>1. "errors" \in DOMAIN c /\ c.errors = builder.errors
    BY <1>3, <1>4, <1>7 DEF BuilderTyped
  <2>2. kind \in ListKinds => "tasks" \in DOMAIN c /\ c.tasks = builder.tasks
    BY <1>3, <1>4, <1>7 DEF BuilderTyped
  <2>3. kind \in {"loop", "functionLoop"} => "template" \in DOMAIN c /\ c.template = builder.template
    BY <1>3, <1>4, <1>7 DEF BuilderTyped
  <2>4. /\ kind \in {"workflow", "functions"} =>
             "mode" \in DOMAIN c /\ c.mode \in {"unset", "pipeline", "parallel", "single"}
        /\ kind \in {"loop", "functionLoop"} =>
             "mode" \in DOMAIN c /\ c.mode \in {"loop", "parameterizedLoop"}
        /\ kind \in {"workflow", "loop"} => "options" \in DOMAIN c /\ c.options \in OptionsType
    BY <1>3, <1>6, <1>7 DEF BuilderTyped
  <2> QED BY <1>3, <2>1, <2>2, <2>3, <2>4 DEF BuilderTyped, ListKinds
<1>9. builder' = c
  BY <1>1 DEF c, f, v
<1> QED BY <1>2, <1>8, <1>9, EntriesRest

LEMMA AddHandlerKeeps ==
  ASSUME BuilderInv, AddHandler
  PROVE  BuilderInv' /\ Kept
<1>1. PICK s \in Sources : kind = "workflow" /\ builder' = AddExitHandler(builder, s)
  BY DEF AddHandler
<1>2. UNCHANGED <<kind, built, spare>>
  BY DEF AddHandler, Call
<1>3. BuilderTyped(kind, builder)
  BY DEF BuilderInv
<1>4. BuilderTyped(kind, builder') /\ (kind \in ListKinds => builder'.tasks = builder.tasks)
  <2>1. CASE s = NilSource
    BY <1>1, <1>3, <2>1, AccumulateKeepsTyped DEF AddExitHandler
  <2>2. CASE s # NilSource
    <3> DEFINE c == AddExitHandlerInput(builder, s)
    <3>1. DOMAIN c = DOMAIN builder /\ \A g \in DOMAIN builder : g # "exitHandlers" => c[g] = builder[g]
      BY DEF AddExitHandlerInput
    <3> HIDE DEF c
    <3>2. BuilderTyped(kind, c) /\ (kind \in ListKinds => c.tasks = builder.tasks)
      BY <1>1, <1>3, <3>1 DEF BuilderTyped, ListKinds
    <3> QED BY <1>1, <2>2, <3>2 DEF AddExitHandler, c
  <2> QED BY <2>1, <2>2
<1> QED BY <1>2, <1>4, EntriesRest

LEMMA SetTemplateKeeps ==
  ASSUME BuilderInv, SetTemplate
  PROVE  BuilderInv' /\ Kept
<1>1. UNCHANGED <<kind, built, spare>>
  BY DEF SetTemplate, Call
<1>2. BuilderTyped(kind, builder)
  BY DEF BuilderInv
<1>3. ASSUME NEW t, kind = "functionLoop" \/ (kind = "loop" /\ t \in ContainerType)
      PROVE  BuilderTyped(kind, WithTemplate(builder, t))
  <2> DEFINE c == WithTemplate(builder, t)
  <2>1. "template" \in DOMAIN builder
    BY <1>2, <1>3 DEF BuilderTyped
  <2>2. DOMAIN c = DOMAIN builder /\ c.template = t /\ \A g \in DOMAIN builder : g # "template" => c[g] = builder[g]
    BY <2>1 DEF WithTemplate
  <2> HIDE DEF c
  <2>3. BuilderTyped(kind, c)
    BY <1>2, <1>3, <2>1, <2>2 DEF BuilderTyped, ListKinds
  <2> QED BY <2>3 DEF c
<1>4. BuilderTyped(kind, builder') /\ kind \notin ListKinds
  <2>1. CASE \E s \in Sources : kind = "loop" /\ builder' = WithSource(builder, s)
    <3>1. PICK s \in Sources : kind = "loop" /\ builder' = WithSource(builder, s)
      BY <2>1
    <3>2. CASE s = NilSource
      BY <1>2, <3>1, <3>2, AccumulateKeepsTyped DEF WithSource, ListKinds
    <3>3. CASE s # NilSource
      <4>1. s \in ContainerType
        BY <3>3, BuilderArguments
      <4> QED BY <1>3, <3>1, <3>3, <4>1 DEF WithSource, ListKinds
    <3> QED BY <3>2, <3>3
  <2>2. CASE \E f \in Functions : kind = "functionLoop" /\ builder' = WithTemplate(builder, f)
    BY <1>3, <2>2 DEF ListKinds
  <2> QED BY <2>1, <2>2 DEF SetTemplate
<1> QED BY <1>1, <1>4, EntriesRest

(* An entry as Shown shows it. *)
LEMMA ShownEntry ==
  ASSUME NEW e, "tasks" \in DOMAIN e.result.input, "input" \in DOMAIN e.result,
         e = [via |-> e.via, result |-> e.result, attached |-> e.attached, retimed |-> e.retimed],
         NEW ts, NEW r,
         NEW x, x = [e EXCEPT !.result.input.tasks = [n \in DOMAIN @ |-> ts[n]],
                              !.retimed = @ \/ r]
  PROVE  LET j == [e.result.input EXCEPT !.tasks = [n \in DOMAIN e.result.input.tasks |-> ts[n]]]
         IN  x = [via |-> e.via, result |-> [e.result EXCEPT !.input = j],
                  attached |-> e.attached, retimed |-> e.retimed \/ r]
             /\ x.result.input = j
<1> DEFINE i == e.result.input
           u == [n \in DOMAIN i.tasks |-> ts[n]]
           j == [i EXCEPT !.tasks = u]
           s == [e.result EXCEPT !.input = j]
<1>1. x = [e EXCEPT !.result = s, !.retimed = e.retimed \/ r]
  OBVIOUS
<1>2. s.input = j
  OBVIOUS
<1> HIDE DEF s
<1>3. x = [via |-> e.via, result |-> s, attached |-> e.attached, retimed |-> e.retimed \/ r]
  BY <1>1
<1> QED BY <1>2, <1>3 DEF s

(* Every list that shares the array sees the same change of it.            *)
LEMMA ShownKeeps ==
  ASSUME BuilderInv, UNCHANGED kind, spare' \in Nat, BuilderTyped(kind, builder'),
         NEW r \in BOOLEAN, built' = Shown(builder'.tasks, r),
         kind \in {"workflow", "dag"} =>
           /\ Len(builder.tasks) <= Len(builder'.tasks)
           /\ \A n \in 1 .. Len(builder.tasks) :
                /\ Alike(builder'.tasks[n], builder.tasks[n])
                /\ kind = "workflow" /\ ~ r => builder'.tasks[n].timeout = builder.tasks[n].timeout
  PROVE  BuilderInv' /\ Kept
<1> DEFINE ts == builder'.tasks
<1>1. /\ Len(built) \in Nat /\ DOMAIN built = 1 .. Len(built)
      /\ IsList(built) /\ \A k \in 1 .. Len(built) : IsEntry(built[k])
  BY ListFacts DEF BuilderInv
<1>2. DOMAIN built' = DOMAIN built /\ built' = [k \in DOMAIN built' |-> built'[k]]
  BY DEF Shown
<1>3. IsList(built') /\ Len(built') = Len(built)
  BY <1>1, <1>2, ListMapped
<1>4. ASSUME NEW k \in 1 .. Len(built), built[k].attached
      PROVE  /\ IsEntry(built[k])'
             /\ Follows(built'[k], built[k])
  <2> DEFINE e == built[k]
             i == e.result.input
             u == [n \in DOMAIN i.tasks |-> ts[n]]
             j == [i EXCEPT !.tasks = u]
  <2>1. /\ e = [via |-> e.via, result |-> e.result, attached |-> e.attached, retimed |-> e.retimed]
        /\ e.retimed \in BOOLEAN /\ "input" \in DOMAIN e.result /\ IsAttached(i)
    BY <1>1, <1>4 DEF IsEntry
  <2>2. built'[k] = [e EXCEPT !.result.input.tasks = [n \in DOMAIN @ |-> ts[n]],
                              !.retimed = @ \/ r]
    BY <1>1, <1>4 DEF Shown
  <2>3. "tasks" \in DOMAIN i
    BY <2>1 DEF IsAttached, AttachedTo
  <2> HIDE DEF ts
  <2>4. /\ built'[k] = [via |-> e.via, result |-> [e.result EXCEPT !.input = j],
                        attached |-> e.attached, retimed |-> e.retimed \/ r]
        /\ built'[k].result.input = j
    BY <2>1, <2>2, <2>3, ShownEntry
  <2> HIDE DEF e, i, u, j
  <2>5. IsList(i.tasks) /\ Len(i.tasks) \in Nat /\ DOMAIN i.tasks = 1 .. Len(i.tasks)
        /\ kind \in {"workflow", "dag"}
    BY <2>1, ListFacts DEF IsAttached, AttachedTo
  <2>6. DOMAIN u = DOMAIN i.tasks /\ u = [n \in DOMAIN u |-> u[n]]
        /\ \A n \in 1 .. Len(i.tasks) : u[n] = ts[n]
    BY <2>5 DEF u
  <2>7. IsList(u) /\ Len(u) = Len(i.tasks)
    BY <2>5, <2>6, ListMapped
  <2>8. DOMAIN j = DOMAIN i /\ j.tasks = u /\ \A f \in DOMAIN i : f # "tasks" => j[f] = i[f]
    BY <2>3 DEF j
  <2>9. Len(builder.tasks) \in Nat /\ Len(ts) \in Nat
    <3>1. IsList(builder.tasks) /\ IsList(ts)
      BY <2>5 DEF BuilderInv, BuilderTyped, ListKinds, ts
    <3> QED BY <3>1, ListFacts
  <2>10. Len(u) <= Len(ts)
    <3>1. Len(i.tasks) <= Len(builder.tasks) /\ Len(builder.tasks) <= Len(ts)
      BY <2>1, <2>5 DEF IsAttached, AttachedTo, ts
    <3> QED BY <2>5, <2>7, <2>9, <3>1
  <2>11. j.type = i.type /\ {"type", "tasks"} \subseteq DOMAIN j
         /\ (i.type = "parallel" => "strategy" \in DOMAIN j)
         /\ (kind = "workflow" => "options" \in DOMAIN j)
    BY <2>1, <2>8 DEF IsAttached, AttachedTo
  <2>12. AttachedTo(kind, j, ts)
    <3>1. /\ kind = "workflow" => j.type \in {"pipeline", "parallel"}
          /\ kind = "dag" => j.type = "dag"
      BY <2>1, <2>11 DEF IsAttached, AttachedTo
    <3>2. \A n \in 1 .. Len(j.tasks) : j.tasks[n] = ts[n]
      BY <2>6, <2>7, <2>8
    <3>3. Len(j.tasks) <= Len(ts) /\ IsList(j.tasks)
      BY <2>7, <2>8, <2>10
    <3>4. (kind = "workflow" => j.type \in {"pipeline", "parallel"} /\ "options" \in DOMAIN j)
          /\ (kind = "dag" => j.type = "dag") /\ kind \in {"workflow", "dag"}
          /\ {"type", "tasks"} \subseteq DOMAIN j
          /\ (j.type = "parallel" => "strategy" \in DOMAIN j)
      BY <2>5, <2>11, <3>1
    <3> QED BY <3>2, <3>3, <3>4 DEF AttachedTo
  <2>13. "input" \in DOMAIN built'[k].result
    BY <2>1, <2>4
  <2>14. IsEntry(built[k])'
    <3>1. built'[k] = [via |-> built'[k].via, result |-> built'[k].result,
                       attached |-> built'[k].attached, retimed |-> built'[k].retimed]
          /\ built'[k].attached = e.attached /\ built'[k].retimed = (e.retimed \/ r)
      BY <2>4
    <3>2. built'[k].attached \in BOOLEAN /\ built'[k].retimed \in BOOLEAN
      BY <1>1, <3>1 DEF IsEntry, e
    <3>3. IsAttached(built[k].result.input)'
      BY <2>4, <2>12 DEF IsAttached, ts
    <3> QED BY <2>13, <3>1, <3>2, <3>3 DEF IsEntry
  <2>16. \A n \in 1 .. Len(i.tasks) :
           /\ Alike(u[n], i.tasks[n])
           /\ kind = "workflow" /\ ~ r => u[n].timeout = i.tasks[n].timeout
    <3> SUFFICES ASSUME NEW n \in 1 .. Len(i.tasks)
                 PROVE  /\ Alike(u[n], i.tasks[n])
                        /\ kind = "workflow" /\ ~ r => u[n].timeout = i.tasks[n].timeout
      OBVIOUS
    <3>1. i.tasks[n] = builder.tasks[n] /\ n \in 1 .. Len(builder.tasks)
      <4>1. i.tasks[n] = builder.tasks[n] /\ Len(i.tasks) <= Len(builder.tasks)
        BY <2>1 DEF IsAttached, AttachedTo
      <4> QED BY <2>5, <2>9, <4>1
    <3>2. /\ Alike(ts[n], builder.tasks[n])
          /\ kind = "workflow" /\ ~ r => ts[n].timeout = builder.tasks[n].timeout
      BY <2>5, <3>1 DEF ts
    <3> QED BY <2>6, <3>1, <3>2
  <2>15. Outline(j) = Outline(i)
    <3>1. \A n \in DOMAIN u : Alike(u[n], i.tasks[n])
      BY <2>5, <2>6, <2>16
    <3>2. CASE kind = "workflow"
      <4>1. i.type # "single" /\ j.type # "single"
        BY <2>1, <2>11, <3>2 DEF IsAttached, AttachedTo
      <4> DEFINE Bare(c) == [c EXCEPT !.timeout = 0, !.autoRemove = FALSE]
      <4>2. [n \in DOMAIN u |-> Bare(u[n])] = [n \in DOMAIN i.tasks |-> Bare(i.tasks[n])]
        BY <2>6, <3>1, <3>2 DEF Alike
      <4>3. [j EXCEPT !.tasks = [n \in DOMAIN u |-> Bare(u[n])]]
              = [i EXCEPT !.tasks = [n \in DOMAIN i.tasks |-> Bare(i.tasks[n])]]
        <5> DEFINE v == [n \in DOMAIN u |-> Bare(u[n])]
        <5> HIDE DEF v
        <5>1. [j EXCEPT !.tasks = v] = [i EXCEPT !.tasks = v]
          BY DEF j
        <5> QED BY <4>2, <5>1 DEF v
      <4>4. Outline(j) = [j EXCEPT !.tasks = [n \in DOMAIN u |-> Bare(u[n])]]
        BY <2>8, <3>2, <4>1 DEF Outline, Shares
      <4>5. Outline(i) = [i EXCEPT !.tasks = [n \in DOMAIN i.tasks |-> Bare(i.tasks[n])]]
        BY <3>2, <4>1 DEF Outline, Shares
      <4> QED BY <4>3, <4>4, <4>5
    <3>3. CASE kind = "dag"
      <4>1. i.type # "single" /\ j.type # "single"
        BY <2>1, <2>11, <3>3 DEF IsAttached, AttachedTo
      <4> DEFINE Bare(c) == [c EXCEPT !.outputs = {}, !.inputs = {}, !.data = ""]
      <4>2. [n \in DOMAIN u |-> Bare(u[n])] = [n \in DOMAIN i.tasks |-> Bare(i.tasks[n])]
        BY <2>6, <3>1, <3>3 DEF Alike
      <4>3. [j EXCEPT !.tasks = [n \in DOMAIN u |-> Bare(u[n])]]
              = [i EXCEPT !.tasks = [n \in DOMAIN i.tasks |-> Bare(i.tasks[n])]]
        <5> DEFINE v == [n \in DOMAIN u |-> Bare(u[n])]
        <5> HIDE DEF v
        <5>1. [j EXCEPT !.tasks = v] = [i EXCEPT !.tasks = v]
          BY DEF j
        <5> QED BY <4>2, <5>1 DEF v
      <4>4. Outline(j) = [j EXCEPT !.tasks = [n \in DOMAIN u |-> Bare(u[n])]]
        BY <2>8, <3>3, <4>1 DEF Outline, Shares
      <4>5. Outline(i) = [i EXCEPT !.tasks = [n \in DOMAIN i.tasks |-> Bare(i.tasks[n])]]
        BY <3>3, <4>1 DEF Outline, Shares
      <4> QED BY <4>3, <4>4, <4>5
    <3> QED BY <2>5, <3>2, <3>3
  <2>17. /\ kind = "workflow" => j.options = i.options
         /\ i.type = "parallel" => j.strategy = i.strategy
    BY <2>1, <2>8 DEF IsAttached, AttachedTo
  <2>18. Follows(built'[k], e)
    <3> DEFINE d == built'[k]
    <3>1. d.via = e.via /\ (e.retimed => d.retimed) /\ (~ d.retimed => ~ r) /\ d.result.input = j
      <4>1. d.via = e.via /\ d.result.input = j /\ d.retimed = (e.retimed \/ r)
        BY <2>4
      <4> HIDE DEF d
      <4> QED BY <4>1
    <3> HIDE DEF d
    <3>2. \A n \in 1 .. Len(i.tasks) :
            /\ Alike(j.tasks[n], i.tasks[n])
            /\ kind = "workflow" /\ ~ d.retimed => j.tasks[n].timeout = i.tasks[n].timeout
      BY <2>8, <2>16, <3>1
    <3>3. IsList(j.tasks) /\ Len(j.tasks) = Len(i.tasks)
      BY <2>7, <2>8
    <3>4. e.attached /\ e.result.input = i
      BY <1>4 DEF e, i
    <3>5. Follows(d, e)
      BY <2>11, <2>15, <2>17, <3>1, <3>2, <3>3, <3>4 DEF Follows
    <3> QED BY <3>5 DEF d
  <2> QED BY <2>14, <2>18 DEF e
<1>5. ASSUME NEW k \in 1 .. Len(built), ~ built[k].attached
      PROVE  Follows(built'[k], built[k]) /\ IsEntry(built[k])'
  <2>1. built'[k] = built[k]
    BY <1>1, <1>5 DEF Shown
  <2>2. IsEntry(built[k])
    BY <1>1
  <2> QED BY <1>5, <2>1, <2>2 DEF IsEntry, Follows
<1>6. \A k \in 1 .. Len(built') : IsEntry(built[k])'
  BY <1>3, <1>4, <1>5
<1>7. BuilderInv'
  <2> HIDE DEF ts
  <2> QED BY <1>3, <1>6 DEF BuilderInv
<1>8. Kept
  BY <1>3, <1>4, <1>5 DEF Kept
<1> QED BY <1>7, <1>8

(* The array is outgrown: the lists keep the old one.                      *)
LEMMA DetachedKeeps ==
  ASSUME BuilderInv, UNCHANGED kind, spare' \in Nat, BuilderTyped(kind, builder'), built' = Detached
  PROVE  BuilderInv' /\ Kept
<1>1. /\ Len(built) \in Nat /\ DOMAIN built = 1 .. Len(built)
      /\ IsList(built) /\ \A k \in 1 .. Len(built) : IsEntry(built[k])
  BY ListFacts DEF BuilderInv
<1>2. DOMAIN built' = DOMAIN built /\ built' = [k \in DOMAIN built' |-> built'[k]]
  BY DEF Detached
<1>3. IsList(built') /\ Len(built') = Len(built)
  BY <1>1, <1>2, ListMapped
<1>4. ASSUME NEW k \in 1 .. Len(built)
      PROVE  IsEntry(built[k])' /\ Follows(built'[k], built[k])
  <2> DEFINE e == built[k]
  <2>1. built'[k] = [e EXCEPT !.attached = FALSE]
    BY <1>1 DEF Detached
  <2>2. /\ e = [via |-> e.via, result |-> e.result, attached |-> e.attached, retimed |-> e.retimed]
        /\ e.retimed \in BOOLEAN /\ "input" \in DOMAIN e.result
    BY <1>1 DEF IsEntry
  <2> HIDE DEF e
  <2>3. built'[k] = [via |-> e.via, result |-> e.result, attached |-> FALSE, retimed |-> e.retimed]
    BY <2>1, <2>2
  <2>4. IsEntry(built[k])'
    BY <2>2, <2>3 DEF IsEntry
  <2>5. e.attached => IsList(e.result.input.tasks)
    BY <1>1 DEF e, IsEntry, IsAttached, AttachedTo
  <2>6. Follows(built'[k], e)
    <3> DEFINE d == built'[k]
    <3>1. d.via = e.via /\ d.result = e.result /\ d.retimed = e.retimed
      BY <2>3
    <3> HIDE DEF d
    <3>2. Follows(d, e)
      BY <2>5, <3>1 DEF Follows, Alike
    <3> QED BY <3>2 DEF d
  <2> QED BY <2>4, <2>6 DEF e
<1>5. BuilderInv'
  BY <1>3, <1>4 DEF BuilderInv
<1>6. Kept
  BY <1>3, <1>4 DEF Kept
<1> QED BY <1>5, <1>6

LEMMA AppendedKeeps ==
  ASSUME BuilderInv, UNCHANGED kind, kind \in ListKinds, NEW b, Appended(b), BuilderTyped(kind, b),
         b.tasks = builder.tasks \/ \E x : b.tasks = Append(builder.tasks, x)
  PROVE  BuilderInv' /\ Kept
<1>1. builder' = b
  BY DEF Appended
<1>2. IsList(builder.tasks) /\ Len(builder.tasks) \in Nat
  BY ListFacts DEF BuilderInv, BuilderTyped
<1>3. /\ Len(builder.tasks) <= Len(b.tasks)
      /\ \A n \in 1 .. Len(builder.tasks) : b.tasks[n] = builder.tasks[n]
  <2>1. CASE b.tasks = builder.tasks
    BY <1>2, <2>1
  <2>2. CASE \E x : b.tasks = Append(builder.tasks, x)
    <3>1. PICK x : b.tasks = Append(builder.tasks, x)
      BY <2>2
    <3>2. Len(b.tasks) = Len(builder.tasks) + 1
          /\ \A n \in 1 .. Len(builder.tasks) : b.tasks[n] = builder.tasks[n]
      BY <1>2, <3>1, ListAppend
    <3> QED BY <1>2, <3>2
  <2> QED BY <2>1, <2>2
<1>4. \A n \in 1 .. Len(builder.tasks) :
        /\ Alike(builder'.tasks[n], builder.tasks[n])
        /\ builder'.tasks[n].timeout = builder.tasks[n].timeout
  BY <1>1, <1>3 DEF Alike
<1>5. spare \in Nat
  BY DEF BuilderInv
<1>6. CASE spare' \in Nat /\ built' = Shown(b.tasks, FALSE)
  BY <1>1, <1>3, <1>4, <1>6, ShownKeeps
<1>7. CASE spare' \in Nat /\ built' = Detached
  BY <1>1, <1>7, DetachedKeeps
<1>8. spare' \in Nat /\ (built' = Shown(b.tasks, FALSE) \/ built' = Detached)
  <2> DEFINE grows == Len(b.tasks) > Len(builder.tasks)
  <2>1. CASE ~ grows
    BY <1>5, <2>1 DEF Appended
  <2>2. CASE grows /\ spare > 0
    <3>1. grows /\ spare > 0 /\ ~ (spare = 0)
      BY <1>5, <2>2
    <3>2. spare' = spare - 1 /\ built' = Shown(b.tasks, FALSE)
      <4> HIDE DEF Shown
      <4> QED BY <3>1 DEF Appended
    <3> QED BY <1>5, <3>1, <3>2
  <2>3. CASE grows /\ spare = 0
    <3>1. spare' \in 0 .. MaxSpare /\ built' = Detached
      BY <2>3 DEF Appended
    <3> QED BY <3>1, BuilderArguments
  <2>4. spare > 0 \/ spare = 0
    BY <1>5
  <2> HIDE DEF grows
  <2> QED BY <2>1, <2>2, <2>3, <2>4
<1> QED BY <1>6, <1>7, <1>8

LEMMA AddTaskKeeps ==
  ASSUME BuilderInv, AddTask
  PROVE  BuilderInv' /\ Kept
<1>1. UNCHANGED kind
  BY DEF AddTask, Call
<1>2. BuilderTyped(kind, builder)
  BY DEF BuilderInv
<1>3. ASSUME NEW t, kind \in ListKinds, kind = "workflow" => t \in ContainerType,
             kind = "dag" => {"name", "deps"} \subseteq DOMAIN t,
             NEW b, b = [builder EXCEPT !.tasks = Append(@, t)]
      PROVE  BuilderTyped(kind, b) /\ \E x : b.tasks = Append(builder.tasks, x)
  <2> DEFINE list == Append(builder.tasks, t)
  <2>1. "tasks" \in DOMAIN builder /\ IsList(builder.tasks)
    BY <1>2, <1>3 DEF BuilderTyped
  <2>2. DOMAIN b = DOMAIN builder /\ b.tasks = list /\ \A g \in DOMAIN builder : g # "tasks" => b[g] = builder[g]
    BY <1>3, <2>1
  <2>3. /\ IsList(list) /\ Len(list) = Len(builder.tasks) + 1
        /\ \A k \in 1 .. Len(builder.tasks) : list[k] = builder.tasks[k]
        /\ list[Len(builder.tasks) + 1] = t
    BY <2>1, ListAppend
  <2>4. Len(builder.tasks) \in Nat
    BY <2>1, ListFacts
  <2>5. \A k \in 1 .. Len(list) : k \in 1 .. Len(builder.tasks) \/ k = Len(builder.tasks) + 1
    BY <2>3, <2>4
  <2> HIDE DEF list
  <2>6. kind = "workflow" => \A k \in 1 .. Len(list) : list[k] \in ContainerType
    BY <1>2, <1>3, <2>3, <2>5 DEF BuilderTyped
  <2>7. kind = "dag" => \A k \in 1 .. Len(list) : {"name", "deps"} \subseteq DOMAIN list[k]
    BY <1>2, <1>3, <2>3, <2>5 DEF BuilderTyped
  <2>8. BuilderTyped(kind, b)
    BY <1>2, <1>3, <2>2, <2>3, <2>6, <2>7 DEF BuilderTyped, ListKinds
  <2> QED BY <2>2, <2>8 DEF list
<1>4. CASE \E s \in Sources : kind = "workflow" /\ Appended(Add(builder, s))
  <2>1. PICK s \in Sources : kind = "workflow" /\ Appended(Add(builder, s))
    BY <1>4
  <2>2. kind \in ListKinds
    BY <2>1 DEF ListKinds
  <2> DEFINE b == Add(builder, s)
  <2>3. CASE s = NilSource
    <3>1. b = Accumulate(builder, "cannot add nil source")
      BY <2>3 DEF Add
    <3> HIDE DEF b
    <3>2. BuilderTyped(kind, b) /\ b.tasks = builder.tasks
      BY <1>2, <2>2, <3>1, AccumulateKeepsTyped
    <3> QED BY <1>1, <2>1, <2>2, <3>2, AppendedKeeps DEF b
  <2>4. CASE s # NilSource
    <3>1. b = [builder EXCEPT !.tasks = Append(@, s)] /\ s \in ContainerType
      BY <2>4, BuilderArguments DEF Add, AddInput
    <3> HIDE DEF b
    <3>2. BuilderTyped(kind, b) /\ \E x : b.tasks = Append(builder.tasks, x)
      BY <1>3, <2>1, <2>2, <3>1
    <3> QED BY <1>1, <2>1, <2>2, <3>2, AppendedKeeps DEF b
  <2> QED BY <2>3, <2>4
<1>5. CASE \E f \in Functions : kind \in {"functions", "generic"} /\ Appended(AddInput(builder, f))
  <2>1. PICK f \in Functions : kind \in {"functions", "generic"} /\ Appended(AddInput(builder, f))
    BY <1>5
  <2>2. kind \in ListKinds /\ kind \notin {"workflow", "dag"}
    BY <2>1 DEF ListKinds
  <2> DEFINE b == AddInput(builder, f)
  <2>3. b = [builder EXCEPT !.tasks = Append(@, f)]
    BY DEF AddInput
  <2> HIDE DEF b
  <2>4. BuilderTyped(kind, b) /\ \E x : b.tasks = Append(builder.tasks, x)
    BY <1>3, <2>2, <2>3
  <2> QED BY <1>1, <2>1, <2>2, <2>4, AppendedKeeps DEF b
<1>6. CASE \E n \in Nodes : kind = "dag" /\ Appended(AddNode(builder, n.name, "f", n.deps))
  <2>1. PICK n \in Nodes : kind = "dag" /\ Appended(AddNode(builder, n.name, "f", n.deps))
    BY <1>6
  <2>2. kind \in ListKinds
    BY <2>1 DEF ListKinds
  <2> DEFINE b == AddNode(builder, n.name, "f", n.deps)
             t == Node(n.name, "f", n.deps)
  <2>3. b = Accumulate(builder, "duplicate node name") \/ b = [builder EXCEPT !.tasks = Append(@, t)]
    BY DEF AddNode, AddNodeWithInput
  <2>4. {"name", "deps"} \subseteq DOMAIN t
    BY DEF Node
  <2> HIDE DEF b, t
  <2>5. CASE b = Accumulate(builder, "duplicate node name")
    <3>1. BuilderTyped(kind, b) /\ b.tasks = builder.tasks
      BY <1>2, <2>2, <2>5, AccumulateKeepsTyped
    <3> QED BY <1>1, <2>1, <2>2, <3>1, AppendedKeeps DEF b
  <2>6. CASE b = [builder EXCEPT !.tasks = Append(@, t)]
    <3>1. BuilderTyped(kind, b) /\ \E x : b.tasks = Append(builder.tasks, x)
      BY <1>3, <2>1, <2>2, <2>4, <2>6
    <3> QED BY <1>1, <2>1, <2>2, <3>1, AppendedKeeps DEF b
  <2> QED BY <2>3, <2>5, <2>6
<1> QED BY <1>4, <1>5, <1>6 DEF AddTask

(* A change in place of every task, or of some of them. *)
LEMMA InPlaceKeeps ==
  ASSUME BuilderInv, kind \in {"workflow", "dag"}, NEW changed, NEW r \in BOOLEAN, InPlace(changed, r),
         DOMAIN changed = DOMAIN builder,
         \A f \in DOMAIN builder : f # "tasks" => changed[f] = builder[f],
         DOMAIN changed.tasks = DOMAIN builder.tasks,
         changed.tasks = [k \in DOMAIN changed.tasks |-> changed.tasks[k]],
         \A k \in DOMAIN builder.tasks :
           /\ Alike(changed.tasks[k], builder.tasks[k])
           /\ kind = "workflow" /\ ~ r => changed.tasks[k].timeout = builder.tasks[k].timeout
           /\ kind = "workflow" => changed.tasks[k] \in ContainerType
           /\ kind = "dag" => DOMAIN changed.tasks[k] = DOMAIN builder.tasks[k]
  PROVE  BuilderInv' /\ Kept
<1>1. /\ "tasks" \in DOMAIN builder /\ IsList(builder.tasks) /\ BuilderTyped(kind, builder)
      /\ DOMAIN builder.tasks = 1 .. Len(builder.tasks) /\ Len(builder.tasks) \in Nat
  BY ListFacts DEF BuilderInv, BuilderTyped, ListKinds
<1>2. IsList(changed.tasks) /\ Len(changed.tasks) = Len(builder.tasks)
  BY <1>1, ListMapped
<1>3. BuilderTyped(kind, changed)
  <2>1. kind = "dag" => \A k \in 1 .. Len(changed.tasks) : {"name", "deps"} \subseteq DOMAIN changed.tasks[k]
    BY <1>1, <1>2 DEF BuilderTyped
  <2>2. kind = "workflow" => \A k \in 1 .. Len(changed.tasks) : changed.tasks[k] \in ContainerType
    BY <1>1, <1>2
  <2>3. "errors" \in DOMAIN changed /\ changed.errors = builder.errors
        /\ (kind = "workflow" => /\ {"mode", "options"} \subseteq DOMAIN changed
                                 /\ changed.mode = builder.mode /\ changed.options = builder.options)
    BY <1>1 DEF BuilderTyped
  <2> QED BY <1>1, <1>2, <2>1, <2>2, <2>3 DEF BuilderTyped, ListKinds
<1>4. builder' = changed /\ built' = Shown(changed.tasks, r) /\ UNCHANGED <<kind, spare>>
  BY DEF InPlace, Call
<1>5. \A k \in 1 .. Len(builder.tasks) :
        /\ Alike(builder'.tasks[k], builder.tasks[k])
        /\ kind = "workflow" /\ ~ r => builder'.tasks[k].timeout = builder.tasks[k].timeout
  BY <1>1, <1>4
<1>6. Len(builder.tasks) <= Len(builder'.tasks) /\ spare' \in Nat
  BY <1>1, <1>2, <1>4 DEF BuilderInv
<1> QED BY <1>3, <1>4, <1>5, <1>6, ShownKeeps

LEMMA RetimeKeeps ==
  ASSUME BuilderInv, Retime \/ Autoremove
  PROVE  BuilderInv' /\ Kept
<1>1. /\ kind = "workflow" => IsList(builder.tasks) /\ "tasks" \in DOMAIN builder
      /\ kind = "workflow" => \A k \in DOMAIN builder.tasks : builder.tasks[k] \in ContainerType
  BY ListFacts DEF BuilderInv, BuilderTyped, ListKinds
<1>2. CASE Retime
  <2>1. PICK t \in RunTimeouts : kind = "workflow" /\ InPlace(WithTimeout(builder, t), TRUE)
    BY <1>2 DEF Retime
  <2> DEFINE c == WithTimeout(builder, t)
  <2>2. /\ DOMAIN c = DOMAIN builder /\ \A f \in DOMAIN builder : f # "tasks" => c[f] = builder[f]
        /\ c.tasks = [k \in DOMAIN builder.tasks |-> [builder.tasks[k] EXCEPT !.timeout = t]]
    BY <1>1, <2>1 DEF WithTimeout
  <2> HIDE DEF c
  <2>3. \A k \in DOMAIN builder.tasks : Alike(c.tasks[k], builder.tasks[k])
    BY <2>1, <2>2 DEF Alike
  <2>4. \A k \in DOMAIN builder.tasks : c.tasks[k] \in ContainerType
    <3> SUFFICES ASSUME NEW k \in DOMAIN builder.tasks PROVE c.tasks[k] \in ContainerType
      OBVIOUS
    <3>1. builder.tasks[k] \in ContainerType /\ t \in Nat
      BY <1>1, <2>1, BuilderArguments
    <3>2. [builder.tasks[k] EXCEPT !.timeout = t] \in ContainerType
      BY <3>1 DEF ContainerType
    <3> QED BY <2>2, <3>2
  <2>5. DOMAIN c.tasks = DOMAIN builder.tasks /\ c.tasks = [k \in DOMAIN c.tasks |-> c.tasks[k]]
    BY <2>2
  <2> QED BY <2>1, <2>2, <2>3, <2>4, <2>5, InPlaceKeeps DEF c
<1>3. CASE Autoremove
  <2>1. PICK r \in BOOLEAN : kind = "workflow" /\ InPlace(WithAutoRemove(builder, r), FALSE)
    BY <1>3 DEF Autoremove
  <2> DEFINE c == WithAutoRemove(builder, r)
  <2>2. /\ DOMAIN c = DOMAIN builder /\ \A f \in DOMAIN builder : f # "tasks" => c[f] = builder[f]
        /\ c.tasks = [k \in DOMAIN builder.tasks |-> [builder.tasks[k] EXCEPT !.autoRemove = r]]
    BY <1>1, <2>1 DEF WithAutoRemove
  <2> HIDE DEF c
  <2>3. \A k \in DOMAIN builder.tasks : Alike(c.tasks[k], builder.tasks[k])
    BY <2>1, <2>2 DEF Alike
  <2>4. \A k \in DOMAIN builder.tasks : c.tasks[k] \in ContainerType
    <3> SUFFICES ASSUME NEW k \in DOMAIN builder.tasks PROVE c.tasks[k] \in ContainerType
      OBVIOUS
    <3>1. builder.tasks[k] \in ContainerType
      BY <1>1, <2>1
    <3>2. [builder.tasks[k] EXCEPT !.autoRemove = r] \in ContainerType
      BY <3>1 DEF ContainerType
    <3> QED BY <2>2, <3>2
  <2>5. DOMAIN c.tasks = DOMAIN builder.tasks /\ c.tasks = [k \in DOMAIN c.tasks |-> c.tasks[k]]
    BY <2>2
  <2>6. \A k \in DOMAIN builder.tasks : c.tasks[k].timeout = builder.tasks[k].timeout
    BY <1>1, <2>1, <2>2 DEF ContainerType
  <2> QED BY <2>1, <2>2, <2>3, <2>4, <2>5, <2>6, InPlaceKeeps DEF c
<1> QED BY <1>2, <1>3

LEMMA MapDataKeeps ==
  ASSUME BuilderInv, MapData
  PROVE  BuilderInv' /\ Kept
<1>1. PICK n \in Nodes : /\ kind = "dag"
                         /\ \E field \in {"outputs", "inputs", "data"} : \E value :
                              InPlace(WithMapping(builder, n.name, field, value), FALSE)
  <2>1. PICK n \in Nodes :
          /\ kind = "dag"
          /\ \/ InPlace(WithOutputMapping(builder, n.name, "out"), FALSE)
             \/ InPlace(WithInputMapping(builder, n.name, "in"), FALSE)
             \/ \E from \in n.deps : InPlace(WithDataMapping(builder, n.name, from), FALSE)
    BY DEF MapData
  <2> DEFINE Mapped(field, value) == InPlace(WithMapping(builder, n.name, field, value), FALSE)
  <2>2. (\E value : Mapped("outputs", value)) \/ (\E value : Mapped("inputs", value))
        \/ (\E value : Mapped("data", value))
    BY <2>1 DEF WithOutputMapping, WithInputMapping, WithDataMapping
  <2> HIDE DEF Mapped
  <2>3. \E field \in {"outputs", "inputs", "data"} : \E value : Mapped(field, value)
    BY <2>2
  <2> QED BY <2>1, <2>3 DEF Mapped
<1> PICK field \in {"outputs", "inputs", "data"} :
        \E value : InPlace(WithMapping(builder, n.name, field, value), FALSE)
  BY <1>1
<1>2. PICK value : InPlace(WithMapping(builder, n.name, field, value), FALSE)
  OBVIOUS
<1> DEFINE c == WithMapping(builder, n.name, field, value)
<1>3. IsList(builder.tasks) /\ "tasks" \in DOMAIN builder /\ BuilderTyped(kind, builder)
  BY <1>1 DEF BuilderInv, BuilderTyped, ListKinds
<1>4. CASE IndexOf(builder, n.name) = {}
  <2>1. c = Accumulate(builder, "unknown node")
    BY <1>4 DEF WithMapping
  <2>2. BuilderTyped(kind, c) /\ c.tasks = builder.tasks
    <3> HIDE DEF c
    <3>1. kind \in ListKinds
      BY <1>1 DEF ListKinds
    <3> QED BY <1>3, <2>1, <3>1, AccumulateKeepsTyped
  <2>3. builder' = c /\ built' = Shown(c.tasks, FALSE) /\ UNCHANGED <<kind, spare>>
    BY <1>2 DEF InPlace, Call
  <2> HIDE DEF c
  <2>4. Len(builder.tasks) \in Nat /\ spare' \in Nat
    BY <1>3, <2>3, ListFacts DEF BuilderInv
  <2>5. Len(builder.tasks) <= Len(builder'.tasks)
        /\ \A k \in 1 .. Len(builder.tasks) : Alike(builder'.tasks[k], builder.tasks[k])
        /\ kind # "workflow"
    <3>1. \A d : Alike(d, d)
      BY DEF Alike
    <3>2. builder'.tasks = builder.tasks
      BY <2>2, <2>3
    <3> QED BY <1>1, <2>4, <3>1, <3>2
  <2> QED BY <2>2, <2>3, <2>4, <2>5, ShownKeeps
<1>5. CASE IndexOf(builder, n.name) # {}
  <2> DEFINE list == [k \in DOMAIN builder.tasks |->
                        IF k \in IndexOf(builder, n.name) THEN [builder.tasks[k] EXCEPT ![field] = value]
                                                          ELSE builder.tasks[k]]
  <2>1. /\ DOMAIN c = DOMAIN builder /\ \A f \in DOMAIN builder : f # "tasks" => c[f] = builder[f]
        /\ c.tasks = list
    BY <1>3, <1>5 DEF WithMapping
  <2> HIDE DEF c
  <2>2. ASSUME NEW k \in DOMAIN builder.tasks
        PROVE  Alike(c.tasks[k], builder.tasks[k]) /\ DOMAIN c.tasks[k] = DOMAIN builder.tasks[k]
    <3> DEFINE d == builder.tasks[k]
    <3>1. c.tasks[k] = d \/ c.tasks[k] = [d EXCEPT ![field] = value]
      BY <2>1
    <3> HIDE DEF d
    <3>2. Alike([d EXCEPT ![field] = value], d) /\ Alike(d, d)
      <4>1. CASE field = "outputs"
        BY <1>1, <4>1 DEF Alike
      <4>2. CASE field = "inputs"
        BY <1>1, <4>2 DEF Alike
      <4>3. CASE field = "data"
        BY <1>1, <4>3 DEF Alike
      <4> QED BY <4>1, <4>2, <4>3
    <3> QED BY <3>1, <3>2 DEF d
  <2>3. DOMAIN c.tasks = DOMAIN builder.tasks /\ c.tasks = [k \in DOMAIN c.tasks |-> c.tasks[k]]
    BY <2>1
  <2> QED BY <1>1, <1>2, <2>1, <2>2, <2>3, InPlaceKeeps DEF c
<1> QED BY <1>4, <1>5

(* A Build returns an input, which shares the builder's list or does not. *)
LEMMA ReturnsKeeps ==
  ASSUME BuilderInv, UNCHANGED <<kind, spare>>, BuilderTyped(kind, builder'),
         kind \in ListKinds => builder'.tasks = builder.tasks,
         NEW via, NEW result, "input" \in DOMAIN result, Returns(via, result),
         Shares(result.input) => AttachedTo(kind, result.input, builder.tasks),
         IsGood([via |-> via, result |-> result, attached |-> Shares(result.input), retimed |-> FALSE])
  PROVE  BuilderInv' /\ Kept
<1> DEFINE e == [via |-> via, result |-> result, attached |-> Shares(result.input), retimed |-> FALSE]
<1>1. built' = Append(built, e)
  BY DEF Returns
<1>2. IsGood(e) /\ e.result = result /\ (e.attached <=> Shares(result.input)) /\ e.retimed = FALSE
      /\ e.attached \in BOOLEAN
      /\ e = [via |-> e.via, result |-> e.result, attached |-> e.attached, retimed |-> e.retimed]
  BY DEF Shares
<1> HIDE DEF e
<1>3. /\ IsList(built) /\ Len(built) \in Nat /\ DOMAIN built = 1 .. Len(built)
      /\ \A k \in 1 .. Len(built) : IsEntry(built[k])
  BY ListFacts DEF BuilderInv
<1>4. /\ IsList(built') /\ Len(built') = Len(built) + 1
      /\ \A k \in 1 .. Len(built) : built'[k] = built[k]
      /\ built'[Len(built) + 1] = e
  BY <1>1, <1>3, ListAppend
<1>5. kind \in {"workflow", "dag"} => builder'.tasks = builder.tasks
  BY DEF ListKinds
<1>6. ASSUME NEW i, IsAttached(i) PROVE IsAttached(i)'
  BY <1>5, <1>6 DEF IsAttached, AttachedTo
<1>7. \A k \in 1 .. Len(built') : IsEntry(built[k])'
  <2> SUFFICES ASSUME NEW k \in 1 .. Len(built') PROVE IsEntry(built[k])'
    OBVIOUS
  <2>1. CASE k \in 1 .. Len(built)
    <3>1. IsEntry(built[k]) /\ built'[k] = built[k]
      BY <1>3, <1>4, <2>1
    <3> QED BY <1>6, <3>1 DEF IsEntry
  <2>2. CASE k = Len(built) + 1
    <3>1. built'[k] = e
      BY <1>4, <2>2
    <3>2. e.attached => IsAttached(result.input)'
      <4>1. e.attached => AttachedTo(kind, result.input, builder.tasks) /\ kind \in {"workflow", "dag"}
        BY <1>2 DEF Shares
      <4> QED BY <1>5, <4>1 DEF IsAttached
    <3> QED BY <1>2, <3>1, <3>2 DEF IsEntry
  <2> QED BY <1>3, <1>4, <2>1, <2>2
<1>8. BuilderInv'
  BY <1>4, <1>7 DEF BuilderInv
<1>9. Kept
  <2> SUFFICES ASSUME NEW k \in 1 .. Len(built) PROVE Follows(built[k], built[k])
    BY <1>2, <1>4 DEF Kept
  <2>1. built[k].attached => IsList(built[k].result.input.tasks)
    BY DEF BuilderInv, IsEntry, IsAttached, AttachedTo
  <2> QED BY <2>1 DEF Follows, Alike
<1> QED BY <1>8, <1>9
-----------------------------------------------------------------------------
(* What the Builds return.                                                 *)

(* The longest RunTimeout is at least that of every container.             *)
LEMMA LongestFacts ==
  ASSUME NEW b, BuilderTyped("workflow", b)
  PROVE  /\ LongestRunTimeout(b) \in Nat
         /\ \A n \in DOMAIN b.tasks : b.tasks[n].timeout <= LongestRunTimeout(b)
         /\ \A n \in DOMAIN b.tasks : b.tasks[n].timeout \in Nat
<1> DEFINE f == [k \in DOMAIN b.tasks |-> b.tasks[k].timeout]
           S == {0} \cup {b.tasks[k].timeout : k \in DOMAIN b.tasks}
<1>1. Len(b.tasks) \in Nat /\ DOMAIN b.tasks = 1 .. Len(b.tasks)
  BY ListFacts DEF BuilderTyped, ListKinds
<1>2. \A k \in 1 .. Len(b.tasks) : b.tasks[k].timeout \in Nat
  BY DEF BuilderTyped, ContainerType
<1>3. \A k \in 1 .. Len(b.tasks) : f[k] \in Nat
  BY <1>1, <1>2
<1>4. PICK m \in Nat : \A k \in 1 .. Len(b.tasks) : f[k] <= m
  <2> HIDE DEF f
  <2> QED BY <1>1, <1>3, ListBound
<1>5. S \in SUBSET Int /\ S # {} /\ 0 \in S /\ \A x \in S : x <= m
  <2>1. \A k \in DOMAIN b.tasks : b.tasks[k].timeout \in Nat /\ b.tasks[k].timeout <= m
    <3> SUFFICES ASSUME NEW k \in 1 .. Len(b.tasks)
                 PROVE  b.tasks[k].timeout \in Nat /\ b.tasks[k].timeout <= m
      BY <1>1
    <3>1. f[k] = b.tasks[k].timeout
      BY <1>1
    <3> QED BY <1>2, <1>4, <3>1
  <2>2. \A x \in S : x = 0 \/ \E k \in DOMAIN b.tasks : x = b.tasks[k].timeout
    OBVIOUS
  <2>3. \A x \in S : x \in Nat /\ x <= m
    <3> HIDE DEF S
    <3> QED BY <2>1, <2>2
  <2>4. 0 \in S
    OBVIOUS
  <2> HIDE DEF S
  <2> QED BY <2>3, <2>4
<1>6. Max(S) \in S /\ \A x \in S : Max(S) >= x
  <2> HIDE DEF S
  <2> QED BY <1>5, MaxInt
<1>7. Max(S) \in Nat
  BY <1>1, <1>2, <1>6
<1>8. \A n \in DOMAIN b.tasks : b.tasks[n].timeout \in S /\ b.tasks[n].timeout \in Nat
  BY <1>1, <1>2
<1>9. \A n \in DOMAIN b.tasks : b.tasks[n].timeout <= Max(S)
  <2> HIDE DEF S
  <2> QED BY <1>6, <1>7, <1>8
<1> QED BY <1>7, <1>8, <1>9 DEF LongestRunTimeout

(* Whatever the options, an attempt may take longer than the longest       *)
(* RunTimeout, unless resolving them is an error.                          *)
LEMMA ResolvedFacts ==
  ASSUME NEW explicit \in OptionsType, NEW longest \in Nat,
         ~ resolveExecutionOptions(explicit, longest).error
  PROVE  \A t \in Nat : t > 0 /\ t <= longest =>
           ResolveActivityOptions(resolveExecutionOptions(explicit, longest).options).startToClose > t
<1> DEFINE o == resolveExecutionOptions(explicit, longest).options
<1>1. longest > 0 => o \in Int /\ o > longest
  <2> SUFFICES ASSUME longest > 0 PROVE o \in Int /\ o > longest
    OBVIOUS
  <2>1. explicit = -1 \/ explicit \in Nat
    BY DEF OptionsType, Nil
  <2>2. CASE explicit \in {Nil, 0}
    <3>1. o = longest + 2
      BY <2>2 DEF resolveExecutionOptions, runTimeoutMargin
    <3> HIDE DEF o
    <3> QED BY <3>1
  <2>3. CASE explicit \notin {Nil, 0}
    <3>1. o = explicit /\ ~ (explicit > 0 /\ explicit <= longest)
      BY <2>3 DEF resolveExecutionOptions
    <3>2. explicit \in Nat /\ explicit # 0
      BY <2>1, <2>3 DEF Nil
    <3> HIDE DEF o
    <3> QED BY <3>1, <3>2
  <2> QED BY <2>2, <2>3
<1> HIDE DEF o
<1>2. o \in Int /\ o > 0 => ResolveActivityOptions(o).startToClose = o
  BY DEF ResolveActivityOptions, DefaultActivityOptions
<1>3. \A t \in Nat : t > 0 /\ t <= longest => ResolveActivityOptions(o).startToClose > t
  BY <1>1, <1>2
<1> QED BY <1>3 DEF o

(* A definition carries the input it was made of.                          *)
LEMMA DefinitionFacts ==
  ASSUME NEW package, NEW type, NEW b, NEW input, Definition(package, type, b, input) # Failed
  PROVE  /\ input # Failed
         /\ "input" \in DOMAIN Definition(package, type, b, input)
         /\ Definition(package, type, b, input).input = input
BY DEF Definition

(* An input with its options set, or as it was.                            *)
LEMMA PipelineFacts ==
  ASSUME NEW b, NEW o, NEW i, i = PipelineInput(b) \/ i = [PipelineInput(b) EXCEPT !.options = o]
  PROVE  /\ i.type = "pipeline" /\ i.tasks = b.tasks /\ {"type", "tasks", "options"} \subseteq DOMAIN i
         /\ i # PipelineInput(b) => i.options = o
         /\ \A t : ValidPipeline(i, t) <=> ValidPipeline(PipelineInput(b), t)
BY DEF PipelineInput, ValidPipeline

LEMMA ParallelFacts ==
  ASSUME NEW b, NEW o, NEW i, i = ParallelInput(b) \/ i = [ParallelInput(b) EXCEPT !.options = o]
  PROVE  /\ i.type = "parallel" /\ i.tasks = b.tasks
         /\ {"type", "tasks", "options", "strategy"} \subseteq DOMAIN i
         /\ i # ParallelInput(b) => i.options = o
         /\ \A t : ValidParallel(i, t) <=> ValidParallel(ParallelInput(b), t)
BY DEF ParallelInput, ValidParallel

LEMMA SingleFacts ==
  ASSUME NEW b, NEW i, i = SingleInput(b), NEW t, ValidTask(t, b.tasks[1])
  PROVE  i.type = "single" /\ AcceptedByWorkflow(i, t)
BY DEF SingleInput, AcceptedByWorkflow

(* A list input of the container package that waits for its containers.    *)
LEMMA OutlivesList ==
  ASSUME NEW b, BuilderTyped("workflow", b), NEW i, i.type \in {"pipeline", "parallel"}, i.tasks = b.tasks,
         ~ resolveExecutionOptions(b.options, LongestRunTimeout(b)).error,
         i.options = resolveExecutionOptions(b.options, LongestRunTimeout(b)).options
  PROVE  Outlives(i)
<1> DEFINE l == LongestRunTimeout(b)
<1>1. /\ l \in Nat
      /\ \A n \in DOMAIN b.tasks : b.tasks[n].timeout <= l /\ b.tasks[n].timeout \in Nat
  BY LongestFacts
<1>2. b.options \in OptionsType
  BY DEF BuilderTyped
<1> HIDE DEF l
<1>3. \A t \in Nat : t > 0 /\ t <= l =>
        ResolveActivityOptions(resolveExecutionOptions(b.options, l).options).startToClose > t
  BY <1>1, <1>2, ResolvedFacts DEF l
<1>4. \A n \in DOMAIN i.tasks :
        i.tasks[n].timeout > 0 => ResolveActivityOptions(i.options).startToClose > i.tasks[n].timeout
  BY <1>1, <1>3 DEF l
<1>5. Containers(i) = {i.tasks[k] : k \in DOMAIN i.tasks}
  BY DEF Containers
<1> QED BY <1>4, <1>5 DEF Outlives

(* What Build of the container package returns is good, and the error it   *)
(* records leaves the list alone.                                          *)
LEMMA ContainersBuilt ==
  ASSUME kind = "workflow", NEW b, BuilderTyped("workflow", b), NEW r, r = BuildContainers(b)
  PROVE  /\ BuilderTyped("workflow", r.builder)
         /\ r.builder.tasks = b.tasks
         /\ r.result # Failed =>
              /\ "input" \in DOMAIN r.result
              /\ Shares(r.result.input) => AttachedTo("workflow", r.result.input, b.tasks)
              /\ IsGood([via |-> "Build", result |-> r.result,
                         attached |-> Shares(r.result.input), retimed |-> FALSE])
<1> DEFINE resolved == resolveExecutionOptions(b.options, LongestRunTimeout(b))
           o == resolved.options
           checked == IF resolved.error THEN Accumulate(b, "start_to_close_timeout") ELSE b
           Timed(i) == IF i = Failed THEN i ELSE [i EXCEPT !.options = o]
           P == Definition("container", "ContainerPipelineWorkflow", b, Timed(BuildPipeline(checked)))
           Q == Definition("container", "ParallelContainersWorkflow", b, Timed(BuildParallel(checked)))
           S == Definition("container", "ExecuteContainerWorkflow", b, BuildSingle(checked))
<1>1. /\ BuilderTyped("workflow", checked) /\ checked.tasks = b.tasks
      /\ resolved.error => checked.errors # <<>>
      /\ ~ resolved.error => checked = b
  <2>1. "workflow" \in ListKinds
    BY DEF ListKinds
  <2>2. CASE resolved.error
    BY <2>1, <2>2, AccumulateKeepsTyped
  <2>3. CASE ~ resolved.error
    BY <2>3
  <2> QED BY <2>2, <2>3
<1>2. \/ r = [builder |-> b, result |-> Failed]
      \/ r.builder = checked /\ (\/ b.mode = "pipeline" /\ r.result = P
                                 \/ b.mode = "parallel" /\ r.result = Q
                                 \/ b.mode = "single" /\ r.result = S)
  <2>1. b.mode \in {"unset", "pipeline", "parallel", "single"}
    BY DEF BuilderTyped
  <2>2. CASE b.name = "" \/ b.mode = "unset"
    BY <2>2 DEF BuildContainers
  <2>3. CASE ~ (b.name = "" \/ b.mode = "unset")
    <3>1. CASE b.mode = "pipeline"
      BY <2>3, <3>1 DEF BuildContainers
    <3>2. CASE b.mode = "parallel"
      BY <2>3, <3>2 DEF BuildContainers
    <3>3. CASE b.mode = "single"
      BY <2>3, <3>3 DEF BuildContainers
    <3> QED BY <2>1, <2>3, <3>1, <3>2, <3>3
  <2> QED BY <2>2, <2>3
<1> HIDE DEF checked, P, Q, S
<1>3. BuilderTyped("workflow", r.builder) /\ r.builder.tasks = b.tasks
  BY <1>1, <1>2
<1>4. IsList(b.tasks)
  BY DEF BuilderTyped, ListKinds
<1>5. ASSUME NEW i, i.type \in {"pipeline", "parallel"}, i.tasks = b.tasks,
             {"type", "tasks", "options"} \subseteq DOMAIN i, i.type = "parallel" => "strategy" \in DOMAIN i,
             i.options = o, ~ resolved.error, NEW d, "input" \in DOMAIN d, d.input = i
      PROVE  /\ AttachedTo("workflow", i, b.tasks)
             /\ IsGood([via |-> "Build", result |-> d, attached |-> Shares(i), retimed |-> FALSE])
  <2>1. AttachedTo("workflow", i, b.tasks)
    <3>1. Len(b.tasks) <= Len(b.tasks)
      BY <1>4, ListFacts
    <3> QED BY <1>4, <1>5, <3>1 DEF AttachedTo
  <2>2. Outlives(i)
    BY <1>5, OutlivesList
  <2> QED BY <1>5, <2>1, <2>2 DEF IsGood
<1>6. CASE r.result = P /\ P # Failed
  <2> DEFINE i == Timed(BuildPipeline(checked))
  <2>1. i # Failed /\ "input" \in DOMAIN P /\ P.input = i
    BY <1>6, DefinitionFacts DEF P
  <2>2. BuildPipeline(checked) # Failed
    BY <2>1
  <2>3. BuildPipeline(checked) = PipelineInput(checked) /\ Ready(checked)
    BY <2>2 DEF BuildPipeline
  <2>4. ~ resolved.error
    BY <1>1, <2>3 DEF Ready
  <2>5. i = [PipelineInput(checked) EXCEPT !.options = o]
    BY <2>2, <2>3
  <2> HIDE DEF i
  <2>6. i.type = "pipeline" /\ i.tasks = b.tasks /\ {"type", "tasks", "options"} \subseteq DOMAIN i
    <3> HIDE DEF o
    <3> QED BY <1>1, <2>5 DEF PipelineInput
  <2>7. i.options = o
    <3> HIDE DEF o
    <3> QED BY <2>5 DEF PipelineInput
  <2> QED BY <1>3, <1>5, <1>6, <2>1, <2>4, <2>6, <2>7
<1>7. CASE r.result = Q /\ Q # Failed
  <2> DEFINE i == Timed(BuildParallel(checked))
  <2>1. i # Failed /\ "input" \in DOMAIN Q /\ Q.input = i
    BY <1>7, DefinitionFacts DEF Q
  <2>2. BuildParallel(checked) # Failed
    BY <2>1
  <2>3. BuildParallel(checked) = ParallelInput(checked) /\ Ready(checked)
    BY <2>2 DEF BuildParallel
  <2>4. ~ resolved.error
    BY <1>1, <2>3 DEF Ready
  <2>5. i = [ParallelInput(checked) EXCEPT !.options = o]
    BY <2>2, <2>3
  <2> HIDE DEF i
  <2>6. i.type = "parallel" /\ i.tasks = b.tasks /\ {"type", "tasks", "options", "strategy"} \subseteq DOMAIN i
    <3> HIDE DEF o
    <3> QED BY <1>1, <2>5 DEF ParallelInput
  <2>7. i.options = o
    <3> HIDE DEF o
    <3> QED BY <2>5 DEF ParallelInput
  <2> QED BY <1>3, <1>5, <1>7, <2>1, <2>4, <2>6, <2>7
<1>8. CASE r.result = S /\ S # Failed
  <2> DEFINE i == BuildSingle(checked)
  <2>1. i # Failed /\ "input" \in DOMAIN S /\ S.input = i
    BY <1>8, DefinitionFacts DEF S
  <2>2. i = SingleInput(checked) /\ ValidContainer(checked.tasks[1])
    BY <2>1 DEF BuildSingle
  <2>3. ValidTask("container", checked.tasks[1])
    BY <2>2 DEF ValidTask
  <2>4. i.type = "single" /\ AcceptedByWorkflow(i, "container")
    <3> HIDE DEF i
    <3> QED BY <2>2, <2>3, SingleFacts
  <2> HIDE DEF i
  <2>5. ~ Shares(i)
    BY <2>4 DEF Shares
  <2>6. Accepted(i)
    BY <2>4 DEF Accepted
  <2> QED BY <1>3, <1>8, <2>1, <2>4, <2>5, <2>6 DEF IsGood
<1> QED BY <1>2, <1>3, <1>6, <1>7, <1>8

LEMMA LoopFacts ==
  ASSUME NEW b, NEW o, NEW t, NEW i, i = LoopInput(b) \/ i = [LoopInput(b) EXCEPT !.options = o],
         ValidLoop(LoopInput(b), t)
  PROVE  i.type = "loop" /\ i.template = b.template /\ AcceptedByWorkflow(i, t)
<1> DEFINE j == LoopInput(b)
<1>1. i.type = "loop" /\ i.template = b.template /\ j.template = b.template
      /\ i.items = j.items /\ i.strategy = j.strategy
  BY DEF LoopInput
<1> HIDE DEF j
<1>2. ValidLoop(j, t)
  BY DEF j
<1>3. ValidLoop(i, t)
  BY <1>1, <1>2 DEF ValidLoop
<1> QED BY <1>1, <1>3 DEF AcceptedByWorkflow

LEMMA ParameterizedLoopFacts ==
  ASSUME NEW b, NEW o, NEW t,
         NEW i, i = ParameterizedLoopInput(b) \/ i = [ParameterizedLoopInput(b) EXCEPT !.options = o],
         ValidParameterizedLoop(ParameterizedLoopInput(b), t)
  PROVE  i.type = "parameterizedLoop" /\ i.template = b.template /\ AcceptedByWorkflow(i, t)
<1> DEFINE j == ParameterizedLoopInput(b)
<1>1. i.type = "parameterizedLoop" /\ i.template = b.template /\ j.template = b.template
      /\ i.parameters = j.parameters /\ i.strategy = j.strategy
  BY DEF ParameterizedLoopInput
<1> HIDE DEF j
<1>2. ValidParameterizedLoop(j, t)
  BY DEF j
<1>3. ValidParameterizedLoop(i, t)
  BY <1>1, <1>2 DEF ValidParameterizedLoop
<1> QED BY <1>1, <1>3 DEF AcceptedByWorkflow

LEMMA LoopTimed ==
  ASSUME NEW b, NEW o, NEW i, i = [LoopInput(b) EXCEPT !.options = o],
         ValidLoop(LoopInput(b), "container")
  PROVE  /\ i.type \in {"loop", "parameterizedLoop"} /\ i.template = b.template
         /\ AcceptedByWorkflow(i, "container")
<1>1. i.type = "loop" /\ i.template = b.template /\ AcceptedByWorkflow(i, "container")
  BY LoopFacts
<1> QED BY <1>1

LEMMA ParameterizedLoopTimed ==
  ASSUME NEW b, NEW o, NEW i, i = [ParameterizedLoopInput(b) EXCEPT !.options = o],
         ValidParameterizedLoop(ParameterizedLoopInput(b), "container")
  PROVE  /\ i.type \in {"loop", "parameterizedLoop"} /\ i.template = b.template
         /\ AcceptedByWorkflow(i, "container")
<1>1. i.type = "parameterizedLoop" /\ i.template = b.template /\ AcceptedByWorkflow(i, "container")
  BY ParameterizedLoopFacts
<1> QED BY <1>1

LEMMA ContainerLoopBuilt ==
  ASSUME kind = "loop", NEW b, BuilderTyped("loop", b), NEW r, r = BuildContainerLoop(b)
  PROVE  /\ BuilderTyped("loop", r.builder)
         /\ r.result # Failed =>
              /\ "input" \in DOMAIN r.result
              /\ ~ Shares(r.result.input)
              /\ IsGood([via |-> "Build", result |-> r.result,
                         attached |-> Shares(r.result.input), retimed |-> FALSE])
<1> DEFINE resolved == resolveExecutionOptions(b.options, b.template.timeout)
           o == resolved.options
           checked == IF resolved.error THEN Accumulate(b, "start_to_close_timeout") ELSE b
           input == IF b.mode = "loop" THEN BuildLoop(checked) ELSE BuildParameterizedLoop(checked)
           timed == IF input = Failed THEN input ELSE [input EXCEPT !.options = o]
           d == Definition("container", LoopType(b), b, timed)
<1>1. /\ BuilderTyped("loop", checked)
      /\ resolved.error => checked.errors # <<>>
      /\ ~ resolved.error => checked = b
  <2>2. CASE resolved.error
    BY <2>2, AccumulateKeepsTyped
  <2>3. CASE ~ resolved.error
    BY <2>3
  <2> QED BY <2>2, <2>3
<1>2. r = [builder |-> b, result |-> Failed] \/ r = [builder |-> checked, result |-> d]
  BY DEF BuildContainerLoop
<1> HIDE DEF checked
<1>3. CASE r.result = d /\ d # Failed
  <2>1. timed # Failed /\ "input" \in DOMAIN d /\ d.input = timed
    <3> HIDE DEF timed
    <3> QED BY <1>3, DefinitionFacts
  <2>2. input # Failed /\ timed = [input EXCEPT !.options = o]
    BY <2>1
  <2>3. checked.errors = <<>>
    BY <2>2 DEF BuildLoop, BuildParameterizedLoop
  <2>4. ~ resolved.error /\ checked = b
    BY <1>1, <2>3
  <2>5. /\ timed.type \in {"loop", "parameterizedLoop"} /\ timed.template = b.template
        /\ AcceptedByWorkflow(timed, "container") /\ timed.options = o
    <3> HIDE DEF o
    <3>1. CASE b.mode = "loop"
      <4>1. input = LoopInput(b) /\ ValidLoop(LoopInput(b), "container")
        BY <2>2, <2>4, <3>1 DEF BuildLoop, ValidContainerLoop
      <4>2. [LoopInput(b) EXCEPT !.options = o].options = o
        BY DEF LoopInput
      <4>3. timed = [LoopInput(b) EXCEPT !.options = o]
        BY <2>2, <4>1
      <4> HIDE DEF timed, input
      <4>4. timed.type \in {"loop", "parameterizedLoop"} /\ timed.template = b.template
            /\ AcceptedByWorkflow(timed, "container")
        BY <4>1, <4>3, LoopTimed
      <4> QED BY <4>2, <4>3, <4>4
    <3>2. CASE b.mode # "loop"
      <4>1. input = ParameterizedLoopInput(b) /\ ValidParameterizedLoop(ParameterizedLoopInput(b), "container")
        BY <2>2, <2>4, <3>2 DEF BuildParameterizedLoop, ValidContainerParameterizedLoop
      <4>2. [ParameterizedLoopInput(b) EXCEPT !.options = o].options = o
        BY DEF ParameterizedLoopInput
      <4>3. timed = [ParameterizedLoopInput(b) EXCEPT !.options = o]
        BY <2>2, <4>1
      <4> HIDE DEF timed, input
      <4>4. timed.type \in {"loop", "parameterizedLoop"} /\ timed.template = b.template
            /\ AcceptedByWorkflow(timed, "container")
        BY <4>1, <4>3, ParameterizedLoopTimed
      <4> QED BY <4>2, <4>3, <4>4
    <3> QED BY <3>1, <3>2
  <2> HIDE DEF timed, o, d
  <2>6. b.options \in OptionsType /\ b.template.timeout \in Nat
    BY DEF BuilderTyped, ContainerType
  <2>7. Containers(timed) = {b.template}
    BY <2>5 DEF Containers
  <2>8. Outlives(timed)
    <3> DEFINE l == b.template.timeout
    <3> HIDE DEF l
    <3>1. \A t \in Nat : t > 0 /\ t <= l =>
            ResolveActivityOptions(resolveExecutionOptions(b.options, l).options).startToClose > t
      BY <2>4, <2>6, ResolvedFacts DEF l
    <3>2. l \in Nat /\ l <= l
      BY <2>6 DEF l
    <3>3. l > 0 => ResolveActivityOptions(timed.options).startToClose > l
      BY <2>5, <3>1, <3>2 DEF l, o
    <3> QED BY <2>7, <3>3 DEF Outlives, l
  <2>9. Accepted(timed) /\ ~ Shares(timed)
    BY <2>5 DEF Accepted, Shares
  <2>10. BuilderTyped("loop", r.builder)
    BY <1>1, <1>2
  <2> QED BY <1>3, <2>1, <2>8, <2>9, <2>10 DEF IsGood
<1>4. CASE r.result = Failed
  BY <1>1, <1>2, <1>4
<1> HIDE DEF d
<1> QED BY <1>2, <1>3, <1>4

(* The lists and loops of functions are validated by their Build.          *)
LEMMA GenericBuilt ==
  ASSUME NEW b, NEW o, NEW t, NEW x, x # Failed,
         x \in {GenericBuildPipeline(b, t), GenericBuildParallel(b, t), GenericBuildSingle(b, t)},
         NEW i, i = x \/ (x.type # "single" /\ i = [x EXCEPT !.options = o])
  PROVE  AcceptedByWorkflow(i, t) /\ i.type \in {"pipeline", "parallel", "single"}
<1>1. CASE x = GenericBuildPipeline(b, t)
  <2>1. x = PipelineInput(b) /\ ValidPipeline(PipelineInput(b), t)
    BY <1>1 DEF GenericBuildPipeline
  <2>2. i.type = "pipeline" /\ (ValidPipeline(i, t) <=> ValidPipeline(PipelineInput(b), t))
    BY <2>1, PipelineFacts
  <2> QED BY <2>1, <2>2 DEF AcceptedByWorkflow
<1>2. CASE x = GenericBuildParallel(b, t)
  <2>1. x = ParallelInput(b) /\ ValidParallel(ParallelInput(b), t)
    BY <1>2 DEF GenericBuildParallel
  <2>2. i.type = "parallel" /\ (ValidParallel(i, t) <=> ValidParallel(ParallelInput(b), t))
    BY <2>1, ParallelFacts
  <2> QED BY <2>1, <2>2 DEF AcceptedByWorkflow
<1>3. CASE x = GenericBuildSingle(b, t)
  <2>1. x = SingleInput(b) /\ ValidTask(t, b.tasks[1])
    BY <1>3 DEF GenericBuildSingle
  <2>2. x.type = "single" /\ AcceptedByWorkflow(x, t)
    BY <2>1, SingleFacts
  <2> QED BY <2>2
<1> QED BY <1>1, <1>2, <1>3

LEMMA FunctionLoopBuilt ==
  ASSUME NEW b, NEW o, NEW x, x # Failed,
         x \in {BuildFunctionLoop(b), BuildFunctionParameterizedLoop(b)},
         NEW i, i = x \/ i = [x EXCEPT !.options = o]
  PROVE  AcceptedByWorkflow(i, "function")
<1>1. CASE x = BuildFunctionLoop(b)
  BY <1>1, LoopFacts DEF BuildFunctionLoop
<1>2. CASE x = BuildFunctionParameterizedLoop(b)
  BY <1>2, ParameterizedLoopFacts DEF BuildFunctionParameterizedLoop
<1> QED BY <1>1, <1>2

LEMMA FunctionsBuilt ==
  ASSUME NEW b, b.mode \in {"unset", "pipeline", "parallel", "single"},
         NEW d, d = BuildFunctions(b), d # Failed
  PROVE  "input" \in DOMAIN d /\ AcceptedByWorkflow(d.input, "function")
<1> DEFINE Optioned(i) == IF i = Failed THEN i ELSE [i EXCEPT !.options = b.options]
           P == Definition("function", "FunctionPipelineWorkflow", b, Optioned(FunctionPipeline(b)))
           Q == Definition("function", "ParallelFunctionsWorkflow", b, Optioned(FunctionParallel(b)))
           S == Definition("function", "ExecuteFunctionWorkflow", b, FunctionSingle(b))
<1>1. d = P \/ d = Q \/ d = S
  <2>1. b.mode # "unset"
    BY DEF BuildFunctions
  <2>2. CASE b.mode = "pipeline"
    BY <2>2 DEF BuildFunctions
  <2>3. CASE b.mode = "parallel"
    BY <2>3 DEF BuildFunctions
  <2>4. CASE b.mode = "single"
    BY <2>4 DEF BuildFunctions
  <2> QED BY <2>1, <2>2, <2>3, <2>4
<1>2. CASE d = P
  <2> DEFINE x == FunctionPipeline(b)
             i == Optioned(x)
  <2>1. i # Failed /\ "input" \in DOMAIN P /\ P.input = i
    <3>1. P = Definition("function", "FunctionPipelineWorkflow", b, i)
      OBVIOUS
    <3> HIDE DEF P, i
    <3> QED BY <1>2, <3>1, DefinitionFacts
  <2>2. x # Failed /\ i = [x EXCEPT !.options = b.options]
    BY <2>1
  <2>3. x.type # "single" /\ x = GenericBuildPipeline(b, "function")
    BY <2>2 DEF FunctionPipeline, GenericBuildPipeline, PipelineInput
  <2> HIDE DEF x, i, P
  <2>4. AcceptedByWorkflow(i, "function")
    BY <2>2, <2>3, GenericBuilt
  <2> QED BY <1>2, <2>1, <2>4
<1>3. CASE d = Q
  <2> DEFINE x == FunctionParallel(b)
             i == Optioned(x)
  <2>1. i # Failed /\ "input" \in DOMAIN Q /\ Q.input = i
    <3>1. Q = Definition("function", "ParallelFunctionsWorkflow", b, i)
      OBVIOUS
    <3> HIDE DEF Q, i
    <3> QED BY <1>3, <3>1, DefinitionFacts
  <2>2. x # Failed /\ i = [x EXCEPT !.options = b.options]
    BY <2>1
  <2>3. x.type # "single" /\ x = GenericBuildParallel(b, "function")
    BY <2>2 DEF FunctionParallel, GenericBuildParallel, ParallelInput
  <2> HIDE DEF x, i, Q
  <2>4. AcceptedByWorkflow(i, "function")
    BY <2>2, <2>3, GenericBuilt
  <2> QED BY <1>3, <2>1, <2>4
<1>4. CASE d = S
  <2> DEFINE x == FunctionSingle(b)
  <2>1. x # Failed /\ "input" \in DOMAIN S /\ S.input = x
    <3>1. S = Definition("function", "ExecuteFunctionWorkflow", b, x)
      OBVIOUS
    <3> HIDE DEF S, x
    <3> QED BY <1>4, <3>1, DefinitionFacts
  <2>2. x = GenericBuildSingle(b, "function")
    BY DEF FunctionSingle
  <2> HIDE DEF x, S
  <2>3. AcceptedByWorkflow(x, "function")
    BY <2>1, <2>2, GenericBuilt
  <2> QED BY <1>4, <2>1, <2>3
<1> HIDE DEF P, Q, S
<1> QED BY <1>1, <1>2, <1>3, <1>4

LEMMA FunctionLoopJobBuilt ==
  ASSUME NEW b, NEW r, r = BuildFunctionLoopJob(b)
  PROVE  /\ r.builder = b
         /\ r.result # Failed =>
              "input" \in DOMAIN r.result /\ AcceptedByWorkflow(r.result.input, "function")
<1> DEFINE x == IF b.mode = "loop" THEN BuildFunctionLoop(b) ELSE BuildFunctionParameterizedLoop(b)
           i == IF x = Failed THEN x ELSE [x EXCEPT !.options = b.options]
           d == Definition("function", LoopType(b), b, i)
<1>1. r = [builder |-> b, result |-> Failed] \/ r = [builder |-> b, result |-> d]
  BY DEF BuildFunctionLoopJob
<1>2. ASSUME d # Failed PROVE "input" \in DOMAIN d /\ AcceptedByWorkflow(d.input, "function")
  <2>1. i # Failed /\ "input" \in DOMAIN d /\ d.input = i
    <3> HIDE DEF i
    <3> QED BY <1>2, DefinitionFacts
  <2>2. x # Failed /\ i = [x EXCEPT !.options = b.options]
    BY <2>1
  <2>3. x \in {BuildFunctionLoop(b), BuildFunctionParameterizedLoop(b)}
    OBVIOUS
  <2> HIDE DEF x, i, d
  <2>4. AcceptedByWorkflow(i, "function")
    BY <2>2, <2>3, FunctionLoopBuilt
  <2> QED BY <2>1, <2>4
<1> HIDE DEF d
<1> QED BY <1>1, <1>2

LEMMA DAGBuilt ==
  ASSUME NEW b, NEW i, i = BuildDAG(b), i # Failed
  PROVE  /\ i.type = "dag" /\ i.tasks = b.tasks /\ {"type", "tasks"} \subseteq DOMAIN i
         /\ ValidDAG(i.tasks)
BY DEF BuildDAG

(* The validation of a DAG looks at the names and dependencies only.       *)
LEMMA SameDAG ==
  ASSUME NEW s, IsList(s), NEW t, IsList(t), Len(s) = Len(t), ValidDAG(s),
         \A k \in 1 .. Len(s) : t[k].name = s[k].name /\ t[k].deps = s[k].deps
  PROVE  ValidDAG(t)
<1>1. DOMAIN s = 1 .. Len(s) /\ DOMAIN t = 1 .. Len(s) /\ Len(s) \in Nat /\ (s = <<>> <=> Len(s) = 0)
      /\ (t = <<>> <=> Len(t) = 0)
  BY ListFacts
<1>2. NodeNames(s) = NodeNames(t)
  BY <1>1 DEF NodeNames
<1> DEFINE N == NodeNames(s)
           At(l, n) == l[CHOOSE k \in DOMAIN l : l[k].name = n].deps
           Depends(l) == [n \in N |-> At(l, n)]
<1>a. ASSUME NEW n \in N PROVE At(s, n) = At(t, n)
  <2> DEFINE x == CHOOSE k \in DOMAIN s : s[k].name = n
             y == CHOOSE k \in DOMAIN t : t[k].name = n
  <2>1. x = y
    <3>1. \A k : (k \in DOMAIN s /\ s[k].name = n) <=> (k \in DOMAIN t /\ t[k].name = n)
      BY <1>1
    <3> QED BY <3>1
  <2>2. x \in DOMAIN s
    BY DEF NodeNames
  <2> HIDE DEF x, y
  <2>3. s[x].deps = t[y].deps
    BY <1>1, <2>1, <2>2
  <2>4. At(s, n) = s[x].deps /\ At(t, n) = t[y].deps
    BY DEF x, y
  <2> HIDE DEF At
  <2> QED BY <2>3, <2>4
<1>3. Depends(s) = Depends(t)
  <2> HIDE DEF At, N
  <2> QED BY <1>a
<1>4. ValidDAG(s) <=> /\ s # <<>>
                      /\ \A k \in DOMAIN s : ValidFunction(s[k].name)
                      /\ Cardinality(N) = Len(s)
                      /\ Depends(s) \in Graphs(N)
                      /\ Acyclic(N, Depends(s))
  BY DEF ValidDAG
<1>5. ValidDAG(t) <=> /\ t # <<>>
                      /\ \A k \in DOMAIN t : ValidFunction(t[k].name)
                      /\ Cardinality(N) = Len(t)
                      /\ Depends(t) \in Graphs(N)
                      /\ Acyclic(N, Depends(t))
  BY <1>2 DEF ValidDAG
<1> HIDE DEF N, Depends, At
<1> QED BY <1>1, <1>3, <1>4, <1>5

LEMMA BuildJobKeeps ==
  ASSUME BuilderInv, BuildJob
  PROVE  BuilderInv' /\ Kept
<1> DEFINE r == CASE kind = "workflow"     -> BuildContainers(builder)
                  [] kind = "loop"         -> BuildContainerLoop(builder)
                  [] kind = "functions"    -> [builder |-> builder, result |-> BuildFunctions(builder)]
                  [] kind = "functionLoop" -> BuildFunctionLoopJob(builder)
           d == r.result
           e == [via |-> "Build", result |-> d, attached |-> Shares(d.input), retimed |-> FALSE]
<1>1. /\ kind \in {"workflow", "loop", "functions", "functionLoop"}
      /\ builder' = r.builder
      /\ IF d = Failed THEN UNCHANGED built ELSE Returns("Build", d)
      /\ UNCHANGED <<kind, spare>>
  BY DEF BuildJob, Call
<1>2. BuilderTyped(kind, builder)
  BY DEF BuilderInv
<1>3. /\ BuilderTyped(kind, r.builder)
      /\ kind \in ListKinds => r.builder.tasks = builder.tasks
      /\ d # Failed => /\ "input" \in DOMAIN d
                       /\ Shares(d.input) => AttachedTo(kind, d.input, builder.tasks)
                       /\ IsGood(e)
  <2>1. CASE kind = "workflow"
    <3>1. r = BuildContainers(builder)
      BY <2>1
    <3> HIDE DEF r
    <3> QED BY <1>2, <2>1, <3>1, ContainersBuilt
  <2>2. CASE kind = "loop"
    <3>1. r = BuildContainerLoop(builder)
      BY <2>2
    <3> HIDE DEF r
    <3> QED BY <1>2, <2>2, <3>1, ContainerLoopBuilt DEF ListKinds
  <2>3. CASE kind = "functions"
    <3>1. r = [builder |-> builder, result |-> BuildFunctions(builder)]
      BY <2>3
    <3> HIDE DEF r
    <3>2. d # Failed => "input" \in DOMAIN d /\ AcceptedByWorkflow(d.input, "function")
      BY <1>2, <2>3, <3>1, FunctionsBuilt DEF BuilderTyped
    <3>3. ~ Shares(d.input) /\ (AcceptedByWorkflow(d.input, "function") => Accepted(d.input))
      BY <2>3 DEF Shares, Accepted
    <3>4. d # Failed => IsGood(e)
      BY <2>3, <3>2, <3>3 DEF IsGood
    <3> QED BY <1>2, <3>1, <3>2, <3>3, <3>4
  <2>4. CASE kind = "functionLoop"
    <3>1. r = BuildFunctionLoopJob(builder)
      BY <2>4
    <3> HIDE DEF r
    <3>2. r.builder = builder
          /\ (d # Failed => "input" \in DOMAIN d /\ AcceptedByWorkflow(d.input, "function"))
      BY <3>1, FunctionLoopJobBuilt
    <3>3. ~ Shares(d.input) /\ (AcceptedByWorkflow(d.input, "function") => Accepted(d.input))
      BY <2>4 DEF Shares, Accepted
    <3>4. d # Failed => IsGood(e)
      BY <2>4, <3>2, <3>3 DEF IsGood
    <3> QED BY <1>2, <3>2, <3>3, <3>4
  <2> QED BY <1>1, <2>1, <2>2, <2>3, <2>4
<1> HIDE DEF r
<1>4. CASE d = Failed
  BY <1>1, <1>3, <1>4, EntriesRest
<1>5. CASE d # Failed
  <2>1. Returns("Build", d)
    BY <1>1, <1>5
  <2>2. BuilderTyped(kind, builder') /\ (kind \in ListKinds => builder'.tasks = builder.tasks)
    BY <1>1, <1>3
  <2> HIDE DEF d
  <2> QED BY <1>1, <1>3, <1>5, <2>1, <2>2, ReturnsKeeps
<1> QED BY <1>4, <1>5

(* An input that is built without a definition. *)
LEMMA RawBuilt ==
  ASSUME BuilderTyped(kind, builder), NEW r \in RawInputs, r.input # Failed
  PROVE  /\ r.via \in {"payload", "generic"}
         /\ Shares(r.input) => AttachedTo(kind, r.input, builder.tasks)
         /\ (~ (kind = "workflow" /\ r.input.type # "single" /\ r.via # "generic")) => Accepted(r.input)
<1> DEFINE i == r.input
<1>1. kind \in {"workflow", "functions", "generic", "dag", "loop", "functionLoop"}
  BY DEF BuilderTyped
<1>2. kind \in ListKinds => IsList(builder.tasks) /\ Len(builder.tasks) <= Len(builder.tasks)
  BY ListFacts DEF BuilderTyped
<1>3. CASE kind = "workflow"
  <2> DEFINE P == [via |-> "payload", input |-> BuildPipeline(builder)]
             Q == [via |-> "payload", input |-> BuildParallel(builder)]
             S == [via |-> "payload", input |-> BuildSingle(builder)]
             GP == [via |-> "generic", input |-> BuildGenericPipeline(builder)]
             GQ == [via |-> "generic", input |-> BuildGenericParallel(builder)]
  <2>1. r \in {P, Q, S, GP, GQ}
    BY <1>3 DEF RawInputs
  <2>2. kind \in ListKinds
    BY <1>3 DEF ListKinds
  <2>3. CASE r = P \/ r = GP
    <3>1. i = PipelineInput(builder)
      BY <2>3 DEF BuildPipeline, BuildGenericPipeline, GenericBuildPipeline
    <3>2. AttachedTo(kind, i, builder.tasks) /\ i.type = "pipeline"
      <4> HIDE DEF i
      <4>1. i.type = "pipeline" /\ i.tasks = builder.tasks /\ {"type", "tasks", "options"} \subseteq DOMAIN i
        BY <3>1, PipelineFacts
      <4> QED BY <1>2, <1>3, <2>2, <4>1 DEF AttachedTo
    <3>3. r.via = "generic" => ValidPipeline(i, "container")
      BY <2>3, <3>1 DEF BuildGenericPipeline, GenericBuildPipeline
    <3>4. r.via \in {"payload", "generic"}
      BY <2>3
    <3> HIDE DEF i
    <3>5. r.via = "generic" => Accepted(i)
      BY <1>3, <3>2, <3>3 DEF Accepted, AcceptedByWorkflow
    <3> QED BY <1>3, <3>2, <3>4, <3>5 DEF i
  <2>4. CASE r = Q \/ r = GQ
    <3>1. i = ParallelInput(builder)
      BY <2>4 DEF BuildParallel, BuildGenericParallel, GenericBuildParallel
    <3>2. AttachedTo(kind, i, builder.tasks) /\ i.type = "parallel"
      <4> HIDE DEF i
      <4>1. i.type = "parallel" /\ i.tasks = builder.tasks /\ {"type", "tasks", "options", "strategy"} \subseteq DOMAIN i
        BY <3>1, ParallelFacts
      <4> QED BY <1>2, <1>3, <2>2, <4>1 DEF AttachedTo
    <3>3. r.via = "generic" => ValidParallel(i, "container")
      BY <2>4, <3>1 DEF BuildGenericParallel, GenericBuildParallel
    <3>4. r.via \in {"payload", "generic"}
      BY <2>4
    <3> HIDE DEF i
    <3>5. r.via = "generic" => Accepted(i)
      BY <1>3, <3>2, <3>3 DEF Accepted, AcceptedByWorkflow
    <3> QED BY <1>3, <3>2, <3>4, <3>5 DEF i
  <2>5. CASE r = S
    <3>1. i = SingleInput(builder) /\ ValidTask("container", builder.tasks[1]) /\ r.via = "payload"
      BY <2>5 DEF BuildSingle, ValidTask
    <3> HIDE DEF i
    <3>2. i.type = "single" /\ AcceptedByWorkflow(i, "container")
      BY <3>1, SingleFacts
    <3>3. ~ Shares(i) /\ Accepted(i)
      BY <1>3, <3>2 DEF Shares, Accepted
    <3> QED BY <3>1, <3>3 DEF i
  <2> HIDE DEF P, Q, S, GP, GQ
  <2> QED BY <2>1, <2>3, <2>4, <2>5
<1>4. CASE kind = "generic"
  <2>1. r.via = "generic"
        /\ i \in {GenericBuildPipeline(builder, "function"), GenericBuildParallel(builder, "function"),
                  GenericBuildSingle(builder, "function")}
    BY <1>4 DEF RawInputs
  <2> HIDE DEF i
  <2>2. AcceptedByWorkflow(i, "function")
    BY <2>1, GenericBuilt DEF i
  <2> QED BY <1>4, <2>1, <2>2 DEF i, Shares, Accepted
<1>5. CASE kind = "loop"
  <2>1. r.via = "payload"
        /\ i \in {BuildLoop(builder), BuildParameterizedLoop(builder)}
    BY <1>5 DEF RawInputs
  <2>2. AcceptedByWorkflow(i, "container")
    <3>1. CASE i = BuildLoop(builder)
      <4>1. i = LoopInput(builder) /\ ValidLoop(LoopInput(builder), "container")
        BY <3>1 DEF BuildLoop, ValidContainerLoop
      <4> HIDE DEF i
      <4> QED BY <4>1, LoopFacts
    <3>2. CASE i = BuildParameterizedLoop(builder)
      <4>1. i = ParameterizedLoopInput(builder) /\ ValidParameterizedLoop(ParameterizedLoopInput(builder), "container")
        BY <3>2 DEF BuildParameterizedLoop, ValidContainerParameterizedLoop
      <4> HIDE DEF i
      <4> QED BY <4>1, ParameterizedLoopFacts
    <3> QED BY <2>1, <3>1, <3>2
  <2> QED BY <1>5, <2>1, <2>2 DEF Shares, Accepted
<1>6. CASE kind = "functionLoop"
  <2>1. r.via = "generic"
        /\ i \in {BuildFunctionLoop(builder), BuildFunctionParameterizedLoop(builder)}
    BY <1>6 DEF RawInputs
  <2> HIDE DEF i
  <2>2. AcceptedByWorkflow(i, "function")
    BY <2>1, FunctionLoopBuilt DEF i
  <2> QED BY <1>6, <2>1, <2>2 DEF i, Shares, Accepted
<1>7. CASE kind = "dag"
  <2>1. r.via = "payload" /\ i = BuildDAG(builder)
    BY <1>7 DEF RawInputs
  <2>2. i.type = "dag" /\ i.tasks = builder.tasks /\ {"type", "tasks"} \subseteq DOMAIN i /\ ValidDAG(i.tasks)
    <3> HIDE DEF i
    <3> QED BY <2>1, DAGBuilt DEF i
  <2>3. AttachedTo(kind, i, builder.tasks)
    BY <1>2, <1>7, <2>2 DEF AttachedTo, ListKinds
  <2> QED BY <1>7, <2>1, <2>2, <2>3 DEF Accepted
<1>8. CASE kind = "functions"
  BY <1>8 DEF RawInputs
<1> QED BY <1>1, <1>3, <1>4, <1>5, <1>6, <1>7, <1>8

LEMMA BuildRawKeeps ==
  ASSUME BuilderInv, BuildRaw
  PROVE  BuilderInv' /\ Kept
<1>1. PICK r \in RawInputs : r.input # Failed /\ Returns(r.via, [input |-> r.input])
  BY DEF BuildRaw
<1>2. UNCHANGED <<kind, builder, spare>>
  BY DEF BuildRaw, Call
<1>3. BuilderTyped(kind, builder)
  BY DEF BuilderInv
<1> DEFINE d == [input |-> r.input]
           e == [via |-> r.via, result |-> d, attached |-> Shares(d.input), retimed |-> FALSE]
<1>4. "input" \in DOMAIN d /\ d.input = r.input
  OBVIOUS
<1>5. /\ r.via \in {"payload", "generic"}
      /\ Shares(d.input) => AttachedTo(kind, d.input, builder.tasks)
      /\ (~ (kind = "workflow" /\ d.input.type # "single" /\ r.via # "generic")) => Accepted(d.input)
  BY <1>1, <1>3, <1>4, RawBuilt
<1> HIDE DEF d
<1>6. IsGood(e)
  BY <1>5 DEF IsGood
<1>7. Returns(r.via, d)
  BY <1>1 DEF d
<1> QED BY <1>2, <1>3, <1>4, <1>5, <1>6, <1>7, ReturnsKeeps

(* The step, call by call.                                                 *)
LEMMA BuilderKeeps ==
  ASSUME BuilderInv, BuilderNext
  PROVE  BuilderInv' /\ Kept
<1>1. CASE Configure BY <1>1, ConfigureKeeps
<1>2. CASE AddTask BY <1>2, AddTaskKeeps
<1>3. CASE AddHandler BY <1>3, AddHandlerKeeps
<1>4. CASE SetTemplate BY <1>4, SetTemplateKeeps
<1>5. CASE Retime \/ Autoremove BY <1>5, RetimeKeeps
<1>6. CASE MapData BY <1>6, MapDataKeeps
<1>7. CASE BuildJob BY <1>7, BuildJobKeeps
<1>8. CASE BuildRaw BY <1>8, BuildRawKeeps
<1> QED BY <1>1, <1>2, <1>3, <1>4, <1>5, <1>6, <1>7, <1>8 DEF BuilderNext

LEMMA BuilderUnchanged ==
  ASSUME BuilderInv, UNCHANGED builderVars
  PROVE  BuilderInv'
<1>1. kind' = kind /\ builder' = builder /\ spare' = spare /\ built' = built
  BY DEF builderVars
<1> QED BY <1>1 DEF BuilderInv, BuilderTyped, IsEntry, IsAttached, AttachedTo, IsList

LEMMA BuilderAlways == BuilderSpec => []BuilderInv
<1>1. BuilderInv /\ [BuilderNext]_builderVars => BuilderInv'
  BY BuilderKeeps, BuilderUnchanged
<1> QED BY <1>1, BuilderStart, PTL DEF BuilderSpec

(* What DefinitionFrozen says of a step. *)
Frozen ==
  \A k \in DOMAIN built :
    LET before == built[k]
        after  == built'[k]
    IN  /\ Outline(after.result.input) = Outline(before.result.input)
        /\ ~ before.attached => after.result = before.result

(* What a Build returned is not changed by later calls of the builder that *)
(* shares its array: its list keeps its length and its tasks, a DAG its    *)
(* names and dependencies; once the builder has moved to another array,    *)
(* nothing of it changes.                                                  *)
THEOREM BuiltIsFrozen == BuilderSpec => DefinitionFrozen
<1>1. BuilderInv /\ [BuilderNext]_builderVars => [Frozen]_builderVars
  <2> SUFFICES ASSUME BuilderInv, BuilderNext PROVE Frozen
    OBVIOUS
  <2>1. DOMAIN built = 1 .. Len(built)
    BY ListFacts DEF BuilderInv
  <2> QED BY <2>1, BuilderKeeps DEF Kept, Follows, Frozen
<1>2. DefinitionFrozen <=> [][Frozen]_builderVars
  BY PTL DEF DefinitionFrozen, Frozen
<1> QED BY <1>1, <1>2, BuilderAlways, PTL DEF BuilderSpec

(* An entry that was good stays so. *)
LEMMA FollowsGood ==
  ASSUME BuilderInv, NEW e, IsEntry(e), IsGood(e), NEW d, Follows(d, e)
  PROVE  IsGood(d)
<1> DEFINE i == e.result.input
           j == d.result.input
<1>0. d.via = e.via /\ (e.retimed => d.retimed)
  BY DEF Follows
<1>1. CASE ~ e.attached
  BY <1>0, <1>1 DEF IsGood, Follows
<1>2. CASE e.attached
  <2>1. AttachedTo(kind, i, builder.tasks)
    BY <1>2 DEF IsEntry, IsAttached
  <2>2. /\ j.type = i.type
        /\ kind = "workflow" => j.options = i.options
        /\ i.type = "parallel" => j.strategy = i.strategy
        /\ IsList(j.tasks) /\ Len(j.tasks) = Len(i.tasks)
        /\ \A n \in 1 .. Len(i.tasks) :
             /\ Alike(j.tasks[n], i.tasks[n])
             /\ kind = "workflow" /\ ~ d.retimed => j.tasks[n].timeout = i.tasks[n].timeout
    BY <1>2 DEF Follows
  <2>3. BuilderTyped(kind, builder)
    BY DEF BuilderInv
  <2> HIDE DEF i, j
  <2>4. /\ IsList(i.tasks) /\ Len(i.tasks) <= Len(builder.tasks)
        /\ \A n \in 1 .. Len(i.tasks) : i.tasks[n] = builder.tasks[n]
        /\ kind \in {"workflow", "dag"}
        /\ kind = "workflow" => i.type \in {"pipeline", "parallel"}
    BY <2>1 DEF AttachedTo
  <2>5. DOMAIN i.tasks = 1 .. Len(i.tasks) /\ DOMAIN j.tasks = 1 .. Len(i.tasks)
        /\ Len(i.tasks) \in Nat /\ (i.tasks = <<>> <=> j.tasks = <<>>)
    BY <2>2, <2>4, ListFacts
  <2>6. IsList(builder.tasks) /\ Len(builder.tasks) \in Nat
    BY <2>3, <2>4, ListFacts DEF BuilderTyped, ListKinds
  <2>7. CASE kind = "workflow"
    <3>1. \A n \in 1 .. Len(i.tasks) : i.tasks[n] \in ContainerType
      BY <2>3, <2>4, <2>5, <2>6, <2>7 DEF BuilderTyped
    <3>2. ASSUME NEW n \in 1 .. Len(i.tasks)
          PROVE  /\ j.tasks[n].image = i.tasks[n].image /\ j.tasks[n].wait = i.tasks[n].wait
                 /\ j.tasks[n].volumes = i.tasks[n].volumes
      <4> DEFINE c == j.tasks[n]
                 f == i.tasks[n]
      <4>1. f \in ContainerType
        BY <3>1
      <4>2. [c EXCEPT !.timeout = 0, !.autoRemove = FALSE] = [f EXCEPT !.timeout = 0, !.autoRemove = FALSE]
        BY <2>2, <2>7 DEF Alike
      <4> HIDE DEF c, f
      <4>3. {"image", "wait", "volumes"} \subseteq DOMAIN f
        BY <4>1 DEF ContainerType
      <4>4. DOMAIN c = DOMAIN f
        BY <4>2
      <4>5. c.image = f.image
        BY <4>2, <4>3, <4>4
      <4>6. c.wait = f.wait
        BY <4>2, <4>3, <4>4
      <4>7. c.volumes = f.volumes
        BY <4>2, <4>3, <4>4
      <4> QED BY <4>5, <4>6, <4>7 DEF c, f
    <3>3. \A n \in 1 .. Len(i.tasks) : ValidContainer(i.tasks[n]) <=> ValidContainer(j.tasks[n])
      BY <3>2 DEF ValidContainer
    <3>4. AcceptedByWorkflow(i, "container") => AcceptedByWorkflow(j, "container")
      <4>1. CASE i.type = "pipeline"
        BY <2>2, <2>5, <3>3, <4>1 DEF AcceptedByWorkflow, ValidPipeline, ValidTask
      <4>2. CASE i.type = "parallel"
        BY <2>2, <2>5, <3>3, <4>2 DEF AcceptedByWorkflow, ValidParallel, ValidTask
      <4> QED BY <2>4, <2>7, <4>1, <4>2
    <3>5. Accepted(i) => Accepted(j)
      BY <2>7, <3>4 DEF Accepted
    <3>6. Containers(i) = {i.tasks[n] : n \in 1 .. Len(i.tasks)}
          /\ Containers(j) = {j.tasks[n] : n \in 1 .. Len(i.tasks)}
      BY <2>2, <2>4, <2>5, <2>7 DEF Containers
    <3>7. ~ d.retimed /\ Outlives(i) => Outlives(j)
      BY <2>2, <2>7, <3>6 DEF Outlives
    <3> QED BY <1>0, <2>2, <3>5, <3>7 DEF IsGood, i, j
  <2>8. CASE kind = "dag"
    <3>1. ASSUME NEW n \in 1 .. Len(i.tasks)
          PROVE  j.tasks[n].name = i.tasks[n].name /\ j.tasks[n].deps = i.tasks[n].deps
      <4> DEFINE c == j.tasks[n]
                 f == i.tasks[n]
      <4>1. {"name", "deps"} \subseteq DOMAIN f
        BY <2>3, <2>4, <2>5, <2>6, <2>8 DEF BuilderTyped
      <4>2. [c EXCEPT !.outputs = {}, !.inputs = {}, !.data = ""]
              = [f EXCEPT !.outputs = {}, !.inputs = {}, !.data = ""]
        BY <2>2, <2>8 DEF Alike
      <4> HIDE DEF c, f
      <4>3. DOMAIN c = DOMAIN f
        BY <4>2
      <4>4. c.name = f.name
        BY <4>1, <4>2, <4>3
      <4>5. c.deps = f.deps
        BY <4>1, <4>2, <4>3
      <4> QED BY <4>4, <4>5 DEF c, f
    <3>2. ValidDAG(i.tasks) => ValidDAG(j.tasks)
      BY <2>2, <2>4, <3>1, SameDAG
    <3> QED BY <1>0, <2>8, <3>2 DEF IsGood, Accepted, i, j
  <2> QED BY <2>4, <2>7, <2>8
<1> QED BY <1>1, <1>2

Good == \A k \in 1 .. Len(built) : IsGood(built[k])

(* What is good when it is built stays good.                               *)
LEMMA GoodAlways == BuilderSpec => []Good
<1>1. BuilderInit => Good
  BY DEF BuilderInit, Good
<1>2. ASSUME BuilderInv, Good, BuilderNext PROVE Good'
  <2>1. Kept /\ Len(built) \in Nat
    BY <1>2, BuilderKeeps, ListFacts DEF BuilderInv
  <2>2. kind' = kind
    BY <1>2 DEF BuilderNext, Configure, AddTask, AddHandler, SetTemplate, Retime, Autoremove, MapData, InPlace, BuildJob, BuildRaw, Call
  <2>3. \A k \in 1 .. Len(built) : IsGood(built'[k])
    <3> SUFFICES ASSUME NEW k \in 1 .. Len(built) PROVE IsGood(built'[k])
      OBVIOUS
    <3>1. IsEntry(built[k]) /\ IsGood(built[k]) /\ Follows(built'[k], built[k])
      BY <1>2, <2>1 DEF BuilderInv, Good, Kept
    <3> QED BY <1>2, <3>1, FollowsGood
  <2>4. \A k \in 1 .. Len(built') : IsGood(built'[k])
    BY <2>1, <2>3 DEF Kept
  <2>5. \A k \in 1 .. Len(built') : IsGood(built[k])'
    BY <2>2, <2>4 DEF IsGood, Accepted
  <2> QED BY <2>5 DEF Good
<1>3. ASSUME Good, UNCHANGED builderVars PROVE Good'
  BY <1>3 DEF Good, IsGood, Accepted, builderVars
<1>4. BuilderInv /\ Good /\ [BuilderNext]_builderVars => Good'
  BY <1>2, <1>3
<1> QED BY <1>1, <1>4, BuilderAlways, PTL DEF BuilderSpec

(* In every definition the container package builds of more than a single  *)
(* container, however the builder was used before and after, an attempt    *)
(* may take longer than the RunTimeout of each container, unless           *)
(* WithTimeout was called while the definition shared the builder's array. *)
THEOREM AttemptOutlivesContainers == BuilderSpec => []OutlivesRunTimeout
<1>1. BuilderInv /\ Good => OutlivesRunTimeout
  <2> SUFFICES ASSUME BuilderInv, Good PROVE OutlivesRunTimeout
    OBVIOUS
  <2>1. DOMAIN built = 1 .. Len(built)
    BY ListFacts DEF BuilderInv
  <2> QED BY <2>1 DEF Good, IsGood, Outlives, OutlivesRunTimeout
<1> QED BY <1>1, BuilderAlways, GoodAlways, PTL

(* Whatever any sequence of calls built, the validation of the workflow    *)
(* that is started with it accepts, but for the container package's lists. *)
THEOREM WhatIsBuiltIsAccepted == BuilderSpec => []BuiltAccepted
<1>1. BuilderInv /\ Good => BuiltAccepted
  <2> SUFFICES ASSUME BuilderInv, Good PROVE BuiltAccepted
    OBVIOUS
  <2>1. DOMAIN built = 1 .. Len(built)
    BY ListFacts DEF BuilderInv
  <2> QED BY <2>1 DEF Good, IsGood, BuiltAccepted
<1> QED BY <1>1, BuilderAlways, GoodAlways, PTL
=============================================================================
