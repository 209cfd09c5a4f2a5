------------------------------- MODULE SyncJobs -------------------------------
(***************************************************************************)
(* The builders of src/datasync: SyncJobBuilder, ChunkedSync and           *)
(* DateChunkedSync, which wraps a ChunkedSync.  A builder of the last two  *)
(* keeps a pointer to its ScheduleSpec, and the definition it builds gets  *)
(* the same pointer: specs are a heap, and ScheduleRaw may put a caller's  *)
(* spec in more than one builder.  Cap is MaxPartitionsPerExecution.       *)
(***************************************************************************)
EXTENDS Naturals, Sequences

CONSTANTS
  SyncBuilders,   \* the builders of a program
  BuilderType,    \* [SyncBuilders -> "job", "chunked" or "date"]
  MaxSyncCalls    \* bound: calls of the builders

ASSUME BuildersAssumption == BuilderType \in [SyncBuilders -> {"job", "chunked", "date"}]

VARIABLES
  syncBuilder,
  specs,       \* the schedules: what they fire on, whether the caller asked
               \* for a paused one, and Paused
  jobs,        \* the definitions that were built
  panicked,
  syncCalls

syncVars == <<syncBuilder, specs, jobs, panicked, syncCalls>>

NoSpec == 0

RawSpec == 1    \* the spec the caller made for ScheduleRaw

Positive == 1   \* the interval of a SyncJobBuilder

Parts(type) ==
  IF type = "job" THEN {"source", "mapper", "sink"}
                  ELSE {"partitioner", "fetcher", "mapper", "sink"}

Settable(type) ==
  CASE type = "job"     -> Parts("job")
    [] type = "chunked" -> Parts("chunked") \cup {"tracker"}
    [] type = "date"    -> (Parts("date") \ {"partitioner"}) \cup {"tracker"}

(* ScheduleEvery, ScheduleCron and Build make a spec that is not paused.   *)
NewSpec(fires) == [fires |-> fires, asked |-> FALSE, paused |-> FALSE]

(* The caller's own may be paused from the start.                          *)
CallersSpecs == {[fires |-> "raw", asked |-> asked, paused |-> asked] : asked \in BOOLEAN}

NewBuilder == [given |-> {}, schedule |-> NoSpec, disabled |-> FALSE, cap |-> 0]

Provided(type) == [NewBuilder EXCEPT !.given = Settable(type)]

(* A builder as its constructor returns it, or with all parts set.         *)
SyncInit ==
  /\ syncBuilder \in {[b \in SyncBuilders |-> NewBuilder],
                      [b \in SyncBuilders |-> Provided(BuilderType[b])]}
  /\ \E raw \in CallersSpecs : specs = <<raw>>
  /\ jobs = <<>>
  /\ panicked = FALSE
  /\ syncCalls = 0

SyncCall ==
  /\ ~ panicked
  /\ syncCalls < MaxSyncCalls
  /\ syncCalls' = syncCalls + 1

(* A setter's nil clears the field; a DateChunkedSync wraps the fetcher    *)
(* and the tracker it gets, so that its nil passes for a fetcher.          *)
Wraps(type, part) == type = "date" /\ part \in {"fetcher", "tracker"}

SetPart(b, part, isNil) ==
  /\ SyncCall
  /\ part \in Settable(BuilderType[b])
  /\ syncBuilder' = [syncBuilder EXCEPT
       ![b].given = IF isNil /\ ~ Wraps(BuilderType[b], part) THEN @ \ {part} ELSE @ \cup {part}]
  /\ UNCHANGED <<specs, jobs, panicked>>

(* A SyncJobBuilder only keeps the interval, which must be positive.       *)
WithSchedule(b, positive) ==
  /\ SyncCall
  /\ BuilderType[b] = "job"
  /\ syncBuilder' = [syncBuilder EXCEPT ![b].schedule = IF positive THEN Positive ELSE NoSpec]
  /\ UNCHANGED <<specs, jobs, panicked>>

(* ScheduleEvery and ScheduleCron.                                         *)
Schedule(b, fires) ==
  /\ SyncCall
  /\ BuilderType[b] # "job"
  /\ specs' = Append(specs, NewSpec(fires))
  /\ syncBuilder' = [syncBuilder EXCEPT ![b].schedule = Len(specs) + 1]
  /\ UNCHANGED <<jobs, panicked>>

(* The caller's spec, or nil.                                              *)
ScheduleRaw(b, spec) ==
  /\ SyncCall
  /\ BuilderType[b] # "job"
  /\ syncBuilder' = [syncBuilder EXCEPT ![b].schedule = spec]
  /\ UNCHANGED <<specs, jobs, panicked>>

Disabled(b, disabled) ==
  /\ SyncCall
  /\ BuilderType[b] # "job"
  /\ syncBuilder' = [syncBuilder EXCEPT ![b].disabled = disabled]
  /\ UNCHANGED <<specs, jobs, panicked>>

MaxPartitionsPerExecution(b, n) ==
  /\ SyncCall
  /\ BuilderType[b] # "job"
  /\ syncBuilder' = [syncBuilder EXCEPT ![b].cap = n]
  /\ UNCHANGED <<specs, jobs, panicked>>

-----------------------------------------------------------------------------
(* DateChunkedSync.Build sets the partitioner. *)
Given(b) ==
  syncBuilder[b].given \cup (IF BuilderType[b] = "date" THEN {"partitioner"} ELSE {})

Complete(b) == Parts(BuilderType[b]) \subseteq Given(b)

buildValidate(b) == Complete(b) /\ (syncBuilder[b].cap > 0 => "tracker" \in Given(b))

Built(b, spec) ==
  jobs' = Append(jobs, [by |-> b, spec |-> spec, disabled |-> syncBuilder[b].disabled,
                        given |-> Given(b), cap |-> syncBuilder[b].cap])

PausedAsBuilt(b) ==
  LET s == syncBuilder[b].schedule
  IN  specs' = IF s = NoSpec THEN specs
                 ELSE [specs EXCEPT ![s].paused = syncBuilder[b].disabled]

Paused(b) ==
  LET s == syncBuilder[b].schedule
  IN  specs' = IF s # NoSpec /\ syncBuilder[b].disabled
                 THEN [specs EXCEPT ![s].paused = TRUE] ELSE specs

(* Build of a ChunkedSync panics when something is missing. *)
BuildChunked(b) ==
  /\ SyncCall
  /\ BuilderType[b] # "job"
  /\ IF buildValidate(b)
       THEN Paused(b) /\ Built(b, syncBuilder[b].schedule) /\ UNCHANGED panicked
       ELSE panicked' = TRUE /\ UNCHANGED <<specs, jobs>>
  /\ UNCHANGED syncBuilder

(* Build of a SyncJobBuilder: an error for what is missing, a spec of its  *)
(* own for the definition.                                                 *)
BuildSyncJob(b) ==
  /\ SyncCall
  /\ BuilderType[b] = "job"
  /\ IF Complete(b) /\ syncBuilder[b].schedule # NoSpec
       THEN /\ specs' = Append(specs, NewSpec("interval"))
            /\ Built(b, Len(specs) + 1)
       ELSE UNCHANGED <<specs, jobs>>
  /\ UNCHANGED <<syncBuilder, panicked>>

SyncNext ==
  \E b \in SyncBuilders :
    \/ \E part \in Settable(BuilderType[b]), isNil \in BOOLEAN : SetPart(b, part, isNil)
    \/ \E fires \in {"interval", "cron"} : Schedule(b, fires)
    \/ \E positive \in BOOLEAN : WithSchedule(b, positive)
    \/ \E spec \in {RawSpec, NoSpec} : ScheduleRaw(b, spec)
    \/ \E disabled \in BOOLEAN : Disabled(b, disabled)
    \/ \E n \in 0 .. 1 : MaxPartitionsPerExecution(b, n)
    \/ BuildChunked(b)
    \/ BuildSyncJob(b)

SyncSpec == SyncInit /\ [][SyncNext]_syncVars
-----------------------------------------------------------------------------
(* A schedule is paused exactly when the caller made it so, or a job that  *)
(* was disabled when it was built shares it: no later Disabled(false),     *)
(* Build or schedule setter, of this builder or another with the same      *)
(* spec, starts a disabled job, and none pauses a schedule that no         *)
(* disabled job has.                                                       *)
PausedIffDisabled ==
  \A s \in DOMAIN specs :
    specs[s].paused <=>
      specs[s].asked \/ \E k \in DOMAIN jobs : jobs[k].spec = s /\ jobs[k].disabled
=============================================================================
