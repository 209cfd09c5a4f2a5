# go-wf in TLA+

A verification development for go-wf (`src/`), a library of reusable Temporal
workflows: pipelines, parallel batches, loops and DAGs of containers or Go
functions, and data synchronisation jobs, with and without a resumable cursor.
The modules here are written from the Go code; comments give the file and the
line where a property comes from. `PROJECT.json` maps every definition to the
lines it stands for.

1. [The system](#1-the-system)
2. [Modules and code](#2-modules-and-code)
3. [Runs](#3-runs)
4. [Fairness](#4-fairness)
5. [Proofs](#5-proofs)
6. [Where code and text disagree](#6-where-code-and-text-disagree)
7. [What is not modelled](#7-what-is-not-modelled)
8. [Plan](#8-plan)

## 1. The system

Workflow functions are deterministic programs that Temporal replays from a
history. What they call are activities: each attempt runs on a worker, may
fail, may have its effect and still be reported as failed (a time-out, a lost
worker), and is retried up to `MaximumAttempts`. Everything hard in this
library comes from there and from overlapping executions of one job.

| Part (code) | State | Operations | Interacts with | What makes it correct |
|---|---|---|---|---|
| Chunked sync workflow, `datasync/chunk/sync.go`, `run_partition.go`, `tracked.go` | partition list of the run, index in it, `deferred` | list, read cursor, filter, truncate, run partition, advance, continue as new | partitioner, tracker, source and sink through activities | nothing behind the cursor is missing; nothing acknowledged is redone; a run that ends well is complete; chains end |
| Progress tracker, `chunk/tracker.go`, `pgtracker/` | one row per job: the cursor | `Cursor`, `Advance` (GREATEST upsert), `Reset` | every execution of the job | the cursor never goes back except by `Reset` |
| Date partitioner, `chunk/partitioner.go`, `date_sync.go` | none | list of `[start, end)` covering `[now-LookBack, now)` | chunked sync | the list tiles the window, in calendar days when asked |
| Rate limit, sleeper, heartbeat, `chunk/limiter.go`, `internal/heartbeat` | last error, timer | retry after a rate-limit error, heartbeats while sleeping | partition activity | never outlives the activity's time-outs |
| Single-activity sync, `datasync/workflow/sync.go`, `activity/` | counters | fetch, map, write in one activity | source, mapper, sink | a successful result accounts for every record |
| Insert-if-absent sink, `datasync/insert_sink.go` | the target store (external) | find, create, record by record | attempts of one or several runs | no record twice, counts right after retries |
| Datasync builders, runner, registration, helpers | parts given, a pointer to the schedule | setters, Build | Temporal client | a disabled job's schedule stays paused, one that no disabled job was given does not become so |
| Function DAG, `function/workflow/dag.go` | `results`, outputs, artifacts, totals | depth-first walk, input transfer, activity, capture | payload validation, registry, store | topological, once per node, failures contained, totals right |
| Container DAG, `container/workflow/dag.go` | the same | the same walk, its own FailFast return | the same | the same |
| DAG validation, `payload_extended.go` (two packages), `workflow/dag.go` | colour per node | name check, three-colour search | both DAG workflows | accepts exactly the acyclic graphs |
| Task orchestration, `workflow/{pipeline,parallel,loop,helpers}.go` | futures, results, totals | launch, collect, stop | activities | results by position, stops as configured, every combination once |
| Template and JSON-path helpers, `workflow/helpers.go` | none | substitution, extraction, combinations | loops, DAGs | pure functions |
| Artifact store, `workflow/store` | files, S3 objects, a pipe | upload, download, archive, extract | DAGs | a download sees a whole artifact |
| Container activity, `container/activity` | a container | start, wait, collect logs, terminate | Docker, Temporal context | no container outlives its attempt without a reason; only failures of the attempt are retried |
| Container operations, `container/operations.go` | workflow status, a channel | submit, wait, watch, cancel | Temporal client | a watch ends |
| Function registry and activity | handler map behind a lock | register, look up, call | DAG, batches | a handler's failure is a result, never retried |
| Builders, patterns, templates | a list and settings; arrays shared with what was built | setters, append, change in place, Build | payloads, workflows | what is built is accepted when it runs, does not change afterwards, and leaves the container its time; stages come in order |
| Workers, telemetry, secrets, errors | tables of workflows and activities; connections | registration, I/O, logging | all | a job is run by its own implementation |

What is hard about them, at its line, is the list `hazards` of `PROJECT.json`:
runs that overlap and write one cursor; an `Advance` that lands after its
attempt timed out; a write that stops half-way; a cursor compared with the
boundaries of another listing; failures reached through a second path of a
graph; results collected in another order than they arrive; a replay that
computes another plan than its history.

## 2. Modules and code

### Chunked sync

| Module | Stands for |
|---|---|
| `SyncLedger` | what a resumable sync promises, without runs or retries: the time, the keys in the sink and the cursor |
| `ChunkedSync` | the workflow, its activities, the tracker; the partitioner is the constant operator `Partitions(_)` as it is an interface in the code |
| `AlignedChunkedSync` | three conditions on the partitioner, and the inductive invariant that needs them |
| `MCChunkedSync` | a grid partitioner that meets them, for TLC |
| `DatePartitioner`, `DatePartitionLoop` | the partitioner of the library, in closed form and as its loop |
| `DatePartitionProofs` | theorems about that loop |
| `DateChunkedSync`, `MCDateChunkedSync` | the workflow composed with that partitioner |
| `ChunkedSyncProofs` | theorems: the invariants, the refinement and the actions |
| `FiniteInduction` | induction stated with sets, and what it shows of least elements, folds and sums; for all proofs but those of the artifacts |

`ListPartitions`, `ReadCursor`, `RunPartition` and `AdvanceCursor` are the four
activity calls of the workflow function, each with the code up to the next
call: `ReadCursor` filters (`sync.go:318`), truncates and starts the first
partition; `Proceed` is the end of the loop body with the decision to go on,
return or continue as new. `pc` says which activity an execution waits for.
`Start` is the schedule or a caller. `AttemptFails` is any attempt that is not
acknowledged, with what it may leave behind (`Leftovers`): any subset of the
records of the partition, or an `Advance` that is still on its way and becomes
an element of `late`, to be applied at any later time by `LateAdvance`.
`Cancel` is a cancellation or a termination while an activity is under way;
the pause between partitions is covered by it and by interleaving, since the
model lets any time pass before the next step. `Reset` is the operator's.

Time and keys share a scale: the record of key `k` exists from `k + 1` on, so
that a partition listed before its end is incomplete. All activities have the
same `MaxAttempts`. Late effects are modelled for `Advance`; a late sink write
only adds records and is subsumed by a part of the write done at the failure.
`acked` is a ghost: ends of acknowledged partitions since the last `Reset`.

### DAG

| Module | Stands for |
|---|---|
| `DagGraph` | graphs over a set of nodes, acyclicity by definition |
| `DagValidation` | `Validate` and `detectCycles` |
| `DagFailure` | outcomes of an activity, and those that stop a FailFast run in each package |
| `DagRun` | the walk: `executeNode`, its recursion as `stack` |
| `DagWorkflow` | validation, then the walk on the graph the search accepted |
| `DagWorkflowProofs` | theorems about both |

A frame of `stack` is a call of `executeNode`: its node, the dependencies left
and the one it is at. `VisitDependency` is one iteration of the loop over
`Dependencies`; the code iterates over a list and the model takes any next
element, which stands for every order of the list. `StartActivity`, `InputFails`
and `DownloadFails` are the substitution of inputs and the download of artifacts
before the activity, `ActivityEnds` all that follows it: extraction and upload,
totals, `NodeResults`, the FailFast return. What a node asks of another one is a
pair in `wants`: a required input with a `Default` or without, one from an output
the other node does not declare, data, or an artifact. `Deliver` is what a
success leaves for the others: a container's outputs are extracted all or none
(`ExtractOutputs` returns at the first error), a function's one by one, and each
upload may fail by itself; failures of that kind are only logged.
`stops` says which package runs: `FunctionStops` or `ContainerStops`.
Nodes are positions in `Nodes`; names are distinct, `0` is a dependency name
that no node has. What `Validate` does not read (inputs, FailFast, the package)
is chosen at `Begin`, so that rejected graphs are not multiplied by it.

### Batches and loops

`TaskBatch` is the pipeline, the parallel workflow and the loops over
independent tasks: launch all or launch next, activities that end in any order
(also after the workflow returned), results collected by position.
`LoopReplay` adds what a parameterized loop's tasks are: combinations computed
by ranging over a Go map, once per execution of the workflow function. `Replay`
is a worker restart or a cache eviction: the function runs again from its start
against the history, where Temporal compares position and activity name and
not the input, so the history keeps what was launched and the function goes on
with the new order. `ActivityProofs` has the theorems about both, and the one about
`GenerateParameterCombinations` itself.

### Insert-if-absent sink

`InsertSink` has a writer per attempt of each run. A time-out leaves the
attempt running while its retry starts. `find` and `create` are calls of their
own; the callbacks are the user's, and `unique` says whether `create` refuses an
ID that exists. Fetch and map failures have no effect on the sink and are
attempts that fail at the first record. Theorems are in `InsertSinkProofs`.

### Artifacts

`ArtifactTransfer` follows one artifact from `UploadFile` through a `LocalStore` to
`DownloadFile`, in chunks. `Launch`, `AttemptFailed`, `AttemptLost` and `GiveUp` are the
local activity around the upload: it is retried until its time is over, and an
attempt that timed out, or whose worker lost the workflow to another one, goes on.
An attempt is `starting` until its `OpenFile` truncates the file: one that was given up
before that may empty what its retry has stored and reported. `emptiedBy` is the last to
have done so. `UploadStep` is `LocalStore.Upload` (opening, the copy up to the limit, then
one more read), `ArchiverStep` and `ArchiveFails` the goroutine of
`uploadDirectoryArchive` at the other end of the pipe. `ProbeFails` is that one more read
when it fails: for a file its error is dropped (`readErr`) and the upload succeeds; for an
archive the error is the archiver's, which is looked at afterwards. The pipe has no
buffer, so `offset` is where both ends are. Writing beyond the end of a file that another
attempt truncated leaves a hole. The consumer's download may run beside all that.
Theorems are in `ArtifactProofs`.

### Builders, templates and patterns

| Module | Stands for |
|---|---|
| `TaskInputs` | the payloads of containers, functions, batches and loops, and their `Validate` |
| `BuilderInputs`, `LoopInputs`, `FunctionDAGInputs` | the builders of both packages as values: an operator per call, an operator per Build |
| `Templates` | the container, script and HTTP templates |
| `Patterns`, `FunctionPatterns` | the ready-made workflows, as the inputs they return |
| `JobBuilder` | one builder in use: any calls in any order, several Builds, and the arrays they share |
| `PatternRun` | a pattern's input run by `TaskBatch`; the arguments of the calls are names from `Lists` |
| `MCJobs` | these, `SyncJobs` and `JobWorker` side by side for TLC |

A builder is a record of its fields; `Set` stands for every setter that replaces
one. Options are their `StartToCloseTimeout`. In `JobBuilder` a built input is
`attached` as long as its slice lies in the builder's array: changes in place
(`WithTimeout`, `WithAutoRemove`, the mappings of a DAG) show in it, an append does
not, because a slice keeps its length, and an append beyond the capacity moves the
builder to another array. `spare`, the capacity left, is up to the Go runtime and
chosen by the model. A function's task is its name and a container's name its
identity; of names only the classes matter that validation tells apart
(`BadNames`).

### From a job to its activity

`SyncJobs` is `SyncJobBuilder`, `ChunkedSync` and `DateChunkedSync`. The last two hold a
pointer to their `ScheduleSpec`, `Build` writes `Paused` through it, and `ScheduleRaw`
lets a caller give one spec to two builders, or nil, or a spec that is paused from the
start (`asked`): `specs` is the heap.

`JobWorker` follows a job from `Register` to its activity: the tables of each
worker, in which the first entry of a name stays (`job.RegisterWorkflowOnce`,
external), the workflow task taken by any worker of the queue that knows the
type, and the attempts of the activity, each by any worker. A handler's error or
panic is a result with `Success` false; a missing handler is an error that is
retried. `JobProofs` has the theorems about these two modules and about `JobBuilder`
and `PatternRun`.

### Attempts

`ContainerJob` is one container from `SubmitWorkflow` to the clients' answers.
`CreateContainer`, `StartFails`, `Ready`, `WaitReturns`, `Cleanup` and `Report` are
`StartContainerActivity` with its deferred `Terminate`; `Exits`, `Expire`, `Crash` are
the container, the start-to-close time-out and a lost worker. The activity does
not heartbeat, so that a cancellation of the workflow does not reach its context.
The engine (external) refuses a name that a container has. `Answer` and
`WaitTimesOut` are the end of `SubmitAndWait`, `WatchTick`, `GetWorkflowStatus` and
`Send` the loop of `WatchWorkflow`.

`PartitionAttempt` is the other activity, in time: the fetch under
`WithRateLimitRetry` with its `HeartbeatSleeper`, the mapper and the sink, the
goroutine of `heartbeat.Loop`, and Temporal's two timers. `Tick` lets time pass
unless something is overdue; a worker's timers may be `Delay` late. An attempt that
was given up learns of it at its next heartbeat (`Recorded`) or when its own
deadline comes. `MCAttempts` puts the two side by side, and `ActivityProofs` proves their
properties.

## 3. Runs

| Run | Shows | Bounds |
|---|---|---|
| `ChunkedSync` | type, `CursorCovered`, `AckedProgress`, `ProcessedSkipped`, `CompletedRunSynced`, the refinement `LedgerSpec`, `ChainEnds` and `EventuallySynced` for an aligned partitioner | two executions that overlap, instants 0..4 of which a window of three is listed (so partitions slide out), a budget of one partition per execution (so filtering, truncation and continue-as-new all occur), two attempts and two faults: one fault for each of two runs, or a retry that fails too, or a fault and a `Reset` |
| `DateChunkedSync` | a violation of `CursorCovered`, see section 6 | one execution, no fault at all |
| `DatePartitionLoop` | `Tiles`, `ClosedForm`, `CalendarDays` | every instant up to 10, every length 0..5 of window and chunk, one day shorter than the others: lengths that divide the window and that do not, chunks longer than it |
| `DagWorkflow` | `VerdictCorrect`, `TopologicalOrder`, `FailureBlocks`, `FunctionFailFast`, `InputsProduced`, `Terminates` | every graph of three nodes, loops and dangling names included, in every order of dependencies and of nodes, with any single input declaration, or two that take outputs of one node, both packages, every outcome. Three nodes give diamonds without their apex, a shared dependency and a second path to a failed node |
| `ContainerFailFast` | a violation of `FailFastStops`, see section 6 | two nodes |
| `LoopReplay` | `ReturnJustified`, `StableLoopComplete`, `Returns` | four tasks, from one parameter with four values or two with two; two replays; both modes and strategies |
| `LoopReplaySequential` | a violation of `EachCombinationOnce`, see section 6 | one replay |
| `InsertSink` | `NoDuplicates`, `SuccessIsComplete`, `SomeRunSucceeds` | two runs of two attempts over three records, one error and one time-out: a failure in the middle of a batch, a retry beside the attempt that timed out, two runs in each other's way |
| `ArtifactTransfer` | `UploadedIsWhole`, `DeliveredWhole`, `PipeEnds` | sources of one to four chunks against a limit of three: a file and an archive below, at and above it; two attempts, which may overlap, and the first of which may open the file before, during or after the second one's work; three faults, enough for a lost attempt, a failing source and a crash |
| `ArtifactCutOff` | a violation of `TruncationFound`, see section 6 | one attempt, one fault |
| `Jobs` | `DefinitionFrozen`, `OutlivesRunTimeout`, `BuiltAccepted`, `StagesGated`, `PausedIffDisabled`, `OwnImplementationRuns`, `HandlerNotRetried` | four calls of any builder from a constructor or a configured one, enough for add, Build, change or append, Build; containers that run long, that no workflow accepts, or nil; explicit options below, at and above the run time-out. Every pattern with two or three elements. Five calls of three sync builders. Two workers of one queue, three jobs whose names clash, two registries, three attempts with one lost |
| `Attempts` | `NoLeak`, `RetriedForCause`, `ResultTruthful`, `ClientsAnswered`, `HeartbeatKeepsAlive`, `OnlyAwaitedCalls` | two attempts and one fault of the engine or the worker, so that a time-out and a fault, or two time-outs, follow each other; inputs with and without a name, `AutoRemove` and validity. For the partition: a floor of one, time-outs of the heartbeat at the floor and at three times it, sleeps that are longer than the heartbeat time-out and that outlive the start-to-close one, one lost worker, timers one late |

Deadlock is checked in the runs of the chunked sync: with `Start` an idle
execution can always begin again, so a state without a step would be an error.
The other models are of one workflow that returns, of a builder with a bounded
number of calls or of a job that ends, and stop there; where it matters a liveness
property shows that they stop at a return.

`TypeOK` of `ChunkedSync` is checked and proved; those of the other modules are no part
of a run, and proved in `DagWorkflowProofs`, `ActivityProofs`, `InsertSinkProofs`,
`ArtifactProofs` (for the others a part of the inductive invariant).

Properties in words stand above their definitions. The ones that carry most:

* `CursorCovered` - whatever the partitioner will still list behind the cursor
  is in the sink. Runs skip it, so a missing record there is lost for good.
* `CompletedRunSynced` - a run that ends without an error has everything it
  listed in the sink, what it ran and what it skipped.
* `LedgerSpec` - every step of the workflow is a step of `SyncLedger`: in
  particular the cursor moves only to where everything is delivered.
* `FailureBlocks` - under FailFast nothing runs downstream of a failed node,
  also where the failure itself did not stop the run.
* `InputsProduced` - a node is executed only after what it must have was produced
  by a node that succeeded, whether or not that node is a dependency.
* `DefinitionFrozen` - later calls of a builder do not reach into what it has
  built, although both use one array; the exceptions are named.
* `OutlivesRunTimeout` - no combination of given, half given and derived options
  leaves an attempt less time than its container may take.
* `BuiltAccepted` - the workflow's own validation accepts what was built, except the
  container lists, whose elements no `Build` validates.
* `PausedIffDisabled` - through every sharing of schedules.
* `NoLeak`, `RetriedForCause` - why a container may be left behind, and what it does
  to the retry: the deferred `Terminate` has no context after a time-out, and the
  retry then cannot take the name.
* `OnlyAwaitedCalls` - an attempt that was given up while it slept does not call
  the upstream API beside its retry.
* `UploadedIsWhole`, `DeliveredWhole` - an attempt that succeeds has stored all of its
  source, and a consumer that gets the artifact gets all of it, also beside attempts
  that were given up. What they except is what the code does not keep: a file that
  another attempt has emptied since, one whose last read failed, and the archive of a
  source that failed.
* `StableLoopComplete` - every combination runs once, unless a replay can
  change the plan of a sequential loop over two parameters or more.

## 4. Fairness

* `ChunkedSync`: weak fairness of `Tick`, of `Start(e)` and of `Step(e)`. Time
  passes; the schedule of the job keeps firing; a worker polls the queue, and
  an attempt that does not fail ends, because every activity has a
  start-to-close time-out. Failures, cancellations and resets are not fair and
  at most `MaxFaults`: liveness is claimed for the time after the last one.
  `LateAdvance` is not fair either: a call on its way may be lost.
* `DagWorkflow`: weak fairness of the next-state relation, one workflow with
  one activity at a time.
* `TaskBatch`: the workflow task is processed, and every activity ends in some
  way, at the latest by its time-out.
* `InsertSink`: runs are started, and an attempt goes on with its next call.
  `SomeRunSucceeds` speaks of behaviours without a fault.
* `ArtifactTransfer`: the goroutines of an attempt are scheduled. A crash ends
  both; faults are at most `MaxFaults` and never needed for progress.

* `ContainerJob` (run `Attempts`): workers take their tasks, an attempt goes on or is
  timed out by Temporal, `SubmitAndWait` has a deadline, the ticker of `WatchWorkflow`
  fires and the consumer receives the updates. Containers need not exit and
  nobody need cancel.

## 5. Proofs

Eight modules hold theorems; `tlapm M.tla` checks each of them to the last leaf.
Constants are arbitrary: any number of executions, nodes, tasks, writers, attempts,
chunks, workers or faults. What is assumed of them is named in the modules that declare
them, and TLC evaluates it in the runs: that bounds are natural numbers, positive where
the code needs one (`BoundsAssumption`, `CountAssumption`, `TriesAssumption`,
`TimesAssumption`), that the declared inputs have their shape (`WantsAssumption`,
`BuildersAssumption`, `JobsAssumption`, `BuilderArguments`, `CallsAssumption`), that
the parameters of a loop are a finite map and none lists a value twice
(`ParametersAssumption`: a repeated value asks for two activities of one combination),
that the calendar has a day for every instant a window can start at
(`CalendarAssumption`), and for the chunked sync what a partitioner returns
(`PartitionerAssumption`), what `buildValidate` lets through (`BuildAssumption`) and the
three conditions of `AlignedChunkedSync`.

Hardly any of the properties is inductive. The table names what was added to make it so
and why; the invariants were also checked by TLC on the bounds of section 3, except
`BuilderInv`, which speaks of lists of anything and is not for TLC to evaluate.

| Module | Theorems, `Spec =>` | Inductive invariant |
|---|---|---|
| `ChunkedSyncProofs` | `TypeCorrect`: `[]TypeOK`; `AckedProgressCorrect`: `[]AckedProgress`; `CursorCoveredCorrect`: `[]CursorCovered`; `ProcessedAreSkipped`: `ProcessedSkipped`; `SyncKeepsItsLedger`: `LedgerSpec`; `EndedRunsAreSynced`: `CompletedRunSynced` | `IndInv`, `RestInv`, see below |
| `DatePartitionProofs` | `WindowIsTiled`: `[]Tiles`; `LoopIsClosedForm`: `[]ClosedForm`; `ChunksAreCalendarDays`: `[]CalendarDays` | `LoopInv`: what was emitted lies between multiples of the chunk from the start of the window (`Emitted`), and in a window of whole days every chunk begins with a day (`OnMidnights`) |
| `DagWorkflowProofs` | `ValidateDecidesAcyclicity`: `[]VerdictCorrect`; `NodesRunInTopologicalOrder`: `[]TopologicalOrder`; `FailureBlocksDownstream`: `[]FailureBlocks`; `FunctionFailureEnds`: `[]FunctionFailFast`; `RequiredInputsAreProduced`: `[]InputsProduced`; `WorkflowTypes` | `SearchInv`, `WalkInv`, see below |
| `ActivityProofs`, batches | `BatchReturnsWhatTasksDid` and `LoopReturnsWhatTasksDid`: `[]ReturnJustified`; `LoopIsBatch`: `LoopSpec => Spec`; `BatchTypes` | `BatchInv`: a batch that stops at failures and has not returned has collected none. Totals are cardinalities of the results collected, kept by the lemma on adding one position |
| `ActivityProofs`, combinations | `CombinationsComplete`: for all parameters and key orders, the list has every combination once; `StableLoopsAreComplete`: `[]StableLoopComplete` | `LoopInv`: what was launched is what the history holds (`Launched`), a parallel history is one whole plan, and with one parameter or no replay the history follows the plan in force (`Follow`) |
| `InsertSinkProofs` | `SuccessIsNotOverstated`: `[]SuccessIsComplete` | `ClaimsBacked`: no more insertions are claimed, summed over all writers, than rows are stored; a step changes each sum in one place |
| `InsertSinkProofs` | `RecordsAreCreatedOnce`: `[]NoDuplicates`; `SuccessfulRunCoversItsBatch`: `[]SuccessCovers`; `SinkTypes` | `SinkInv`: records that a writer has passed are in the sink and counted once (`Covered`), without time-outs an attempt at work is the one its run waits for (`Current`), and what the only writer is about to create is not there (`Alone`) |
| `ArtifactProofs` | `UploadsAreWhole`: `[]UploadedIsWhole`; `DeliveriesAreWhole`: `[]DeliveredWhole`; `TransferTypes` | `TransferInv`: the two ends of each pipe agree (`Piped`), all attempts write the same chunk at the same place (`Stored`), behind the attempt that emptied the file last there is no hole (`Written`), the consumer has a beginning of the stream (`Fetched`), of a file as long as the attempt whose result was taken is the one that emptied it last (`Undisturbed`). The last three as long as no attempt wrote the end marks of a failed archive (`Clean`) |
| `ActivityProofs`, a container | `ContainersAreRemoved`: `[]NoLeak`; `RetriesHaveACause`: `[]RetriedForCause`; `ClientsHearTheTruth`: `[]ResultTruthful` | `ContainerInv`: attempts start in turn and one left behind at work is out of time (`InTurn`); what went wrong with an attempt has been recorded (`Traced`); the output is the last attempt's (`Resulted`) |
| `ActivityProofs`, in time | `AttemptsAtWorkAreHeard`: `[]HeartbeatKeepsAlive`; `GivenUpAttemptsCallNobody`: `OnlyAwaitedCalls` | `PartitionInv`: a heartbeat is no older than the last tick, and that one at most an interval and a delay ago (`InStep`), which is less than a time-out of three floors (`IntervalBelowTimeout`) |
| `JobProofs` | `SchedulesArePausedForDisabledJobs`: `[]PausedIffDisabled` | `SyncInv`: pointers are into the heap, and a `SyncJobBuilder` is never disabled |
| `JobProofs` | `HandlersAreNotRetried`: `[]HandlerNotRetried`; `JobsRunTheirOwnImplementation`: `[]OwnImplementationRuns` | `WorkerInv`: tables hold what registered jobs brought along (`TablesFilled`), calls and attempts are counted by crashes (`CallsCounted`, `AttemptsCounted`), an equipped job stays so |
| `JobProofs`, patterns | `StagesInOrder`: `PatternSpec => []StagesGated` | `PatternInv`: the input of a pattern with stages is a pipeline that stops at errors, all that ended before the last result ended well, and all behind the next task is new (`Gated`) |
| `JobProofs`, builders | `BuiltIsFrozen`: `BuilderSpec => DefinitionFrozen`; `AttemptOutlivesContainers`: `[]OutlivesRunTimeout`; `WhatIsBuiltIsAccepted`: `[]BuiltAccepted` | `BuilderInv`: the list of an attached input is a beginning of the builder's, so that a change in place changes the same task of both; `Kept`: a step changes nothing else of what was built, and what was good when built (`IsGood`) stays good |

`ChunkedSyncProofs`. `AckedProgress` is inductive with `TypeOK`: GREATEST makes late and
overlapping calls harmless. `CursorCovered` says nothing of the runs about to move the
cursor. `IndInv` adds what they know: a run at a partition has everything
before that partition delivered, a run at `Advance` also the partition itself,
its remaining indices have no hole, and its list is one the partitioner
returned (`RunInv`); an `Advance` still on its way is already justified
(`LateInv`); and a cursor is the end of some listed partition (`CursorInv`), for
otherwise the filter `Start >= cursor` could drop a partition that straddles
it. The step that needs the alignment is the filter: what `ReadCursor` drops ends
at or before the cursor (`FilterCovered`). It also needs the three conditions of
`AlignedChunkedSync`: no partition straddles the end of another one
(`AlignedBoundaries`), a partition is listed when its records exist
(`CompleteRanges`), and what is listed later behind a listed partition was
listed with it (`ForwardWindow`).
The refinement `SyncKeepsItsLedger` goes through the steps of `ChunkedSync` one by one:
`Tick` is the ledger's, an `Advance`, in time or late, a commit, `Reset` forgets,
the activity of a partition delivers, and so does a failed attempt's part of it;
everything else stutters. `ProcessedSkipped` follows from `AckedProgress`: the cursor that the filter
reads is beyond all that was acknowledged. `CompletedRunSynced` needs more than
`CursorCovered`: nothing behind the last index is left out unless it was deferred, and
without a tracker a run has itself delivered what it is done with (`RestInv`).

`DagWorkflowProofs`. The search and the walk are both recursions turned into a stack, and
their invariants say what a stack is. In `SearchInv` the calls under way form a path of
the graph, the nodes on it are those being visited, and from what is visited no edge
leads to a node that is not, so that it is a closed acyclic part of the graph
(`VisitedAcyclic`); an edge back to the path closes a cycle. In `WalkInv` each call
waits for the one above it, which is one of its dependencies (`WalkStack`), so that the
stack is a path of an acyclic graph and no node is on it twice; and a node has a result
exactly when it is in the order (`Recorded`).

`LoopIsBatch` is why the properties of batches hold for loops: a replay changes the plan
and nothing of the history, so it is a stutter of the batch.

`FiniteInduction` is how sums and lists are reasoned about. The provers cannot apply an
induction theorem whose hypothesis is an operator, but they can apply one that speaks of
a *set* of numbers or of finite sets (`NatInSet`, `SubsetInduction`): the property is
given as the set of those that have it. From that follow the folds of the community
modules over sets and sequences (`FoldDefined`, `LeftFold...`) and the sums over
functions (`SumBump`: one argument more by one; `SumZero`, `SumInto`). `Combinations`
is a left fold over the keys, each step extending every combination by every value;
`CombinationsComplete` shows by induction on the number of keys that it stays injective
and covers the product. `SuccessIsComplete` compares two such sums.

Model-checked only: liveness (`ChainEnds`, `EventuallySynced`, `Terminates`, `Returns`,
`SomeRunSucceeds`, `PipeEnds`, `ClientsAnswered`), out of the prover's reach. Every
other property of a passing run is stated by a theorem; `EndedRunsAreSynced` also covers
runs without a tracker, which no run takes. The properties of the four
runs that show a disagreement (section 6) are false of what those runs model;
`CursorCovered`, one of them, is proved for partitioners that are aligned.

## 6. Where code and text disagree

Shown by a run:

* **A clamped partition loses the rest of its chunk.** The last partition of
  `DatePartitioner` ends at the instant of the listing (`partitioner.go:69`). That
  end becomes the cursor. The next listing has the whole chunk instead,
  which starts before the cursor, and the filter (`sync.go:318-326`) drops it:
  what came into existence after the first listing is never fetched, although
  `Advance` says that all partitions up to the cursor are processed. Run
  `DateChunkedSync`.
* **FailFast does not stop a container DAG.** A container that exits with a
  non-zero code without an activity error makes `executeNode` return a nil error
  (`container/workflow/dag.go:141`), and independent nodes go on. Run
  `ContainerFailFast`.
* **A replay may repeat a combination and drop another.** Combinations are
  generated by ranging over a map inside the workflow function
  (`workflow/helpers.go:81`). Run `LoopReplaySequential`.
* **A file over the limit may pass for whole.** "Check if data was truncated by
  attempting to read one more byte" (`workflow/store/local.go:109`) drops the error of
  that read (`:111`). When it fails, a file longer than `MaxUploadSize` is stored up to
  the limit and reported as uploaded. Run `ArtifactCutOff`.

Seen while modelling, without a run:

* After a clock change, partitions of 24 hours are no calendar days
  (`partitioner.go:67` against its comment at 22-24). `CalendarDays` therefore speaks
  of windows whose days all have 24 hours (`WholeDays`).
* `DataMapping.Optional` is never read (`function/workflow/dag.go:239`): a node whose
  required data is missing runs without it. `InputsProduced` leaves that kind out.
* A parallel batch under `fail_fast` returns while other activities run
  (`workflow/parallel.go:39`). `TaskEnds` may follow the return.
* The find/create pair of the sink (`insert_sink.go:53`) is called idempotent
  (`docs/datasync-workflows.md:114`). It is with one writer at a time or a
  `create` that refuses duplicates; `NoDuplicates` states exactly that.
* What a failed upload leaves behind can be downloaded. `LocalStore.Upload` fills
  the file in place (`workflow/store/local.go:98`), the DAG logs the failure and goes
  on (`container/workflow/dag.go:317`), and a consumer gets a shorter file without an
  error. An archive that is cut short is found out; but `ArchiveDirectory` writes
  the end marks also when it fails (`archive.go:17-29`), and then a part of the
  directory passes for the whole. The properties of `ArtifactTransfer` state where
  the line is. No text promises more.
* An attempt to upload that timed out before it opened the file truncates it when it
  comes to it (`workflow/store/local.go:98`; the context is not looked at), also after its
  retry was reported as done. Until it has written the file again, or for ever if its
  worker dies, a consumer reads an empty or a short file without an error; an archive is
  found out. `emptiedBy` marks this case in the properties.
* "Uploads are capped at MaxUploadSize (enforced by RawStore implementations)"
  (`fileops.go:24-25`): `S3Store.Upload` (`s3.go`) enforces no limit.
* A container's `Required` input never takes its `Default` (`output_extraction.go:95`
  against "Default value if the source is not available",
  `container/payload/payloads_extended.go:105`); the function package does take it.
  `MissingInputs` has both rules.
* A container that one output cannot be extracted from loses all of its outputs,
  a function only that one (`ExtractOutputs`, `output_extraction.go:77`).
* `WatchWorkflow` never ends for a workflow that failed: its status is "Failed or
  Running" (`container/operations.go:119`), which the loop does not stop at (`:206`).
  `ClientsAnswered` promises an end for completed workflows only.
* Exit handlers are kept by the builder (`container/builder/builder.go:291`, "executes
  on workflow exit") and by the example in `docs/container-workflows.md:172`, but are
  in no built input and never run. So the notification of
  `BuildTestDeployWithNotification` is never sent.
* `WithGlobalTimeout` applies to "containers as they are added"
  (`container/builder/options.go:95`): at construction there is none, and later ones
  do not get it.
* An options error found by `Build` stays in the builder (`builder.go:534`): the same
  builder cannot build after the options were corrected.
* Single mode drops the execution options, and no activity reads `RunTimeout`
  (`builder.go:581`): `OutlivesRunTimeout` leaves a single container out.
* The container lists are validated neither by `Build` nor by `PipelineInput.Validate`
  (`container/payload/payloads.go:154`) element by element; a container the activity
  rejects is found when the job runs.
* `MapReduce` runs its maps one after the other ("for now", `container/patterns/parallel.go:153`).
* The first activity registered on a worker answers for all function jobs
  (`function/worker.go:57`), and `LoopWorkflow` is the container's or the function's
  loop, whichever was registered first. `OwnImplementationRuns` speaks of jobs without
  such a namesake.
* `Definition.Register` "is safe to call multiple times"
  (`docs/job-definition.md:63-67`): the sync jobs register with
  `RegisterWorkflowWithOptions` and no `Once` (`chunk/sync.go:261`, `workflow/sync.go:74`).
* An enabled job that was given the `ScheduleSpec` of a disabled one is paused with it
  (`chunk/sync.go:276`): `PausedIffDisabled` speaks of schedules, not of jobs.
* Below a heartbeat time-out of three seconds the floor of the interval
  (`heartbeat.go:23`) takes the margin away, and a late timer gives an attempt at work up.
  `HeartbeatKeepsAlive` speaks of longer ones (`Tolerant`).
* `DateChunkedSync` wraps a nil fetcher or tracker before `buildValidate` looks at it
  (`date_sync.go`), so that they pass and fail when the job runs (`Wraps`).

## 7. What is not modelled

Payload texts, template substitution and JSON paths (pure functions of strings), the
texts of commands, scripts and requests in templates and patterns; metrics, logging
and counters of the summaries; the connection code of workers, telemetry and
secrets; the runner, which does one sync without Temporal; `IteratePartitions`, a
loop in process; signal, query, list and history, which pass through to the client;
the example programs. Within modelled parts: name format and duplicate names in DAG
validation, cancellation of a DAG or a batch, an empty batch in the sink, the schema
of the tracker's table and the microsecond resolution of its column, the inputs of
single nodes in the validation of a generic DAG (`workflow/dag.go:57-63`; validated
like the tasks of `TaskInputs`), a `create` of the sink that failed for its caller
and is committed later than the next call, key validation, listing and deletion in
the store, its codecs and its S3 client, the throttling of heartbeats by the SDK. A
heartbeat time-out of zero reaches an activity only when it is scheduled by hand,
because the workflows replace it by the default (`WithDefault`); `FallbackInterval`
is there for `Interval` to be whole. In `ContainerJob` the start time-out of the
container is one of the reasons of `StartFails`. Several containers of one workflow
share nothing but the engine's names, and one is modelled.

## 8. Plan

Done: chunked sync with its abstract specification and proofs, the date
partitioner, both DAG workflows, batches, loops, the sink, artifact transfer,
builders, patterns and workers, the attempts of the two activities with their
clients; the proofs of all their safety and action properties.

Next:

1. The conversion to microseconds of the tracker's column, in `DateChunkedSync`.
2. Deletion and listing of artifacts against a transfer.

No safety property of a passing run is left without a theorem.
