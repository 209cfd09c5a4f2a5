--------------------------- MODULE PartitionAttempt ---------------------------
(***************************************************************************)
(* The attempts of the activity that syncs, in time: runPartition of       *)
(* src/datasync/chunk with a fetcher under WithRateLimitRetry, or SyncData *)
(* of src/datasync/activity.  A goroutine heartbeats beside the work;      *)
(* Temporal gives an attempt up when it is silent for too long or has used *)
(* its start-to-close time, and starts the next one while the old one may  *)
(* still be at work.                                                       *)
(*                                                                         *)
(* Time passes in Tick, and only when nothing is overdue: Temporal's       *)
(* timers are on time, those of a worker at most Delay late.               *)
(***************************************************************************)
EXTENDS Integers

CONSTANTS
  Kinds,             \* of activity: "partition", "sync"
  Heartbeats,        \* heartbeat time-outs of the jobs, 0 when unset
  DefaultHeartbeat,
  Floor,             \* one second
  FallbackInterval,  \* the interval without a heartbeat time-out
  SleeperInterval,   \* heartbeatSleeperInterval
  Sleep,             \* RateLimitOpts.Sleep
  MaxCalls,          \* RateLimitOpts.MaxAttempts
  StartToClose,
  MaxRetries,        \* RetryPolicy.MaximumAttempts
  Delay,             \* bound: how late a worker's timer is
  MaxLost            \* bound: workers that are lost

ASSUME TimesAssumption ==
  /\ {Floor, FallbackInterval, SleeperInterval, Sleep, MaxCalls, StartToClose,
      DefaultHeartbeat, MaxRetries} \subseteq Nat \ {0}
  /\ Heartbeats \subseteq Nat
  /\ Delay \in 0 .. Floor

VARIABLES
  kind,
  heartbeat,  \* the HeartbeatTimeout of the activity
  run,        \* each attempt
  awaited,    \* the attempt Temporal waits for
  outcome,    \* of the activity
  lost

partitionVars == <<kind, heartbeat, run, awaited, outcome, lost>>

Tries == 1 .. MaxRetries

(* phase; age; silent: time since the last heartbeat; ticker: since the    *)
(* last tick of the loop; nap and left: until the step and the sleep end;  *)
(* calls: of the fetcher; done: its context is.                            *)
Idle == [phase |-> "idle", age |-> 0, silent |-> 0, ticker |-> 0, nap |-> 0, left |-> 0,
         calls |-> 0, done |-> FALSE]

Fresh == [Idle EXCEPT !.phase = "fetch", !.calls = 1]

Returned == [Idle EXCEPT !.phase = "returned"]

Working(k) == run[k].phase \in {"fetch", "sleep", "map", "write"}

WithDefault(time, default) == IF time = 0 THEN default ELSE time

IntervalOfTimeout(timeout) ==
  IF timeout = 0 THEN FallbackInterval
  ELSE IF timeout < Floor THEN Floor ELSE timeout

Interval(timeout) ==
  IF timeout = 0 THEN FallbackInterval
  ELSE IF timeout < 3 * Floor THEN Floor ELSE timeout \div 3

Min2(a, b) == IF a < b THEN a ELSE b

PartitionInit ==
  /\ kind \in Kinds
  /\ heartbeat \in {WithDefault(time, DefaultHeartbeat) : time \in Heartbeats}
  /\ run = [k \in Tries |-> IF k = 1 THEN Fresh ELSE Idle]
  /\ awaited = 1
  /\ outcome = "open"
  /\ lost = 0

-----------------------------------------------------------------------------
(* Attempt k is over for Temporal; attempts are r from here.               *)
NextAttempt(k, r) ==
  IF outcome = "open" /\ awaited = k
    THEN IF k < MaxRetries
           THEN /\ awaited' = k + 1
                /\ run' = [r EXCEPT ![k + 1] = Fresh]
                /\ UNCHANGED outcome
           ELSE outcome' = "failed" /\ run' = r /\ UNCHANGED awaited
    ELSE run' = r /\ UNCHANGED <<awaited, outcome>>

ReturnError(k) == NextAttempt(k, [run EXCEPT ![k] = Returned])

ReturnResult(k) ==
  /\ run' = [run EXCEPT ![k] = Returned]
  /\ outcome' = IF outcome = "open" /\ awaited = k THEN "succeeded" ELSE outcome
  /\ UNCHANGED awaited

Continue(k, state) == run' = [run EXCEPT ![k] = state] /\ UNCHANGED <<awaited, outcome>>

(* RecordHeartbeat: the answer for an attempt that was given up ends its   *)
(* context.                                                                *)
Recorded(k, state) ==
  IF outcome = "open" /\ awaited = k THEN [state EXCEPT !.silent = 0]
                                     ELSE [state EXCEPT !.done = TRUE]

(* The fetcher returns records, which SyncData reports, or none.           *)
Fetched(k) ==
  /\ run[k].phase = "fetch"
  /\ LET state == IF kind = "sync" THEN Recorded(k, run[k]) ELSE run[k]
     IN  Continue(k, [state EXCEPT !.phase = "map"]) \/ ReturnResult(k)
  /\ UNCHANGED <<kind, heartbeat, lost>>

FetchFails(k) ==
  /\ run[k].phase = "fetch"
  /\ ReturnError(k)
  /\ UNCHANGED <<kind, heartbeat, lost>>

(* A rate-limit error: sleep, unless this was the last call.               *)
RateLimited(k) ==
  /\ kind = "partition"
  /\ run[k].phase = "fetch"
  /\ IF run[k].calls < MaxCalls
       THEN Continue(k, [run[k] EXCEPT !.phase = "sleep", !.left = Sleep,
                                       !.nap = Min2(SleeperInterval, Sleep)])
       ELSE ReturnError(k)
  /\ UNCHANGED <<kind, heartbeat, lost>>

(* HeartbeatSleeper has returned: the next call, if the context allows.    *)
SleptUnchecked(k, state) ==
  Continue(k, [state EXCEPT !.phase = "fetch", !.calls = @ + 1, !.nap = 0, !.left = 0])

Slept(k, state) ==
  IF state.done
    THEN ReturnError(k)
    ELSE Continue(k, [state EXCEPT !.phase = "fetch", !.calls = @ + 1, !.nap = 0, !.left = 0])

(* A step of the sleep ends with a heartbeat.                              *)
NapEnds(k) ==
  /\ run[k].phase = "sleep"
  /\ run[k].nap <= 0
  /\ LET state == Recorded(k, run[k])
     IN  IF state.left <= 0
           THEN Slept(k, state)
           ELSE Continue(k, [state EXCEPT !.nap = Min2(SleeperInterval, state.left)])
  /\ UNCHANGED <<kind, heartbeat, lost>>

(* The sleeper returns early. *)
SleepCut(k) ==
  /\ run[k].phase = "sleep"
  /\ run[k].done
  /\ Slept(k, run[k])
  /\ UNCHANGED <<kind, heartbeat, lost>>

(* Mapper and sink, which may fail. *)
Work(k) ==
  /\ \/ run[k].phase = "map" /\ Continue(k, [run[k] EXCEPT !.phase = "write"])
     \/ run[k].phase = "write" /\ ReturnResult(k)
     \/ run[k].phase \in {"map", "write"} /\ ReturnError(k)
  /\ UNCHANGED <<kind, heartbeat, lost>>

(* heartbeat.Loop, until the attempt returns or its context is done.       *)
Beats(k) == Working(k) /\ ~ run[k].done

Beat(k) ==
  /\ Beats(k)
  /\ run[k].ticker >= Interval(heartbeat)
  /\ Continue(k, Recorded(k, [run[k] EXCEPT !.ticker = @ - Interval(heartbeat)]))
  /\ UNCHANGED <<kind, heartbeat, lost>>

WorkerLost(k) ==
  /\ Working(k)
  /\ lost < MaxLost
  /\ lost' = lost + 1
  /\ Continue(k, [run[k] EXCEPT !.phase = "lost"])
  /\ UNCHANGED <<kind, heartbeat>>
-----------------------------------------------------------------------------
(* Time *)

Awaited(k) == outcome = "open" /\ awaited = k

Silent(k) == Awaited(k) /\ run[k].silent >= heartbeat

HeartbeatTimesOut(k) ==
  /\ Silent(k)
  /\ NextAttempt(k, run)
  /\ UNCHANGED <<kind, heartbeat, lost>>

Spent(k) == (Working(k) \/ Awaited(k)) /\ ~ run[k].done /\ run[k].age >= StartToClose

StartToCloseTimesOut(k) ==
  /\ Spent(k)
  /\ NextAttempt(k, [run EXCEPT ![k].done = TRUE])
  /\ UNCHANGED <<kind, heartbeat, lost>>

Overdue(k) ==
  \/ Silent(k)
  \/ Spent(k)
  \/ Beats(k) /\ run[k].ticker >= Interval(heartbeat) + Delay
  \/ run[k].phase = "sleep" /\ ~ run[k].done /\ run[k].nap <= - Delay

Later(state) ==
  [state EXCEPT !.age = @ + 1, !.silent = @ + 1, !.ticker = @ + 1,
                !.nap = IF state.phase = "sleep" THEN @ - 1 ELSE 0,
                !.left = IF state.phase = "sleep" THEN @ - 1 ELSE 0]

(* Time matters to an attempt that Temporal waits for or that is at work.  *)
InTime(k) == ~ run[k].done /\ (Awaited(k) \/ Working(k))

Tick ==
  /\ ~ \E k \in Tries : Overdue(k)
  /\ \E k \in Tries : InTime(k)
  /\ run' = [k \in Tries |-> IF InTime(k) THEN Later(run[k]) ELSE run[k]]
  /\ UNCHANGED <<kind, heartbeat, awaited, outcome, lost>>

PartitionNext ==
  \/ Tick
  \/ \E k \in Tries :
       \/ Fetched(k) \/ FetchFails(k) \/ RateLimited(k) \/ NapEnds(k) \/ SleepCut(k)
       \/ Work(k) \/ Beat(k) \/ WorkerLost(k)
       \/ HeartbeatTimesOut(k) \/ StartToCloseTimesOut(k)

PartitionSpec == PartitionInit /\ [][PartitionNext]_partitionVars
-----------------------------------------------------------------------------
(* The interval is a third of the time-out, but not below the floor. *)
Tolerant == heartbeat >= 3 * Floor

(* However long a fetch, a map, a write or a rate-limit sleep takes, an    *)
(* attempt at work is never silent for as long as its heartbeat time-out,  *)
(* even if every timer of its worker is late.  Below three seconds the     *)
(* floor of the interval takes the margin away.                            *)
HeartbeatKeepsAlive == Tolerant => \A k \in Tries : Working(k) => ~ Silent(k)

(* "Returns ctx.Err() if ctx is canceled during a sleep": only the attempt *)
(* that Temporal waits for starts a call of the upstream API, although a   *)
(* rate-limit sleep may outlive the attempt it belongs to: a retry does    *)
(* not share the limit with the attempt it replaces.                       *)
OnlyAwaitedCalls ==
  [][\A k \in Tries :
       run'[k].calls > run[k].calls => outcome' = "open" /\ awaited' = k]_partitionVars
=============================================================================
