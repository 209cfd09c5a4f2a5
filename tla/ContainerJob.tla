----------------------------- MODULE ContainerJob -----------------------------
(***************************************************************************)
(* One container submitted through src/container/operations.go: the task   *)
(* workflow, the attempts of StartContainerActivity, the containers they   *)
(* leave in the engine, a client that waits for the result and one that    *)
(* watches the workflow.                                                   *)
(*                                                                         *)
(* The activity does not heartbeat, so that a cancelled or terminated      *)
(* workflow does not reach it: its context ends at the start-to-close      *)
(* time-out only.  The engine refuses a name that a container has.         *)
(***************************************************************************)
EXTENDS Naturals, FiniteSets

CONSTANTS
  Inputs,             \* [type, valid, named, autoRemove]
  MaxTries,           \* MaximumAttempts of DefaultActivityOptions
  MaxContainerFaults  \* bound: errors of the engine and lost workers

ASSUME TriesAssumption == MaxTries \in Nat \ {0}

VARIABLES
  input,
  workflow,     \* status of the execution
  output,       \* the result of a completed one: [attempt, success]
  current,      \* the attempt the workflow waits for
  phase,        \* what each attempt is at
  expired,      \* its context is done
  waited,       \* what its Wait returned
  container,    \* its container in the engine
  exitCode,
  faults,       \* the steps of it that met a fault
  waiter,       \* SubmitAndWait
  watcher,      \* WatchWorkflow
  watchCanceled \* the context of WatchWorkflow is done

attemptVars == <<phase, expired, waited, faults>>

clientVars == <<waiter, watcher, watchCanceled>>

containerVars ==
  <<input, workflow, output, current, attemptVars, container, exitCode, clientVars>>

Attempts == 1 .. MaxTries

NoOutput == [attempt |-> 0, success |-> FALSE]

ContainerInit ==
  /\ input \in Inputs
  /\ workflow = "none"
  /\ output = NoOutput
  /\ current = 0
  /\ phase = [k \in Attempts |-> "idle"]
  /\ expired = [k \in Attempts |-> FALSE]
  /\ waited = [k \in Attempts |-> "none"]
  /\ faults = {}
  /\ container = [k \in Attempts |-> "none"]
  /\ exitCode = [k \in Attempts |-> 0]
  /\ waiter = "none"
  /\ watcher = "off"
  /\ watchCanceled = FALSE

InFlight(k) == phase[k] \in {"setup", "start", "wait", "cleanup", "report"}

Step(k, next) == phase' = [phase EXCEPT ![k] = next]

(* A fault meets attempt k at step s. *)
Fault(k, s) ==
  /\ Cardinality(faults) < MaxContainerFaults
  /\ faults' = faults \cup {<<k, s>>}
-----------------------------------------------------------------------------
(* Submitting *)

(* The workflow is started, and SubmitAndWait goes on to wait for it.      *)
SubmitTyped ==
  /\ workflow = "none"
  /\ workflow' = "open"
  /\ waiter' \in {"none", "waiting"}
  /\ UNCHANGED <<input, output, current, attemptVars, container, exitCode,
                 watcher, watchCanceled>>

(* SubmitWorkflow knows the inputs of three workflows. *)
Submit == input.type \in {"container", "pipeline", "parallel"} /\ SubmitTyped

(* ExecuteTaskWorkflow: validate, then run the activity.                   *)
RunTask ==
  /\ workflow = "open"
  /\ current = 0
  /\ IF input.valid
       THEN current' = 1 /\ Step(1, "setup") /\ UNCHANGED workflow
       ELSE workflow' = "failed" /\ UNCHANGED <<current, phase>>
  /\ UNCHANGED <<input, output, expired, waited, faults, container, exitCode, clientVars>>

(* CancelWorkflow and TerminateWorkflow.                                   *)
Stop ==
  /\ workflow = "open"
  /\ workflow' = "stopped"
  /\ UNCHANGED <<input, output, current, attemptVars, container, exitCode, clientVars>>
-----------------------------------------------------------------------------
(* StartContainerActivity *)

(* The activity ends with an error or is timed out: an attempt the         *)
(* workflow waits for is followed by another, up to MaximumAttempts.       *)
Retried(k, ended) ==
  IF workflow = "open" /\ current = k
    THEN IF k + 1 \in Attempts
           THEN /\ current' = k + 1
                /\ phase' = [ended EXCEPT ![k + 1] = "setup"]
                /\ UNCHANGED workflow
           ELSE workflow' = "failed" /\ phase' = ended /\ UNCHANGED current
    ELSE phase' = ended /\ UNCHANGED <<workflow, current>>

Errs(k) == Retried(k, [phase EXCEPT ![k] = "ended"])

Exists(k) == container[k] \in {"running", "exited"}

NameTaken == input.named /\ \E k \in Attempts : Exists(k)

(* Secrets, the options and the engine are fine: there is a container.     *)
CreateContainer(k) ==
  /\ phase[k] = "setup"
  /\ ~ NameTaken
  /\ ~ expired[k]
  /\ container' = [container EXCEPT ![k] = "running"]
  /\ Step(k, "start")
  /\ UNCHANGED <<input, workflow, output, current, expired, waited, faults, exitCode, clientVars>>

(* A secret is not found, New or Start fails, the readiness is not reached *)
(* in time: the activity returns before it has deferred the cleanup.       *)
StartFails(k) ==
  /\ phase[k] \in {"setup", "start"}
  /\ Errs(k)
  /\ \/ /\ expired[k] \/ (phase[k] = "setup" /\ NameTaken)
        /\ UNCHANGED faults
     \/ Fault(k, "start")
  /\ UNCHANGED <<input, output, expired, waited, container, exitCode, clientVars>>

Ready(k) ==
  /\ phase[k] = "start"
  /\ ~ expired[k]
  /\ Step(k, "wait")
  /\ UNCHANGED <<input, workflow, output, current, expired, waited, faults, container,
                 exitCode, clientVars>>

Exits(k) ==
  /\ container[k] = "running"
  /\ container' = [container EXCEPT ![k] = "exited"]
  /\ \E code \in {0, 1} : exitCode' = [exitCode EXCEPT ![k] = code]
  /\ UNCHANGED <<input, workflow, output, current, attemptVars, clientVars>>

(* Wait returns the exit code, or an error of the engine or the context.   *)
WaitReturns(k) ==
  /\ phase[k] = "wait"
  /\ \/ /\ container[k] = "exited"
        /\ waited' = [waited EXCEPT ![k] = "exit"]
        /\ UNCHANGED faults
     \/ /\ waited' = [waited EXCEPT ![k] = "error"]
        /\ IF expired[k] THEN UNCHANGED faults ELSE Fault(k, "wait")
  /\ Step(k, "cleanup")
  /\ UNCHANGED <<input, workflow, output, current, expired, container, exitCode, clientVars>>

RemovesOnSuccess(k) == input.autoRemove /\ waited[k] = "exit"

Removes(k) == input.autoRemove

(* The deferred Terminate, with the activity's context; its error is only  *)
(* logged.                                                                 *)
Cleanup(k) ==
  /\ phase[k] = "cleanup"
  /\ Step(k, "report")
  /\ IF Removes(k) /\ ~ expired[k]
       THEN \/ container' = [container EXCEPT ![k] = "removed"] /\ UNCHANGED faults
            \/ Fault(k, "terminate") /\ UNCHANGED container
       ELSE UNCHANGED <<faults, container>>
  /\ UNCHANGED <<input, workflow, output, current, expired, waited, exitCode, clientVars>>

(* Success is an exit code of 0; another one is a result as well.          *)
ReportRetryingExit(k) ==
  /\ phase[k] = "report"
  /\ IF waited[k] = "error" \/ exitCode[k] # 0
       THEN Errs(k) /\ UNCHANGED output
       ELSE /\ Step(k, "ended")
            /\ workflow' = "completed"
            /\ output' = [attempt |-> k, success |-> TRUE]
            /\ UNCHANGED current
  /\ UNCHANGED <<input, expired, waited, faults, container, exitCode, clientVars>>

ReportIgnoringExit(k) ==
  /\ phase[k] = "report"
  /\ IF workflow = "open" /\ current = k /\ waited[k] = "exit"
       THEN /\ Step(k, "ended")
            /\ workflow' = "completed"
            /\ output' = [attempt |-> k, success |-> TRUE]
            /\ UNCHANGED current
       ELSE Errs(k) /\ UNCHANGED output
  /\ UNCHANGED <<input, expired, waited, faults, container, exitCode, clientVars>>

Report(k) ==
  /\ phase[k] = "report"
  /\ IF workflow = "open" /\ current = k /\ waited[k] = "exit"
       THEN /\ Step(k, "ended")
            /\ workflow' = "completed"
            /\ output' = [attempt |-> k, success |-> exitCode[k] = 0]
            /\ UNCHANGED current
       ELSE Errs(k) /\ UNCHANGED output
  /\ UNCHANGED <<input, expired, waited, faults, container, exitCode, clientVars>>

(* Start-to-close: the context ends, and Temporal gives the attempt up.    *)
Expire(k) ==
  /\ InFlight(k) \/ phase[k] = "crashed"
  /\ ~ expired[k]
  /\ expired' = [expired EXCEPT ![k] = TRUE]
  /\ Retried(k, phase)
  /\ UNCHANGED <<input, output, waited, faults, container, exitCode, clientVars>>

(* The worker is lost; the engine goes on. *)
Crash(k) ==
  /\ InFlight(k)
  /\ Fault(k, "crash")
  /\ Step(k, "crashed")
  /\ UNCHANGED <<input, workflow, output, current, expired, waited, container,
                 exitCode, clientVars>>
-----------------------------------------------------------------------------
(* Clients *)

Closed == workflow \notin {"none", "open"}

(* The waiter's Get returns, or its time-out comes first. *)
Answer ==
  /\ waiter = "waiting"
  /\ Closed
  /\ waiter' = IF workflow = "completed" THEN "Completed" ELSE "Failed"
  /\ UNCHANGED <<input, workflow, output, current, attemptVars, container, exitCode,
                 watcher, watchCanceled>>

WaitTimesOut ==
  /\ waiter = "waiting"
  /\ waiter' = "Failed"
  /\ UNCHANGED <<input, workflow, output, current, attemptVars, container, exitCode,
                 watcher, watchCanceled>>

Watching(next) ==
  /\ watcher' = next
  /\ UNCHANGED <<input, workflow, output, current, attemptVars, container, exitCode,
                 waiter, watchCanceled>>

(* A client watches a workflow that it did not wait for. *)
Watch ==
  /\ workflow # "none"
  /\ waiter = "none"
  /\ watcher = "off"
  /\ Watching("ticking")

WatchTick == watcher = "ticking" /\ Watching("getting")

(* GetWorkflowStatus: Get blocks until the workflow is closed or the       *)
(* context is done.                                                        *)
GetWorkflowStatus ==
  /\ watcher = "getting"
  /\ \/ workflow = "completed" /\ Watching("Completed")
     \/ /\ watchCanceled \/ (Closed /\ workflow # "completed")
        /\ Watching("Failed or Running")

(* The update is received; "Completed" and "Failed" are the last ones.     *)
SendStoppingOnFailed ==
  /\ watcher \in {"Completed", "Failed", "Failed or Running"}
  /\ Watching(IF watcher = "Failed" THEN "ended" ELSE "ticking")

Send ==
  /\ watcher \in {"Completed", "Failed", "Failed or Running"}
  /\ Watching(IF watcher \in {"Completed", "Failed"} THEN "ended" ELSE "ticking")

CancelWatch ==
  /\ watcher \notin {"off", "ended"}
  /\ ~ watchCanceled
  /\ watchCanceled' = TRUE
  /\ UNCHANGED <<input, workflow, output, current, attemptVars, container, exitCode,
                 waiter, watcher>>

WatchDone ==
  /\ watchCanceled
  /\ watcher \in {"ticking", "Completed", "Failed or Running"}
  /\ Watching("ended")

Activity(k) ==
  \/ CreateContainer(k) \/ StartFails(k) \/ Ready(k) \/ WaitReturns(k)
  \/ Cleanup(k) \/ Report(k)

ContainerNext ==
  \/ Submit \/ SubmitTyped \/ RunTask \/ Stop
  \/ \E k \in Attempts : Activity(k) \/ Exits(k) \/ Expire(k) \/ Crash(k)
  \/ Answer \/ WaitTimesOut
  \/ Watch \/ WatchTick \/ GetWorkflowStatus \/ Send \/ CancelWatch \/ WatchDone

ContainerSpec == ContainerInit /\ [][ContainerNext]_containerVars

(* Workers and Temporal's timers go on; the consumer of the updates drains *)
(* them; SubmitAndWait has a deadline.  Containers need not exit.          *)
ContainerFairness ==
  /\ WF_containerVars(RunTask)
  /\ \A k \in Attempts : WF_containerVars(Activity(k)) /\ WF_containerVars(Expire(k))
  /\ WF_containerVars(Answer \/ WaitTimesOut)
  /\ WF_containerVars(WatchTick \/ GetWorkflowStatus \/ Send)
-----------------------------------------------------------------------------
(* What lets attempt k leave its container behind. *)
MayLeave(k) ==
  \/ ~ input.autoRemove
  \/ expired[k]
  \/ \E s \in {"start", "terminate", "crash"} : <<k, s>> \in faults

(* "Automatically remove container": a container that outlives its attempt *)
(* although AutoRemove was set is one that was left when the attempt's     *)
(* context had ended, when Start failed after creating it, or when the     *)
(* engine refused to remove it - never because the container, or the wait  *)
(* for it, failed, nor because the workflow was cancelled meanwhile.       *)
NoLeak ==
  \A k \in Attempts : Exists(k) /\ phase[k] \in {"report", "ended"} => MayLeave(k)

Cause(k) == expired[k] \/ \E s \in {"start", "wait", "crash"} : <<k, s>> \in faults

(* An attempt is followed by another, or is the last of a failed workflow, *)
(* for a cause of its own: it met a fault or ran out of time, or the name  *)
(* it needs belongs to a container an earlier attempt has left.  A non-    *)
(* zero exit code is no cause, and an AutoRemove container is left behind  *)
(* by an attempt that ran out of time or crashed, or by the engine.        *)
RetriedForCause ==
  \A k \in Attempts :
    k < current \/ (k = current /\ workflow = "failed") =>
      Cause(k) \/ (input.named /\ \E j \in 1 .. (k - 1) : MayLeave(j))

(* What a client is told is what a container did: the output is of an      *)
(* attempt whose wait saw the container exit, Success is its exit code,    *)
(* and "Completed" is answered for a completed workflow only.              *)
ResultTruthful ==
  /\ workflow = "completed" =>
       /\ output.attempt = current
       /\ waited[current] = "exit"
       /\ output.success <=> exitCode[current] = 0
  /\ waiter = "Completed" \/ watcher = "Completed" => workflow = "completed"

(* SubmitAndWait returns even when the container never exits, and a watch  *)
(* of a workflow that completes ends with it; that of one that failed does *)
(* not.                                                                    *)
ClientsAnswered ==
  /\ waiter = "waiting" ~> waiter # "waiting"
  /\ watcher = "getting" ~> watcher # "getting"
  /\ (workflow = "completed" /\ watcher # "off") ~> (watcher = "ended" \/ watchCanceled)
=============================================================================
