----------------------------- MODULE DagWorkflow -----------------------------
(***************************************************************************)
(* DAGWorkflow from its first line: input.Validate runs its search on the  *)
(* graph that was submitted, and the walk starts when it accepts.  What    *)
(* the walk relies on is thus what the search finds, not acyclicity.       *)
(***************************************************************************)
EXTENDS DagRun

VARIABLES
  state,   \* of the search: see DagValidation
  calls,
  verdict

searchVars == <<state, calls, verdict>>

Search == INSTANCE DagValidation WITH stack <- calls

WorkflowTypeOK == TypeOK /\ Search!TypeOK
-----------------------------------------------------------------------------
WorkflowInit ==
  /\ Search!Init
  /\ wants = [n \in Nodes |-> {}]
  /\ failFast = FALSE
  /\ stops = ContainerStops
  /\ status = "validating"
  /\ WalkInit

Validate ==
  /\ Search!Next
  /\ UNCHANGED <<wants, failFast, stops, status, walkVars>>

(* The other inputs matter from here on, and are chosen here. *)
Begin ==
  /\ status = "validating"
  /\ verdict = "accepted"
  /\ status' = "running"
  /\ wants' \in Wants
  /\ failFast' \in BOOLEAN
  /\ stops' \in {FunctionStops, ContainerStops}
  /\ Fits(wants', stops')
  /\ UNCHANGED <<deps, walkVars, searchVars>>

InvalidInput ==
  /\ status = "validating"
  /\ verdict = "rejected"
  /\ status' = "failed"
  /\ UNCHANGED <<inputVars, walkVars, searchVars>>

Walk ==
  /\ Next
  /\ UNCHANGED searchVars

WorkflowNext == Validate \/ Begin \/ InvalidInput \/ Walk

(* The workflow's worker keeps running it, and its activities end. *)
WorkflowSpec ==
  /\ WorkflowInit
  /\ [][WorkflowNext]_<<vars, searchVars>>
  /\ WF_<<vars, searchVars>>(WorkflowNext)

(* Validate accepts exactly the graphs without a circular dependency whose *)
(* dependencies all exist: it rejects every cycle wherever it lies, and a  *)
(* node that is reached twice is not mistaken for one.                     *)
VerdictCorrect == Search!VerdictCorrect
=============================================================================
