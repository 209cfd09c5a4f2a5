----------------------------- MODULE DagFailure -----------------------------
(***************************************************************************)
(* How a node's activity ends, and the outcomes for which executing the    *)
(* node returns an error under FailFast, in the two packages.  "error" is  *)
(* an error of the activity, "failure" an activity that returned           *)
(* Success = FALSE and no error.                                           *)
(***************************************************************************)
Failures == {"error", "failure"}

Outcomes == Failures \cup {"ok"}

(* function: the error, or "node failed" when there is none. *)
FunctionStopsOnError == {"error"}

FunctionStops == {"error", "failure"}

(* container: "return err", which is nil when only result.Success is false. *)
ContainerStops == {"error"}
=============================================================================
