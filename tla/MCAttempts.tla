------------------------------ MODULE MCAttempts ------------------------------
(***************************************************************************)
(* The attempts of an activity beside Temporal's timers.  One behaviour    *)
(* follows a container with its clients or a partition; the other rests.   *)
(***************************************************************************)
EXTENDS ContainerJob, PartitionAttempt

Container(type, valid, named, autoRemove) ==
  [type |-> type, valid |-> valid, named |-> named, autoRemove |-> autoRemove]

MCInputs ==
  {Container("container", TRUE, TRUE, TRUE), Container("container", TRUE, TRUE, FALSE),
   Container("pipeline", TRUE, FALSE, TRUE), Container("dag", FALSE, TRUE, TRUE)}

VARIABLE subject

MCInit ==
  /\ subject \in {"container", "partition"}
  /\ ContainerInit
  /\ PartitionInit
  /\ subject = "container" => kind = "sync" /\ heartbeat = DefaultHeartbeat
  /\ subject = "partition" => ~ input.valid

ContainerStep ==
  subject = "container" /\ ContainerNext /\ UNCHANGED <<subject, partitionVars>>

PartitionStep ==
  subject = "partition" /\ PartitionNext /\ UNCHANGED <<subject, containerVars>>

MCNext == ContainerStep \/ PartitionStep

MCSpec ==
  /\ MCInit
  /\ [][MCNext]_<<subject, containerVars, partitionVars>>
  /\ ContainerFairness
=============================================================================
