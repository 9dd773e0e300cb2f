------------------------- MODULE ClusterRefinement --------------------------
(***************************************************************************)
(* ClusterLifecycle implements ClusterContract: several managers, each in  *)
(* its own process, with files, flags and handles, behave as one.          *)
(***************************************************************************)
EXTENDS ClusterLifecycle

\* The services named by status.json.
Recorded == IF status = NoFile THEN {} ELSE status

\* The operation in which the one manager that is at work is.
Operation ==
  IF \E m \in Managers : pc[m] = "start" THEN "start"
  ELSE IF \E m \in Managers : pc[m] = "rollback" THEN "rollback"
  ELSE IF \E m \in Managers : pc[m] = "stop" THEN "stop"
  ELSE "no"

\* The flags of the one start that is under way.
Launched == UNION {tracker[m] : m \in Managers}

Contract == INSTANCE ClusterContract WITH
  running <- Running,
  recorded <- Recorded,
  launched <- Launched,
  busy <- Operation

\* Commands that take turns behave as the contract says, whatever launch fails
\* and whatever process dies on the way.
ImplementsContract == Contract!Spec

\* What is left running by one process is on record for the next.
NothingUnrecorded == Contract!NothingUnrecorded
=============================================================================
