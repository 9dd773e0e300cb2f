-------------------------- MODULE MCManagedCluster --------------------------
(***************************************************************************)
(* Small instances of ManagedCluster for TLC.                              *)
(***************************************************************************)
EXTENDS ManagedCluster

CONSTANTS n1, n2, cli, program

\* No program passes a list to set_workers.
NoLists == [a \in Allocations |-> {}]
=============================================================================
