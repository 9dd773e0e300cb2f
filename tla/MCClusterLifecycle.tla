------------------------ MODULE MCClusterLifecycle -------------------------
(***************************************************************************)
(* Small instances of ClusterLifecycle for TLC.                            *)
(***************************************************************************)
EXTENDS ClusterRefinement, TLC

CONSTANTS n1, n2, m1, m2

\* No program passes a list to set_workers.
NoLists == [a \in Allocations |-> {}]

\* A program on a Slurm allocation picks some of the nodes.
SlurmLists == [a \in Allocations |-> IF a = {n1} THEN {} ELSE {{n2}, {n1, n2}}]

Interchangeable == Permutations({m1, m2})
=============================================================================
