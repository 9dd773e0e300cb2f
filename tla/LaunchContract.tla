--------------------------- MODULE LaunchContract ---------------------------
(***************************************************************************)
(* What start_worker_processes promises to start: while the call lasts     *)
(* workers are launched, in any order; it returns without an exception     *)
(* only when the worker of every node was launched; and when it is over,   *)
(* nothing of it goes on. SshFanOut implements it.                         *)
(***************************************************************************)
CONSTANT Nodes

VARIABLES
  launched, \* the nodes whose worker the call has launched
  call,     \* "before" it, "pending", "returned" or "raised"
  masked    \* is the result of start-worker.sh lost in the script?

vars == <<launched, call, masked>>

Init ==
  /\ launched = {}
  /\ call = "before"
  /\ masked \in BOOLEAN

Begin ==
  /\ call = "before"
  /\ call' = "pending"
  /\ UNCHANGED <<launched, masked>>

Launch(n) ==
  /\ call = "pending"
  /\ n \notin launched
  /\ launched' = launched \cup {n}
  /\ UNCHANGED <<call, masked>>

Return ==
  /\ call = "pending"
  /\ masked \/ launched = Nodes
  /\ call' = "returned"
  /\ UNCHANGED <<launched, masked>>

Raise ==
  /\ call = "pending"
  /\ call' = "raised"
  /\ UNCHANGED <<launched, masked>>

Next == Begin \/ Return \/ Raise \/ \E n \in Nodes : Launch(n)

Spec == Init /\ [][Next]_vars
=============================================================================
