-------------------------- MODULE ClusterContract ---------------------------
(***************************************************************************)
(* What the commands promise of a cluster, to a user who gives them one    *)
(* after the other: start launches services one by one and records them,   *)
(* or takes them all down again and raises; stop takes down whatever runs; *)
(* nothing else launches or ends a service, although a service may end of  *)
(* itself; and the record is deleted only when nothing runs. How a service *)
(* is launched, named and stopped, and on which files this rests, is left  *)
(* to ClusterLifecycle, which implements this module.                      *)
(***************************************************************************)
CONSTANT Services

VARIABLES
  running,  \* the services that run
  recorded, \* the services that the record of the cluster names
  launched, \* the services that the start under way has launched
  busy      \* the operation under way

vars == <<running, recorded, launched, busy>>

Init ==
  /\ running = {}
  /\ recorded = {}
  /\ launched = {}
  /\ busy = "no"

BeginStart ==
  /\ busy = "no"
  /\ running = {}
  /\ busy' = "start"
  /\ UNCHANGED <<running, recorded, launched>>

Launch(s) ==
  /\ busy = "start"
  /\ s \notin launched
  /\ running' = running \cup {s}
  /\ launched' = launched \cup {s}
  /\ UNCHANGED <<recorded, busy>>

StartReturns ==
  /\ busy = "start"
  /\ recorded' = launched
  /\ launched' = {}
  /\ busy' = "no"
  /\ UNCHANGED running

\* A launch failed: from here on start only takes down what it launched.
StartFails ==
  /\ busy = "start"
  /\ busy' = "rollback"
  /\ UNCHANGED <<running, recorded, launched>>

StartRaises ==
  /\ busy = "rollback"
  /\ running = {}
  /\ launched' = {}
  /\ busy' = "no"
  /\ UNCHANGED <<running, recorded>>

BeginStop ==
  /\ busy = "no"
  /\ busy' = "stop"
  /\ UNCHANGED <<running, recorded, launched>>

\* stop may also raise, but never over a running cluster; then the record stays.
StopEnds ==
  /\ busy = "stop"
  /\ running = {}
  /\ recorded' \in {{}, recorded}
  /\ busy' = "no"
  /\ UNCHANGED <<running, launched>>

\* A service ends, taken down or of itself.
End(s) ==
  /\ s \in running
  /\ running' = running \ {s}
  /\ UNCHANGED <<recorded, launched, busy>>

Clean ==
  /\ busy = "no"
  /\ running = {}
  /\ recorded' = {}
  /\ UNCHANGED <<running, launched, busy>>

Next ==
  \/ BeginStart \/ StartReturns \/ StartFails \/ StartRaises
  \/ BeginStop \/ StopEnds \/ Clean
  \/ \E s \in Services : Launch(s) \/ End(s)

Spec == Init /\ [][Next]_vars

-----------------------------------------------------------------------------
TypeOK ==
  /\ running \subseteq Services
  /\ recorded \subseteq Services
  /\ launched \subseteq Services
  /\ busy \in {"no", "start", "rollback", "stop"}

\* What runs between two commands is on record, so that a later command, in
\* another process, can find and stop it.
NothingUnrecorded == busy \in {"no", "stop"} => running \subseteq recorded

\* During a start, what runs is what it launched: the cluster is its own.
OnlyLaunched == busy \in {"start", "rollback"} => running \subseteq launched
=============================================================================
