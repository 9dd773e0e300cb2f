------------------------ MODULE MCBackgroundProcess -------------------------
(***************************************************************************)
(* Small instances of BackgroundProcess for TLC.                           *)
(***************************************************************************)
EXTENDS BackgroundProcess

CONSTANTS m1, m2, p1, p2

\* One job step with monitors, and two processes of the other kinds: one that is
\* left over and one that takes its place.
SomeChildren == [k \in Kinds |-> IF k = "monitored" THEN {p1} ELSE {p1, p2}]
=============================================================================
