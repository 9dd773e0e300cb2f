---------------------------- MODULE MCSshFanOut -----------------------------
(***************************************************************************)
(* Small instances of SshFanOut for TLC.                                   *)
(***************************************************************************)
EXTENDS SshFanOut

CONSTANTS n1, n2, start, stop1, stop2
=============================================================================
