--------------------------- MODULE MCHostExecution ---------------------------
(***************************************************************************)
(* Instances of HostExecution for TLC.                                     *)
(***************************************************************************)
EXTENDS HostExecution

CONSTANTS r1, r2

OneRunner == {r1}
TwoRunners == {r1, r2}
\* A run without an end, and one that ends by itself after one round.
RunAndOne == {0, 1}
=============================================================================
