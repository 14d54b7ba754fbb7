----------------------------- MODULE MCTargets -----------------------------
(* Targets for TLC.                                                         *)
EXTENDS Targets

CONSTANTS p1

MCPresses == {p1}
=============================================================================
