---------------------------- MODULE MCOnboarding ----------------------------
(* Onboarding for TLC.                                                      *)
EXTENDS Onboarding, TLC

CONSTANTS c1, c2, w1

MCSlots == {c1, c2}
MCWriters == {w1}
MCRequired == {1}
MCFields == {1, 2}
Symmetry == Permutations(MCSlots)
=============================================================================
