------------------------- MODULE MCPostingSession -------------------------
(* Instances of PostingSession for TLC. *)
EXTENDS PostingSession, TLC

CONSTANTS c1, c2, c3, i1, i2

MCCallers == {c1, c2, c3}
MCIds == {i1, i2}

\* Callers and ids are interchangeable.
MCSymmetry == Permutations(MCCallers) \cup Permutations(MCIds)
=============================================================================
