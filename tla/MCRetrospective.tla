--------------------------- MODULE MCRetrospective ---------------------------
(* Two horizons and two session ids. *)
EXTENDS Retrospective
==============================================================================
