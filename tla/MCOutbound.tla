----------------------------- MODULE MCOutbound -----------------------------
(* Two calls at a time of the X API, backups and alerts among them.         *)
EXTENDS Outbound

CONSTANTS w1, w2
=============================================================================
