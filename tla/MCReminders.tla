---------------------------- MODULE MCReminders ----------------------------
(* Two calls at a time over two forms of one question, two kinds of nudge, *)
(* and the digest.                                                         *)
EXTENDS Reminders

CONSTANTS w1, w2, f1, f2, q1
============================================================================
