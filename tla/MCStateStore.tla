---------------------------- MODULE MCStateStore ----------------------------
(* StateStore for TLC.                                                      *)
EXTENDS StateStore

CONSTANTS l1, u1, w1

MCLocked == {l1}
MCUnlocked == {u1}
MCWritebacks == {w1}
=============================================================================
