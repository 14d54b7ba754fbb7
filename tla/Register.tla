------------------------------ MODULE Register ------------------------------
(***************************************************************************)
(* What withState of account-state/repo.ts promises: each call changes the *)
(* state once, whole, and no change of another call is undone.             *)
(***************************************************************************)
CONSTANT Calls

VARIABLE value  \* calls whose change has been made

Init == value = {}

Commit(c) ==
    /\ c \notin value
    /\ value' = value \cup {c}

Next == \E c \in Calls : Commit(c)

Spec == Init /\ [][Next]_value
=============================================================================
