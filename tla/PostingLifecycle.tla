-------------------------- MODULE PostingLifecycle --------------------------
(***************************************************************************)
(* What the posting state machine promises, whoever calls it and in        *)
(* whatever order: sessions move along the matrix of PostingStates or      *)
(* expire, and only a draft that passed the quality gate is ever offered   *)
(* to the customer ("the judge is a hard gate", quality-judge.ts:17).      *)
(***************************************************************************)
EXTENDS PostingStates

CONSTANT Ids    \* session ids

VARIABLES
    phase,      \* the state of each session
    approved    \* whether its current draft passed the gate

States == PostingState \cup {"none"}

Init ==
    /\ phase = [i \in Ids |-> "none"]
    /\ approved = [i \in Ids |-> FALSE]

\* createSession.
Open(i) ==
    /\ phase[i] = "none"
    /\ phase' = [phase EXCEPT ![i] = "created"]
    /\ approved' = [approved EXCEPT ![i] = FALSE]

\* Work that needs no verdict: drafting, repairing, revising, giving up.
Work(i, s) ==
    /\ CanTransition(phase[i], s)
    /\ s \notin {"awaiting_decision", "scheduled", "published"}
    /\ phase' = [phase EXCEPT ![i] = s]
    /\ \E b \in BOOLEAN : approved' = [approved EXCEPT ![i] = b]

\* The draft passed and is offered to the customer.
Offer(i) ==
    /\ CanTransition(phase[i], "awaiting_decision")
    /\ phase' = [phase EXCEPT ![i] = "awaiting_decision"]
    /\ approved' = [approved EXCEPT ![i] = TRUE]

\* The customer takes the draft.
Schedule(i) ==
    /\ CanTransition(phase[i], "scheduled")
    /\ phase' = [phase EXCEPT ![i] = "scheduled"]
    /\ UNCHANGED approved

\* Sessions whose time is up, from any state that is not terminal.
Expire(S) ==
    /\ \A i \in S : phase[i] \notin Terminal \cup {"none"}
    /\ phase' = [i \in Ids |-> IF i \in S THEN "expired" ELSE phase[i]]
    /\ UNCHANGED approved

Next ==
    \/ \E i \in Ids : \/ Open(i)
                      \/ \E s \in PostingState : Work(i, s)
                      \/ Offer(i)
                      \/ Schedule(i)
    \/ \E S \in SUBSET Ids : Expire(S)

Spec == Init /\ [][Next]_<<phase, approved>>
=============================================================================
