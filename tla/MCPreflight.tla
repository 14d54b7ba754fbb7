---------------------------- MODULE MCPreflight ----------------------------
(* Preflight and AccountFiles for TLC.  The self-check is combined with a   *)
(* few documents; the other documents with no check.                        *)
EXTENDS Preflight

MCIds == {"s1", "s2"}

OldQueue == Object([AllMissing EXCEPT !.queue = Map([i \in {"s1"} |-> Entry(NoName, "scheduled", "")])])
Unknown == Object([AllMissing EXCEPT !.posting = List(<<Entry("s1", "text", "")>>)])

WrongAccount == [StarterAccount EXCEPT !.parts = PartsAre("voice", "wrong")]
OldAccount == Account("strings", "missing", [p \in Parts |-> "missing"])

Small ==
    \/ /\ accountJson \in {Absent, Garbage, WrongAccount, StarterAccount}
       /\ stateJson \in {Absent, Garbage, Object(AllMissing)}
    \/ accountJson = OldAccount /\ stateJson \in {Absent, Object(AllMissing)}
    \/ accountJson = StarterAccount /\ stateJson \in {OldQueue, Unknown}

MCInit ==
    /\ CheckInit
    /\ IF Small
       THEN /\ checks = 0 /\ ~(dirty /\ knowledge = 0)
            /\ \/ events = 0 /\ changes = MaxChanges
               \/ events = MaxEvents /\ changes = 0 /\ stateJson = Absent
       ELSE /\ checks = MaxChecks /\ events = MaxEvents /\ changes = 0
            /\ recent = {} /\ knowledge = NoName /\ dirty

MCSpec == MCInit /\ [][CheckNext]_allVars
=============================================================================
