------------------------ MODULE PostingSessionProofs ------------------------
(***************************************************************************)
(* Proofs about PostingSession: its inductive invariant, and that it       *)
(* implements PostingLifecycle, for any callers, sessions, cap and bounds; *)
(* and about DraftRuns: its runs are callers of PostingSession, and each   *)
(* judges the draft it wrote.                                              *)
(***************************************************************************)
EXTENDS DraftRuns, TLAPS

LEMMA CapFacts == RepairMaxAttempts \in Nat /\ RepairMaxAttempts > 0
BY ConstantsAssumption DEF ConstantsAssumption

\* Building the records keeps their types.
LEMMA UnjudgedType == \A n \in Nat : Unjudged(n) \in Draft
BY DEF Unjudged, Draft

LEMMA MovedType ==
    ASSUME TypeOK, NEW i \in Ids, NEW state \in PostingState,
           NEW draft \in Draft, NEW drafts \in Nat, NEW error \in ErrorCodes
    PROVE  Moved(i, state, draft, drafts, error) \in Session
<1>1. session[i].expiresAt \in Nat
  BY DEF TypeOK, Session
<1> QED
  BY <1>1 DEF Moved, Session

\* The fields of Moved.
LEMMA MovedFields ==
    ASSUME NEW i, NEW state, NEW draft, NEW drafts, NEW error
    PROVE  /\ Moved(i, state, draft, drafts, error).state = state
           /\ Moved(i, state, draft, drafts, error).draft = draft
BY DEF Moved

LEMMA TargetIsState ==
    ASSUME NEW from, NEW to, CanTransition(from, to)
    PROVE  to \in PostingState
<1>1. from \in PostingState /\ to \in ValidTransitions[from]
  BY DEF CanTransition
<1> QED
  BY <1>1 DEF ValidTransitions, PostingState, Terminal, Active

\* Where the matrix leads, as far as the invariant needs it.
LEMMA MatrixFacts ==
    /\ \A s : CanTransition(s, "scheduled") => s = "awaiting_decision"
    /\ \A s : CanTransition(s, "validating") =>
                 s \notin {"awaiting_decision", "scheduled"} \cup Terminal
    /\ \A s, t : CanTransition(s, t) => s \notin Terminal \cup {"none"}
BY DEF CanTransition, ValidTransitions, PostingState, Terminal, Active

LEMMA FieldTypes ==
    ASSUME TypeOK, NEW i \in Ids
    PROVE  /\ session[i] \in Session
           /\ session[i].state \in PostingState \cup {"none"}
           /\ session[i].draft \in Draft
           /\ session[i].draft.attempts \in Nat
           /\ session[i].drafts \in Nat
           /\ session[i].error \in ErrorCodes
BY DEF TypeOK, Session, Draft

LEMMA CallerTypes ==
    ASSUME TypeOK, NEW c \in Callers
    PROVE  /\ caller[c] \in Caller
           /\ caller[c].draft \in Draft
           /\ caller[c].draft.attempts \in Nat
BY DEF TypeOK, Caller, Draft

LEMMA JudgedType ==
    ASSUME NEW d \in Draft, NEW v \in Verdicts
    PROVE  /\ Judged(d, v) \in Draft
           /\ Judged(d, v).attempts <= d.attempts + 1
           /\ v = "passed" => Judged(d, v).verdict = "passed"
BY DEF Judged, Draft, Verdicts
-----------------------------------------------------------------------------
(* What the two halves of a step do to the invariant.                       *)

\* One session that is replaced by one that satisfies the invariant.
SessionOK(s) ==
    /\ s \in Session
    /\ s.state \in {"awaiting_decision", "scheduled"} => s.draft.verdict = "passed"
    /\ s.draft.attempts <= RepairMaxAttempts
    /\ s.state = "validating" => s.draft.attempts < RepairMaxAttempts

CallerOK(k) ==
    /\ k \in Caller
    /\ k.pc \in {"llm", "judge"} => k.draft.attempts < RepairMaxAttempts
    /\ k.pc # "idle" => k.id \in Ids

LEMMA InvSplits ==
    Inv <=> /\ session \in [Ids -> Session]
            /\ caller \in [Callers -> Caller]
            /\ now \in Times
            /\ \A i \in Ids : SessionOK(session[i])
            /\ \A c \in Callers : CallerOK(caller[c])
BY DEF Inv, TypeOK, OfferedWasApproved, AttemptsCapped, InHandBelowCap,
       BusyCallersHaveSessions, SessionOK, CallerOK

LEMMA InvSplitsPrimed ==
    Inv' <=> /\ session' \in [Ids -> Session]
             /\ caller' \in [Callers -> Caller]
             /\ now' \in Times
             /\ \A i \in Ids : SessionOK(session'[i])
             /\ \A c \in Callers : CallerOK(caller'[c])
BY DEF Inv, TypeOK, OfferedWasApproved, AttemptsCapped, InHandBelowCap,
       BusyCallersHaveSessions, SessionOK, CallerOK

\* One session changes.
LEMMA SessionStep ==
    ASSUME Inv, NEW i \in Ids, NEW s, SessionOK(s),
           session' = [session EXCEPT ![i] = s]
    PROVE  session' \in [Ids -> Session] /\ \A j \in Ids : SessionOK(session'[j])
<1>1. session \in [Ids -> Session] /\ \A j \in Ids : SessionOK(session[j])
  BY InvSplits
<1>2. s \in Session
  BY DEF SessionOK
<1>3. \A j \in Ids : session'[j] = IF j = i THEN s ELSE session[j]
  BY <1>1
<1> QED
  BY <1>1, <1>2, <1>3

\* One caller changes.
LEMMA CallerStepOK ==
    ASSUME Inv, NEW c \in Callers, NEW k, CallerOK(k),
           caller' = [caller EXCEPT ![c] = k]
    PROVE  caller' \in [Callers -> Caller] /\ \A d \in Callers : CallerOK(caller'[d])
<1>1. caller \in [Callers -> Caller] /\ \A d \in Callers : CallerOK(caller[d])
  BY InvSplits
<1>2. k \in Caller
  BY DEF CallerOK
<1>3. \A d \in Callers : caller'[d] = IF d = c THEN k ELSE caller[d]
  BY <1>1
<1> QED
  BY <1>1, <1>2, <1>3

LEMMA GotoOK ==
    ASSUME Inv, NEW c \in Callers, NEW pc \in {"llm", "capped", "judge", "regenerate"},
           NEW i \in Ids, NEW d \in Draft,
           pc \in {"llm", "judge"} => d.attempts < RepairMaxAttempts,
           Goto(c, pc, i, d)
    PROVE  caller' \in [Callers -> Caller] /\ \A e \in Callers : CallerOK(caller'[e])
<1> DEFINE k == [pc |-> pc, id |-> i, draft |-> d]
<1>1. CallerOK(k)
  BY DEF CallerOK, Caller
<1>2. caller' = [caller EXCEPT ![c] = k]
  BY DEF Goto
<1> QED
  BY <1>1, <1>2, CallerStepOK

LEMMA ReturnOK ==
    ASSUME Inv, NEW c \in Callers, Return(c)
    PROVE  caller' \in [Callers -> Caller] /\ \A e \in Callers : CallerOK(caller'[e])
<1>1. CallerOK(Idle)
  BY UnjudgedType DEF Idle, Caller, CallerOK
<1>2. caller' = [caller EXCEPT ![c] = Idle]
  BY DEF Return
<1> QED
  BY <1>1, <1>2, CallerStepOK

LEMMA SameSessions ==
    ASSUME Inv, UNCHANGED session
    PROVE  session' \in [Ids -> Session] /\ \A j \in Ids : SessionOK(session'[j])
BY InvSplits

LEMMA SameCallers ==
    ASSUME Inv, UNCHANGED caller
    PROVE  caller' \in [Callers -> Caller] /\ \A e \in Callers : CallerOK(caller'[e])
BY InvSplits

\* A transition to a state with a draft that fits it.
LEMMA TransitionOK ==
    ASSUME Inv, NEW i \in Ids, NEW state, NEW draft \in Draft, NEW drafts \in Nat,
           NEW error \in ErrorCodes,
           Transition(i, state, draft, drafts, error),
           state \in {"awaiting_decision", "scheduled"} => draft.verdict = "passed",
           draft.attempts <= RepairMaxAttempts,
           state = "validating" => draft.attempts < RepairMaxAttempts
    PROVE  session' \in [Ids -> Session] /\ \A j \in Ids : SessionOK(session'[j])
<1> DEFINE s == Moved(i, state, draft, drafts, error)
<1>1. TypeOK
  BY DEF Inv
<1>2. state \in PostingState
  BY TargetIsState DEF Transition
<1>3. s \in Session
  BY <1>1, <1>2, MovedType
<1>4. SessionOK(s)
  BY <1>3, MovedFields DEF SessionOK
<1>5. session' = [session EXCEPT ![i] = s]
  BY DEF Transition
<1> QED
  BY <1>4, <1>5, SessionStep

\* A step that keeps the draft.
LEMMA StepOK ==
    ASSUME Inv, NEW i \in Ids, NEW state, Step(i, state),
           state \notin {"awaiting_decision", "validating"}
    PROVE  session' \in [Ids -> Session] /\ \A j \in Ids : SessionOK(session'[j])
<1>1. TypeOK
  BY DEF Inv
<1>2. SessionOK(session[i])
  BY InvSplits
<1>3. Transition(i, state, session[i].draft, session[i].drafts, session[i].error)
  BY DEF Step
<1>4. state = "scheduled" => session[i].draft.verdict = "passed"
  BY <1>2, <1>3, MatrixFacts DEF Transition, SessionOK
<1>5. session[i].draft.attempts <= RepairMaxAttempts
  BY <1>2 DEF SessionOK
<1> QED
  BY <1>1, <1>3, <1>4, <1>5, FieldTypes, TransitionOK
-----------------------------------------------------------------------------
(* The actions, one lemma each.                                             *)

LEMMA InitInv == Init => Inv
<1> SUFFICES ASSUME Init PROVE Inv
  OBVIOUS
<1> DEFINE s == [state |-> "none", draft |-> Unjudged(0), drafts |-> 0,
                 expiresAt |-> 0, error |-> ""]
<1>1. Unjudged(0) \in Draft /\ Unjudged(0).attempts = 0
  BY UnjudgedType DEF Unjudged
<1>2. SessionOK(s)
  BY <1>1, CapFacts DEF SessionOK, Session, ErrorCodes
<1>3. session = [i \in Ids |-> s]
  BY DEF Init
<1>4. CallerOK(Idle)
  BY <1>1 DEF CallerOK, Idle, Caller
<1>5. now \in Times
  <2>1. now = 0 /\ MaxTime \in Nat
    BY ConstantsAssumption DEF ConstantsAssumption, Init
  <2> QED
    BY <2>1 DEF Times
<1>6. session \in [Ids -> Session] /\ \A i \in Ids : SessionOK(session[i])
  <2> HIDE DEF s
  <2> QED BY <1>2, <1>3 DEF SessionOK
<1>7. caller \in [Callers -> Caller] /\ \A c \in Callers : CallerOK(caller[c])
  BY <1>4 DEF Init, CallerOK
<1> QED
  BY <1>5, <1>6, <1>7, InvSplits

LEMMA CreateSessionInv ==
    ASSUME Inv, NEW i \in Ids, CreateSession(i)
    PROVE  Inv'
<1> DEFINE s == [state |-> "created", draft |-> Unjudged(0), drafts |-> 0,
                 expiresAt |-> now + Ttl, error |-> ""]
<1>1. now \in Nat /\ Ttl \in Nat
  BY InvSplits, ConstantsAssumption DEF Times, ConstantsAssumption
<1>2. Unjudged(0) \in Draft /\ Unjudged(0).attempts = 0
  BY UnjudgedType DEF Unjudged
<1>3. SessionOK(s)
  BY <1>1, <1>2, CapFacts
     DEF SessionOK, Session, ErrorCodes, PostingState, Active
<1>4. session' = [session EXCEPT ![i] = s]
  BY DEF CreateSession
<1>5. UNCHANGED caller /\ UNCHANGED now
  BY DEF CreateSession
<1>6. session' \in [Ids -> Session] /\ \A j \in Ids : SessionOK(session'[j])
  <2> HIDE DEF s
  <2> QED BY <1>3, <1>4, SessionStep
<1> QED
  BY <1>5, <1>6, SameCallers, InvSplits, InvSplitsPrimed

LEMMA IndexContextInv ==
    ASSUME Inv, NEW i \in Ids, IndexContext(i)
    PROVE  Inv'
<1>1. session' \in [Ids -> Session] /\ \A j \in Ids : SessionOK(session'[j])
  BY StepOK DEF IndexContext
<1>2. UNCHANGED caller /\ UNCHANGED now
  BY DEF IndexContext
<1> QED
  BY <1>1, <1>2, SameCallers, InvSplits, InvSplitsPrimed

LEMMA ApplyDecisionInv ==
    ASSUME Inv, NEW i \in Ids, NEW d \in DOMAIN DecisionTarget, ApplyDecision(i, d)
    PROVE  Inv'
<1>1. DecisionTarget[d] \notin {"awaiting_decision", "validating"}
  BY DEF DecisionTarget
<1>2. session' \in [Ids -> Session] /\ \A j \in Ids : SessionOK(session'[j])
  BY <1>1, StepOK DEF ApplyDecision
<1>3. UNCHANGED caller /\ UNCHANGED now
  BY DEF ApplyDecision
<1> QED
  BY <1>2, <1>3, SameCallers, InvSplits, InvSplitsPrimed

LEMMA NextAttemptFacts ==
    ASSUME Inv, NEW i \in Ids, ~CapExceeded(i)
    PROVE  /\ Unjudged(NextAttempt(i)) \in Draft
           /\ Unjudged(NextAttempt(i)).attempts < RepairMaxAttempts
<1>1. TypeOK
  BY DEF Inv
<1>2. session[i].draft.attempts \in Nat
  BY <1>1, FieldTypes
<1>3. NextAttempt(i) \in Nat /\ NextAttempt(i) < RepairMaxAttempts
  BY <1>2, CapFacts DEF NextAttempt, CapExceeded
<1> QED
  BY <1>3, UnjudgedType DEF Unjudged

LEMMA GenerateBeginInv ==
    ASSUME Inv, NEW c \in Callers, NEW i \in Ids, GenerateBegin(c, i)
    PROVE  Inv'
<1>1. session' \in [Ids -> Session] /\ \A j \in Ids : SessionOK(session'[j])
  BY StepOK DEF GenerateBegin
<1>2. ~CapExceeded(i) /\ Goto(c, "llm", i, Unjudged(NextAttempt(i)))
  BY DEF GenerateBegin
<1>3. caller' \in [Callers -> Caller] /\ \A e \in Callers : CallerOK(caller'[e])
  BY <1>2, NextAttemptFacts, GotoOK
<1>4. UNCHANGED now
  BY DEF GenerateBegin
<1> QED
  BY <1>1, <1>3, <1>4, InvSplits, InvSplitsPrimed

LEMMA GenerateCappedInv ==
    ASSUME Inv, NEW c \in Callers, NEW i \in Ids, GenerateCapped(c, i)
    PROVE  Inv'
<1>1. Goto(c, "capped", i, Unjudged(0)) /\ UNCHANGED session /\ UNCHANGED now
  BY DEF GenerateCapped
<1>2. caller' \in [Callers -> Caller] /\ \A e \in Callers : CallerOK(caller'[e])
  BY <1>1, UnjudgedType, GotoOK
<1> QED
  BY <1>1, <1>2, SameSessions, InvSplits, InvSplitsPrimed

LEMMA CallerFacts ==
    ASSUME Inv, NEW c \in Callers, caller[c].pc # "idle"
    PROVE  /\ caller[c].id \in Ids
           /\ caller[c].draft \in Draft
           /\ caller[c].draft.attempts \in Nat
           /\ caller[c].pc \in {"llm", "judge"}
                 => caller[c].draft.attempts < RepairMaxAttempts
<1>1. TypeOK /\ CallerOK(caller[c])
  BY InvSplits DEF Inv
<1> QED
  BY <1>1, CallerTypes DEF CallerOK

LEMMA GenerateEndInv ==
    ASSUME Inv, NEW c \in Callers, GenerateEnd(c)
    PROVE  Inv'
<1> DEFINE i == caller[c].id
           d == caller[c].draft
<1>1. caller[c].pc = "llm"
  BY DEF GenerateEnd
<1>2. i \in Ids /\ d \in Draft /\ d.attempts \in Nat /\ d.attempts < RepairMaxAttempts
  BY <1>1, CallerFacts
<1>3. TypeOK
  BY DEF Inv
<1>4. session[i].drafts + 1 \in Nat /\ session[i].error \in ErrorCodes
  BY <1>2, <1>3, FieldTypes
<1>5. Transition(i, "validating", d, session[i].drafts + 1, session[i].error)
  BY DEF GenerateEnd
<1>6. session' \in [Ids -> Session] /\ \A j \in Ids : SessionOK(session'[j])
  <2>1. d.attempts <= RepairMaxAttempts
    BY <1>2, CapFacts
  <2>2. "validating" \notin {"awaiting_decision", "scheduled"}
    OBVIOUS
  <2> HIDE DEF i, d
  <2> QED
    BY <1>2, <1>4, <1>5, <2>1, <2>2, TransitionOK
<1>7. Return(c) /\ UNCHANGED now
  BY DEF GenerateEnd
<1> QED
  BY <1>6, <1>7, ReturnOK, InvSplits, InvSplitsPrimed

LEMMA FailTerminalInv ==
    ASSUME Inv, NEW c \in Callers, FailTerminal(c)
    PROVE  Inv'
<1> DEFINE i == caller[c].id
           code == IF caller[c].pc = "capped" THEN "repair_max_attempts_exceeded"
                   ELSE "generate_failed"
           s == Moved(i, "failed_terminal", session[i].draft, session[i].drafts, code)
<1>1. caller[c].pc # "idle"
  BY DEF FailTerminal
<1>2. i \in Ids
  BY <1>1, CallerFacts
<1>3. TypeOK /\ SessionOK(session[i])
  BY <1>2, InvSplits DEF Inv
<1>4. "failed_terminal" \in PostingState /\ code \in ErrorCodes
  BY DEF PostingState, Terminal, ErrorCodes
<1>5. s \in Session
  BY <1>2, <1>3, <1>4, FieldTypes, MovedType
<1>6. SessionOK(s)
  <2>1. s.state = "failed_terminal" /\ s.draft = session[i].draft
    <3> HIDE DEF i, code
    <3> QED BY MovedFields DEF s
  <2> HIDE DEF s
  <2> QED BY <1>3, <1>5, <2>1 DEF SessionOK
<1>7. session' = [session EXCEPT ![i] = s] /\ Return(c) /\ UNCHANGED now
  BY DEF FailTerminal
<1>8. session' \in [Ids -> Session] /\ \A j \in Ids : SessionOK(session'[j])
  <2> HIDE DEF s
  <2> QED BY <1>2, <1>6, <1>7, SessionStep
<1> QED
  BY <1>7, <1>8, ReturnOK, InvSplits, InvSplitsPrimed

LEMMA ValidateBeginInv ==
    ASSUME Inv, NEW c \in Callers, NEW i \in Ids, ValidateBegin(c, i)
    PROVE  Inv'
<1>1. session[i].state = "validating" /\ Goto(c, "judge", i, session[i].draft)
      /\ UNCHANGED session /\ UNCHANGED now
  BY DEF ValidateBegin
<1>2. TypeOK /\ SessionOK(session[i])
  BY InvSplits DEF Inv
<1>3. session[i].draft \in Draft /\ session[i].draft.attempts < RepairMaxAttempts
  BY <1>1, <1>2, FieldTypes DEF SessionOK
<1>4. caller' \in [Callers -> Caller] /\ \A e \in Callers : CallerOK(caller'[e])
  BY <1>1, <1>3, GotoOK
<1> QED
  BY <1>1, <1>4, SameSessions, InvSplits, InvSplitsPrimed

LEMMA ValidateEndInv ==
    ASSUME Inv, NEW c \in Callers, NEW v \in Verdicts, ValidateEnd(c, v)
    PROVE  Inv'
<1> DEFINE i == caller[c].id
           d == caller[c].draft
           to == IF v = "passed" THEN "awaiting_decision" ELSE "repairing"
<1>1. caller[c].pc = "judge"
  BY DEF ValidateEnd
<1>2. i \in Ids /\ d \in Draft /\ d.attempts \in Nat /\ d.attempts < RepairMaxAttempts
  BY <1>1, CallerFacts
<1>3. Judged(d, v) \in Draft /\ Judged(d, v).attempts <= d.attempts + 1
      /\ (v = "passed" => Judged(d, v).verdict = "passed")
  BY <1>2, JudgedType
<1>4. Judged(d, v).attempts <= RepairMaxAttempts
  <2>1. Judged(d, v).attempts \in Nat
    BY <1>3 DEF Draft
  <2> QED
    BY <1>2, <1>3, <2>1, CapFacts
<1>5. session[i].drafts \in Nat /\ session[i].error \in ErrorCodes
  BY <1>2, FieldTypes DEF Inv
<1>6. Transition(i, to, Judged(d, v), session[i].drafts, session[i].error)
  BY DEF ValidateEnd
<1>7. to \in {"awaiting_decision", "scheduled"} => v = "passed"
  OBVIOUS
<1>8. to # "validating"
  OBVIOUS
<1>9. session' \in [Ids -> Session] /\ \A j \in Ids : SessionOK(session'[j])
  <2> HIDE DEF to
  <2> QED
    BY <1>2, <1>3, <1>4, <1>5, <1>6, <1>7, <1>8, TransitionOK
<1>10. caller' \in [Callers -> Caller] /\ \A e \in Callers : CallerOK(caller'[e])
  <2>1. CASE v = "retryable"
    <3>1. Goto(c, "regenerate", i, Unjudged(0))
      BY <2>1 DEF ValidateEnd
    <3> QED
      BY <1>2, <3>1, UnjudgedType, GotoOK
  <2>2. CASE v # "retryable"
    <3>1. Return(c)
      BY <2>2 DEF ValidateEnd
    <3> QED
      BY <3>1, ReturnOK
  <2> QED
    BY <2>1, <2>2
<1>11. UNCHANGED now
  BY DEF ValidateEnd
<1> QED
  BY <1>9, <1>10, <1>11, InvSplits, InvSplitsPrimed

LEMMA GiveUpInv ==
    ASSUME Inv, NEW c \in Callers, GiveUp(c)
    PROVE  Inv'
<1>1. Return(c) /\ UNCHANGED session /\ UNCHANGED now
  BY DEF GiveUp
<1> QED
  BY <1>1, ReturnOK, SameSessions, InvSplits, InvSplitsPrimed

LEMMA ExpireInv ==
    ASSUME Inv, ExpireStaleSessions
    PROVE  Inv'
<1>1. TypeOK /\ UNCHANGED caller /\ UNCHANGED now
  BY DEF Inv, ExpireStaleSessions
<1>2. "expired" \in PostingState
  BY DEF PostingState, Terminal
<1>3. \A i \in Ids : SessionOK(session'[i])
  <2> TAKE i \in Ids
  <2> DEFINE s == Moved(i, "expired", session[i].draft, session[i].drafts,
                        session[i].error)
  <2>1. SessionOK(session[i])
    BY InvSplits
  <2>2. s \in Session
    BY <1>1, <1>2, FieldTypes, MovedType
  <2>3. SessionOK(s)
    BY <2>1, <2>2, MovedFields DEF SessionOK
  <2>4. session'[i] = s \/ session'[i] = session[i]
    BY DEF ExpireStaleSessions
  <2> QED
    BY <2>1, <2>3, <2>4
<1>4. session' \in [Ids -> Session]
  <2>1. \A i \in Ids : session'[i] \in Session
    BY <1>3 DEF SessionOK
  <2>2. session' = [i \in Ids |-> session'[i]]
    BY DEF ExpireStaleSessions
  <2> QED
    BY <2>1, <2>2
<1> QED
  BY <1>1, <1>3, <1>4, SameCallers, InvSplits, InvSplitsPrimed

LEMMA TickInv ==
    ASSUME Inv, Tick
    PROVE  Inv'
<1>1. now' \in Times /\ UNCHANGED session /\ UNCHANGED caller
  BY InvSplits, ConstantsAssumption DEF Tick, Times, ConstantsAssumption
<1> QED
  BY <1>1, SameSessions, SameCallers, InvSplitsPrimed

LEMMA NextInv ==
    ASSUME Inv, [Next]_vars
    PROVE  Inv'
<1>1. ASSUME NEW i \in Ids, CreateSession(i) PROVE Inv'
  BY <1>1, CreateSessionInv
<1>2. ASSUME NEW i \in Ids, IndexContext(i) PROVE Inv'
  BY <1>2, IndexContextInv
<1>3. ASSUME NEW i \in Ids, NEW d \in DOMAIN DecisionTarget, ApplyDecision(i, d)
      PROVE  Inv'
  BY <1>3, ApplyDecisionInv
<1>4. ASSUME NEW c \in Callers, CallerStep(c) PROVE Inv'
  <2>1. ASSUME NEW i \in Ids, GenerateBegin(c, i) PROVE Inv'
    BY <2>1, GenerateBeginInv
  <2>2. ASSUME NEW i \in Ids, GenerateCapped(c, i) PROVE Inv'
    BY <2>2, GenerateCappedInv
  <2>3. ASSUME NEW i \in Ids, ValidateBegin(c, i) PROVE Inv'
    BY <2>3, ValidateBeginInv
  <2>4. CASE GenerateEnd(c)
    BY <2>4, GenerateEndInv
  <2>5. CASE FailTerminal(c)
    BY <2>5, FailTerminalInv
  <2>6. ASSUME NEW v \in Verdicts, ValidateEnd(c, v) PROVE Inv'
    BY <2>6, ValidateEndInv
  <2>7. CASE GiveUp(c)
    BY <2>7, GiveUpInv
  <2> QED
    BY <1>4, <2>1, <2>2, <2>3, <2>4, <2>5, <2>6, <2>7 DEF CallerStep
<1>5. CASE ExpireStaleSessions
  BY <1>5, ExpireInv
<1>6. CASE Tick
  BY <1>6, TickInv
<1>7. CASE UNCHANGED vars
  BY <1>7, SameSessions, SameCallers, InvSplits, InvSplitsPrimed DEF vars
<1> QED
  BY <1>1, <1>2, <1>3, <1>4, <1>5, <1>6, <1>7 DEF Next

\* The inductive invariant holds: whatever calls overlap, the counters in the
\* callers' hands and in the sessions stay below the cap, and a verdict never
\* makes an unapproved draft look approved.
THEOREM SessionInvariance == Spec => []Inv
<1>1. Init => Inv
  BY InitInv
<1>2. Inv /\ [Next]_vars => Inv'
  BY NextInv
<1> QED
  BY <1>1, <1>2, PTL DEF Spec

\* The sessions and the callers keep their types.
THEOREM SessionTypes == Spec => []TypeOK
<1>1. Inv => TypeOK
  BY DEF Inv
<1> QED
  BY <1>1, SessionInvariance, PTL

\* The judge is a hard gate: what is offered or scheduled has passed it.
THEOREM GateIsHard == Spec => []OfferedWasApproved
<1>1. Inv => OfferedWasApproved
  BY DEF Inv
<1> QED
  BY <1>1, SessionInvariance, PTL

\* The repair counter never exceeds the cap.
THEOREM RepairsCapped == Spec => []AttemptsCapped
<1>1. Inv => AttemptsCapped
  BY DEF Inv
<1> QED
  BY <1>1, SessionInvariance, PTL
-----------------------------------------------------------------------------
(* PostingSession implements PostingLifecycle.                              *)

phases == [i \in Ids |-> session[i].state]
approvals == [i \in Ids |-> session[i].draft.verdict = "passed"]

LEMMA SameMatrix ==
    /\ Lifecycle!PostingState = PostingState
    /\ Lifecycle!Terminal = Terminal
    /\ \A s, t : Lifecycle!CanTransition(s, t) <=> CanTransition(s, t)
BY DEF Lifecycle!PostingState, Lifecycle!Terminal, Lifecycle!Active,
       Lifecycle!CanTransition, Lifecycle!ValidTransitions,
       PostingState, Terminal, Active, CanTransition, ValidTransitions

LEMMA LifecycleInit == Init => Lifecycle!Init
<1> SUFFICES ASSUME Init PROVE Lifecycle!Init
  OBVIOUS
<1>1. \A i \in Ids : session[i].state = "none"
  BY DEF Init
<1>2. \A i \in Ids : (session[i].draft.verdict = "passed") = FALSE
  BY DEF Init, Unjudged
<1> QED
  BY <1>1, <1>2 DEF Lifecycle!Init

\* What replacing one session does to the mapped variables.
LEMMA MappedStep ==
    ASSUME TypeOK, NEW i \in Ids, NEW s, session' = [session EXCEPT ![i] = s]
    PROVE  /\ phases' = [phases EXCEPT ![i] = s.state]
           /\ approvals' = [approvals EXCEPT ![i] = (s.draft.verdict = "passed")]
<1>1. \A j \in Ids : session'[j] = IF j = i THEN s ELSE session[j]
  BY DEF TypeOK
<1>2. \A j \in Ids : session'[j].state = IF j = i THEN s.state ELSE session[j].state
  BY <1>1
<1>3. \A j \in Ids : (session'[j].draft.verdict = "passed")
         = IF j = i THEN s.draft.verdict = "passed"
           ELSE session[j].draft.verdict = "passed"
  BY <1>1
<1> QED
  BY <1>2, <1>3 DEF phases, approvals

\* A transition of the machine is work, an offer or a scheduling.
LEMMA TransitionMaps ==
    ASSUME Inv, NEW i \in Ids, NEW state, NEW draft, NEW drafts, NEW error,
           Transition(i, state, draft, drafts, error),
           state # "published",
           state = "awaiting_decision" => draft.verdict = "passed",
           state = "scheduled" => draft = session[i].draft
    PROVE  Lifecycle!Next
<1> DEFINE s == Moved(i, state, draft, drafts, error)
<1>1. TypeOK
  BY DEF Inv
<1>2. /\ phases' = [phases EXCEPT ![i] = state]
      /\ approvals' = [approvals EXCEPT ![i] = (draft.verdict = "passed")]
  <2>1. session' = [session EXCEPT ![i] = s]
    BY DEF Transition
  <2>2. s.state = state /\ s.draft = draft
    BY MovedFields
  <2> HIDE DEF s
  <2>3. /\ phases' = [phases EXCEPT ![i] = s.state]
        /\ approvals' = [approvals EXCEPT ![i] = (s.draft.verdict = "passed")]
    BY <1>1, <2>1, MappedStep
  <2> QED
    BY <2>2, <2>3
<1>3. CanTransition(phases[i], state) /\ state \in PostingState
  BY TargetIsState DEF Transition, phases
<1>4. CASE state = "awaiting_decision"
  <2>1. (draft.verdict = "passed") = TRUE
    BY <1>4
  <2>2. Lifecycle!Offer(i)
    BY <1>2, <1>3, <1>4, <2>1, SameMatrix DEF Lifecycle!Offer, phases, approvals
  <2> QED
    BY <2>2 DEF Lifecycle!Next
<1>5. CASE state = "scheduled"
  <2>1. approvals' = approvals
    <3>1. approvals[i] = (draft.verdict = "passed")
      BY <1>5 DEF approvals
    <3>2. approvals = [approvals EXCEPT ![i] = approvals[i]]
      BY DEF approvals
    <3> QED
      BY <1>2, <3>1, <3>2
  <2>2. Lifecycle!Schedule(i)
    BY <1>2, <1>3, <1>5, <2>1, SameMatrix DEF Lifecycle!Schedule, phases, approvals
  <2> QED
    BY <2>2 DEF Lifecycle!Next
<1>6. CASE state \notin {"awaiting_decision", "scheduled"}
  <2>1. (draft.verdict = "passed") \in BOOLEAN
    OBVIOUS
  <2>2. Lifecycle!Work(i, state)
    BY <1>2, <1>3, <1>6, <2>1, SameMatrix DEF Lifecycle!Work, phases, approvals
  <2> QED
    BY <1>3, <2>2, SameMatrix DEF Lifecycle!Next
<1> QED
  BY <1>4, <1>5, <1>6

\* The same for a step that keeps the draft and makes no offer.
LEMMA StepMaps ==
    ASSUME Inv, NEW i \in Ids, NEW state, Step(i, state),
           state \notin {"published", "awaiting_decision"}
    PROVE  Lifecycle!Next
BY TransitionMaps DEF Step

mapped == <<phases, approvals>>

LEMMA SameMaps ==
    ASSUME UNCHANGED session
    PROVE  UNCHANGED mapped
BY DEF mapped, phases, approvals

LEMMA CreateMaps ==
    ASSUME Inv, NEW i \in Ids, CreateSession(i)
    PROVE  Lifecycle!Next
<1> DEFINE s == [state |-> "created", draft |-> Unjudged(0), drafts |-> 0,
                 expiresAt |-> now + Ttl, error |-> ""]
<1>1. TypeOK /\ session[i].state = "none" /\ session' = [session EXCEPT ![i] = s]
  BY DEF Inv, CreateSession
<1>2. s.state = "created" /\ s.draft.verdict = "none"
  BY DEF Unjudged
<1>3. /\ phases' = [phases EXCEPT ![i] = s.state]
      /\ approvals' = [approvals EXCEPT ![i] = (s.draft.verdict = "passed")]
  <2> HIDE DEF s
  <2> QED BY <1>1, MappedStep
<1>4. approvals' = [approvals EXCEPT ![i] = FALSE]
  <2>1. (s.draft.verdict = "passed") = FALSE
    BY <1>2
  <2> QED
    BY <1>3, <2>1
<1>5. phases[i] = "none"
  BY <1>1 DEF phases
<1>6. phases' = [phases EXCEPT ![i] = "created"]
  BY <1>2, <1>3
<1>7. Lifecycle!Open(i)
  BY <1>4, <1>5, <1>6 DEF Lifecycle!Open, phases, approvals
<1> QED
  BY <1>7 DEF Lifecycle!Next

LEMMA FailMaps ==
    ASSUME Inv, NEW c \in Callers, FailTerminal(c)
    PROVE  Lifecycle!Next \/ UNCHANGED mapped
<1> DEFINE i == caller[c].id
           code == IF caller[c].pc = "capped" THEN "repair_max_attempts_exceeded"
                   ELSE "generate_failed"
<1>1. i \in Ids
  BY CallerFacts DEF FailTerminal
<1>2. session' = [session EXCEPT ![i] = Moved(i, "failed_terminal",
                     session[i].draft, session[i].drafts, code)]
  BY DEF FailTerminal
<1>3. CASE CanTransition(session[i].state, "failed_terminal")
  <2>1. Transition(i, "failed_terminal", session[i].draft, session[i].drafts, code)
    BY <1>2, <1>3 DEF Transition
  <2> QED
    BY <1>1, <2>1, TransitionMaps
<1>4. CASE session[i].state = "failed_terminal"
  <2> DEFINE s == Moved(i, "failed_terminal", session[i].draft,
                        session[i].drafts, code)
  <2>1. TypeOK
    BY DEF Inv
  <2>2. s.state = session[i].state /\ s.draft = session[i].draft
    BY <1>4, MovedFields
  <2>3. session' = [session EXCEPT ![i] = s]
    BY <1>2
  <2> HIDE DEF s
  <2>4. \A j \in Ids : /\ session'[j].state = session[j].state
                      /\ session'[j].draft = session[j].draft
    BY <2>1, <2>2, <2>3 DEF TypeOK
  <2> QED
    BY <2>4 DEF mapped, phases, approvals
<1> QED
  BY <1>3, <1>4 DEF FailTerminal

LEMMA ExpireMaps ==
    ASSUME Inv, ExpireStaleSessions
    PROVE  Lifecycle!Next
<1> DEFINE S == {i \in Ids : Overdue(i)}
<1>1. \A i \in S : phases[i] \notin Terminal \cup {"none"}
  BY DEF Overdue, phases
<1>2. \A i \in Ids : session'[i].state = IF i \in S THEN "expired" ELSE session[i].state
  BY MovedFields DEF ExpireStaleSessions
<1>3. \A i \in Ids : session'[i].draft = session[i].draft
  BY MovedFields DEF ExpireStaleSessions
<1>4. phases' = [i \in Ids |-> IF i \in S THEN "expired" ELSE phases[i]]
  BY <1>2 DEF phases
<1>5. approvals' = approvals
  BY <1>3 DEF approvals
<1>6. S \in SUBSET Ids
  OBVIOUS
<1>7. \E T \in SUBSET Ids : Lifecycle!Expire(T)
  <2> HIDE DEF S
  <2> QED
    BY <1>1, <1>4, <1>5, <1>6, SameMatrix DEF Lifecycle!Expire, phases, approvals
<1> QED
  BY <1>7 DEF Lifecycle!Next

LEMMA NextMaps ==
    ASSUME Inv, [Next]_vars
    PROVE  Lifecycle!Next \/ UNCHANGED mapped
<1>1. ASSUME NEW i \in Ids, CreateSession(i) PROVE Lifecycle!Next
  BY <1>1, CreateMaps
<1>2. ASSUME NEW i \in Ids, IndexContext(i) PROVE Lifecycle!Next
  BY <1>2, StepMaps DEF IndexContext
<1>3. ASSUME NEW i \in Ids, NEW d \in DOMAIN DecisionTarget, ApplyDecision(i, d)
      PROVE  Lifecycle!Next
  <2>1. DecisionTarget[d] \notin {"published", "awaiting_decision"}
    BY DEF DecisionTarget
  <2> QED
    BY <1>3, <2>1, StepMaps DEF ApplyDecision
<1>4. ASSUME NEW c \in Callers, CallerStep(c)
      PROVE  Lifecycle!Next \/ UNCHANGED mapped
  <2>1. ASSUME NEW i \in Ids, GenerateBegin(c, i) PROVE Lifecycle!Next
    BY <2>1, StepMaps DEF GenerateBegin
  <2>2. ASSUME NEW i \in Ids, GenerateCapped(c, i) PROVE UNCHANGED mapped
    BY <2>2, SameMaps DEF GenerateCapped
  <2>3. ASSUME NEW i \in Ids, ValidateBegin(c, i) PROVE UNCHANGED mapped
    BY <2>3, SameMaps DEF ValidateBegin
  <2>4. CASE GenerateEnd(c)
    <3>1. caller[c].id \in Ids
      BY <2>4, CallerFacts DEF GenerateEnd
    <3> QED
      BY <2>4, <3>1, TransitionMaps DEF GenerateEnd
  <2>5. CASE FailTerminal(c)
    BY <2>5, FailMaps
  <2>6. ASSUME NEW v \in Verdicts, ValidateEnd(c, v) PROVE Lifecycle!Next
    <3>1. caller[c].id \in Ids /\ caller[c].draft \in Draft
      BY <2>6, CallerFacts DEF ValidateEnd
    <3>2. v = "passed" => Judged(caller[c].draft, v).verdict = "passed"
      BY <3>1, JudgedType
    <3> DEFINE to == IF v = "passed" THEN "awaiting_decision" ELSE "repairing"
    <3>3. Transition(caller[c].id, to, Judged(caller[c].draft, v),
                     session[caller[c].id].drafts, session[caller[c].id].error)
      BY <2>6 DEF ValidateEnd
    <3>4. to \notin {"published", "scheduled"} /\ (to = "awaiting_decision" => v = "passed")
      OBVIOUS
    <3> HIDE DEF to
    <3> QED
      BY <3>1, <3>2, <3>3, <3>4, TransitionMaps
  <2>7. CASE GiveUp(c)
    BY <2>7, SameMaps DEF GiveUp
  <2> QED
    BY <1>4, <2>1, <2>2, <2>3, <2>4, <2>5, <2>6, <2>7 DEF CallerStep
<1>5. CASE ExpireStaleSessions
  BY <1>5, ExpireMaps
<1>6. CASE Tick
  BY <1>6, SameMaps DEF Tick
<1>7. CASE UNCHANGED vars
  BY <1>7, SameMaps DEF vars
<1> QED
  BY <1>1, <1>2, <1>3, <1>4, <1>5, <1>6, <1>7 DEF Next

\* Whatever calls overlap, sessions follow the transition matrix or expire,
\* and only approved drafts are offered (states.ts:55-73).
THEOREM MachineImplementsLifecycle == Spec => Implements
<1>1. Init => Lifecycle!Init
  BY LifecycleInit
<1>2. Inv /\ [Next]_vars => [Lifecycle!Next]_mapped
  BY NextMaps
<1>3. Inv /\ [Next]_vars =>
         [Lifecycle!Next]_<<[i \in Ids |-> session[i].state],
                            [i \in Ids |-> session[i].draft.verdict = "passed"]>>
  BY <1>2 DEF mapped, phases, approvals
<1> QED
  BY <1>1, <1>3, SessionInvariance, PTL DEF Spec, Implements, Lifecycle!Spec
-----------------------------------------------------------------------------
(* The runs of DraftRuns: they only make calls of the state machine, so all *)
(* of the above holds of them; and each judges the draft it wrote.          *)

HasSession(d) == run[d].pc \notin {"idle", "create"}

\* The session of a run exists and is no other run's.
OwnSession ==
    /\ \A d \in Callers : HasSession(d) =>
          run[d].id \in Ids /\ session[run[d].id].state # "none"
    /\ \A d, e \in Callers : d # e /\ HasSession(d) /\ HasSession(e) => run[d].id # run[e].id

\* A caller within an operation is in one its run has called, on its session.
CallOfRun ==
    \A d \in Callers :
        /\ caller[d].pc = "idle" => caller[d] = Idle
        /\ caller[d].pc # "idle" => run[d].pc \in {"generate", "validate"}
                                    /\ caller[d].id = run[d].id
        /\ caller[d].pc \in {"judge", "regenerate"} => run[d].pc = "validate"

RunInv == TypeRuns /\ OwnSession /\ CallOfRun /\ VerdictIsOnCurrentDraft

\* What holds of a run r that is in the call k on a session that is s.
RunOK(r, k, s) ==
    /\ k.pc = "idle" => k = Idle
    /\ k.pc # "idle" => r.pc \in {"generate", "validate"} /\ k.id = r.id
    /\ k.pc \in {"judge", "regenerate"} => r.pc = "validate"
    /\ k.pc = "judge" => s.state = "validating" /\ s.draft = k.draft

\* One run goes on and writes one session: its own, or one that was not there.
LEMMA RunWrites ==
    ASSUME RunInv, NEW d \in Callers, NEW i \in Ids, NEW r, NEW k, NEW s,
           session' = [session EXCEPT ![i] = s], s.state # "none",
           caller' = [caller EXCEPT ![d] = k], run' = [run EXCEPT ![d] = r],
           (HasSession(d) /\ i = run[d].id) \/ session[i].state = "none",
           r.pc \notin {"idle", "create"} => r.id = i,
           RunOK(r, k, s)
    PROVE  OwnSession' /\ CallOfRun' /\ VerdictIsOnCurrentDraft'
<1>1. /\ session \in [Ids -> Session] /\ caller \in [Callers -> Caller]
      /\ DOMAIN run = Callers
  BY DEF RunInv, TypeRuns, TypeOK
<1>2. \A j \in Ids : session'[j] = IF j = i THEN s ELSE session[j]
  BY <1>1
<1>3. \A e \in Callers : caller'[e] = IF e = d THEN k ELSE caller[e]
  BY <1>1
<1>4. \A e \in Callers : run'[e] = IF e = d THEN r ELSE run[e]
  BY <1>1
<1>5. \A e \in Callers : e # d /\ HasSession(e) => run[e].id \in Ids /\ run[e].id # i
  BY DEF RunInv, OwnSession
<1>6. OwnSession'
  <2>1. \A e \in Callers : HasSession(e)' =>
           /\ run'[e].id \in Ids /\ session'[run'[e].id].state # "none"
           /\ e = d => run'[e].id = i
           /\ e # d => HasSession(e) /\ run'[e].id = run[e].id
    BY <1>2, <1>4, <1>5 DEF HasSession, RunInv, OwnSession
  <2> QED
    BY <2>1, <1>5 DEF OwnSession, RunInv
<1>7. CallOfRun'
  BY <1>3, <1>4 DEF CallOfRun, RunInv, RunOK
<1>8. VerdictIsOnCurrentDraft'
  <2> SUFFICES ASSUME NEW e \in Callers, caller'[e].pc = "judge"
               PROVE  /\ session'[caller'[e].id].state = "validating"
                      /\ session'[caller'[e].id].draft = caller'[e].draft
    BY DEF VerdictIsOnCurrentDraft
  <2>1. CASE e = d
    BY <2>1, <1>2, <1>3 DEF RunOK
  <2>2. CASE e # d
    <3>1. caller'[e] = caller[e] /\ run[e].pc = "validate" /\ caller[e].id = run[e].id
      BY <2>2, <1>3 DEF RunInv, CallOfRun
    <3>2. caller[e].id \in Ids /\ caller[e].id # i
      BY <3>1, <2>2, <1>5 DEF HasSession
    <3> QED
      BY <3>1, <3>2, <1>2 DEF RunInv, VerdictIsOnCurrentDraft
  <2> QED
    BY <2>1, <2>2
<1> QED
  BY <1>6, <1>7, <1>8

\* One run goes on and writes nothing.
LEMMA RunReads ==
    ASSUME RunInv, NEW d \in Callers, NEW r, NEW k, UNCHANGED session,
           caller' = [caller EXCEPT ![d] = k], run' = [run EXCEPT ![d] = r],
           r.pc \notin {"idle", "create"} => HasSession(d) /\ r.id = run[d].id,
           k.pc # "idle" => HasSession(d),
           RunOK(r, k, session[run[d].id])
    PROVE  OwnSession' /\ CallOfRun' /\ VerdictIsOnCurrentDraft'
<1>1. DOMAIN caller = Callers /\ DOMAIN run = Callers
  BY DEF RunInv, TypeRuns, TypeOK
<1>2. \A e \in Callers : /\ caller'[e] = IF e = d THEN k ELSE caller[e]
                         /\ run'[e] = IF e = d THEN r ELSE run[e]
  BY <1>1
<1>3. OwnSession'
  BY <1>2 DEF OwnSession, RunInv, HasSession
<1>4. CallOfRun'
  BY <1>2 DEF CallOfRun, RunInv, RunOK
<1>5. VerdictIsOnCurrentDraft'
  BY <1>2 DEF VerdictIsOnCurrentDraft, RunInv, RunOK
<1> QED
  BY <1>3, <1>4, <1>5

LEMMA RunTypes ==
    ASSUME TypeRuns, NEW d \in Callers
    PROVE  /\ session \in [Ids -> Session] /\ caller \in [Callers -> Caller]
           /\ run \in [Callers -> [pc : RunPc, id : Ids \cup {NoId}]]
           /\ runs \in 0..MaxRuns
           /\ run[d] \in [pc : RunPc, id : Ids \cup {NoId}]
           /\ caller[d] \in Caller
BY DEF TypeRuns, TypeOK


LEMMA ContinueSets ==
    ASSUME TypeRuns, NEW d \in Callers, NEW pc, Continue(d, pc)
    PROVE  run' = [run EXCEPT ![d] = [pc |-> pc, id |-> run[d].id]] /\ runs' = runs
<1>1. run[d] \in [pc : RunPc, id : Ids \cup {NoId}] /\ DOMAIN run = Callers
  BY RunTypes
<1>2. [run[d] EXCEPT !.pc = pc] = [pc |-> pc, id |-> run[d].id]
  BY <1>1
<1> QED
  BY <1>2 DEF Continue

\* A run in one of these places has a session.
LEMMA RunFacts ==
    ASSUME RunInv, NEW d \in Callers,
           run[d].pc \in {"index", "generate", "validate", "approve"} \/ caller[d].pc # "idle"
    PROVE  /\ HasSession(d) /\ run[d].id \in Ids /\ session[run[d].id].state # "none"
           /\ caller[d].pc # "idle" => caller[d].id = run[d].id
BY DEF RunInv, OwnSession, CallOfRun, HasSession

\* Every step of a run is a call of the state machine, or none of its business.
LEMMA RunStepIsCall ==
    ASSUME RunInv, NEW d \in Callers, RunStep(d)
    PROVE  Next
<1>1. ASSUME NEW i \in Ids, Create(d, i) PROVE Next
  BY <1>1 DEF Create, Next
<1>2. CASE Index(d)
  BY <1>2, RunFacts DEF Index, At, Next
<1>3. CASE Generate(d)
  <2>1. run[d].id \in Ids
    BY <1>3, RunFacts DEF Generate, At
  <2>2. CallerStep(d)
    BY <1>3, <2>1 DEF Generate, CallerStep
  <2> QED
    BY <2>2 DEF Next
<1>4. CASE Generated(d)
  BY <1>4 DEF Generated, CallerStep, Next
<1>5. CASE GenerateFails(d)
  BY <1>5 DEF GenerateFails, CallerStep, Next
<1>6. CASE Validate(d)
  <2>1. run[d].id \in Ids
    BY <1>6, RunFacts DEF Validate, At
  <2>2. CallerStep(d)
    BY <1>6, <2>1 DEF Validate, CallerStep
  <2> QED
    BY <2>2 DEF Next
<1>7. ASSUME NEW v \in Verdicts, Validated(d, v) PROVE Next
  BY <1>7 DEF Validated, CallerStep, Next
<1>8. CASE Approve(d)
  <2>1. run[d].id \in Ids
    BY <1>8, RunFacts DEF Approve, At
  <2>2. "schedule" \in DOMAIN DecisionTarget
    BY DEF DecisionTarget
  <2> QED
    BY <1>8, <2>1, <2>2 DEF Approve, Next
<1> QED
  BY <1>1, <1>2, <1>3, <1>4, <1>5, <1>6, <1>7, <1>8 DEF RunStep

LEMMA RunsAreCalls ==
    ASSUME RunInv, [NextRuns]_allVars
    PROVE  [Next]_vars
<1>1. ASSUME NEW d \in Callers, Start(d) PROVE UNCHANGED vars
  BY <1>1 DEF Start
<1>2. ASSUME NEW d \in Callers, RunStep(d) PROVE Next
  BY <1>2, RunStepIsCall
<1>3. ASSUME NEW d \in Callers, RunDies(d) PROVE Next \/ UNCHANGED vars
  <2>1. CASE caller[d].pc = "idle"
    <3>1. caller[d] = Idle /\ caller \in [Callers -> Caller]
      BY <2>1, RunTypes DEF RunInv, CallOfRun
    <3>2. [caller EXCEPT ![d] = Idle] = caller
      BY <3>1
    <3> QED
      BY <1>3, <3>2 DEF RunDies, Return, vars
  <2>2. CASE caller[d].pc # "idle"
    <3>1. GiveUp(d)
      BY <1>3, <2>2 DEF RunDies, GiveUp
    <3> QED
      BY <3>1 DEF CallerStep, Next
  <2> QED
    BY <2>1, <2>2
<1>4. CASE Tick
  BY <1>4 DEF Next
<1>5. CASE UNCHANGED allVars
  BY <1>5 DEF allVars
<1> QED
  BY <1>1, <1>2, <1>3, <1>4, <1>5 DEF NextRuns

LEMMA Unmoved ==
    ASSUME TypeRuns, NEW d \in Callers
    PROVE  /\ UNCHANGED caller => caller' = [caller EXCEPT ![d] = caller[d]]
           /\ UNCHANGED run => run' = [run EXCEPT ![d] = run[d]]
BY RunTypes

\* Between two calls a caller is idle.
LEMMA IdleBetween ==
    ASSUME RunInv, NEW d \in Callers, run[d].pc \notin {"generate", "validate"}
    PROVE  caller[d] = Idle
BY DEF RunInv, CallOfRun

LEMMA StartKeeps ==
    ASSUME RunInv, NEW d \in Callers, Start(d)
    PROVE  OwnSession' /\ CallOfRun' /\ VerdictIsOnCurrentDraft'
<1> DEFINE r == [pc |-> "create", id |-> run[d].id]
<1>1. run[d].pc = "idle" /\ UNCHANGED <<session, caller>>
  BY DEF Start, At, vars
<1>2. run' = [run EXCEPT ![d] = r]
  <2>1. run[d] \in [pc : RunPc, id : Ids \cup {NoId}]
    BY RunTypes DEF RunInv
  <2>2. [run[d] EXCEPT !.pc = "create"] = r
    BY <2>1
  <2> QED
    BY <2>2 DEF Start
<1>3. caller[d] = Idle /\ caller' = [caller EXCEPT ![d] = caller[d]]
  BY <1>1, IdleBetween, Unmoved DEF RunInv
<1>4. RunOK(r, caller[d], session[run[d].id])
  BY <1>3 DEF RunOK, Idle
<1>5. caller[d].pc = "idle"
  BY <1>3 DEF Idle
<1> QED
  BY <1>1, <1>2, <1>3, <1>4, <1>5, RunReads

LEMMA CreateKeeps ==
    ASSUME RunInv, NEW d \in Callers, NEW i \in Ids, Create(d, i)
    PROVE  OwnSession' /\ CallOfRun' /\ VerdictIsOnCurrentDraft'
<1> DEFINE r == [pc |-> "index", id |-> i]
           s == [state |-> "created", draft |-> Unjudged(0), drafts |-> 0,
                 expiresAt |-> now + Ttl, error |-> ""]
<1>1. /\ run[d].pc = "create" /\ session[i].state = "none"
      /\ session' = [session EXCEPT ![i] = s] /\ run' = [run EXCEPT ![d] = r]
      /\ UNCHANGED caller
  BY DEF Create, CreateSession, At
<1>2. caller[d] = Idle /\ caller' = [caller EXCEPT ![d] = caller[d]]
  BY <1>1, IdleBetween, Unmoved DEF RunInv
<1>3. RunOK(r, caller[d], s)
  BY <1>2 DEF RunOK, Idle
<1>4. s.state # "none" /\ r.id = i
  OBVIOUS
<1> HIDE DEF r, s
<1> QED
  BY <1>1, <1>2, <1>3, <1>4, RunWrites

\* A transition of the session of a run.
LEMMA TransitionWrites ==
    ASSUME RunInv, NEW d \in Callers, HasSession(d), NEW state \in PostingState, NEW draft,
           NEW drafts, NEW error, NEW r, NEW k,
           session' = [session EXCEPT ![run[d].id] =
                          Moved(run[d].id, state, draft, drafts, error)],
           caller' = [caller EXCEPT ![d] = k], run' = [run EXCEPT ![d] = r],
           r.pc \notin {"idle", "create"} => r.id = run[d].id,
           k.pc = "idle" => k = Idle,
           k.pc # "idle" => r.pc \in {"generate", "validate"} /\ k.id = r.id,
           k.pc = "regenerate" => r.pc = "validate",
           k.pc # "judge"
    PROVE  OwnSession' /\ CallOfRun' /\ VerdictIsOnCurrentDraft'
<1> DEFINE s == Moved(run[d].id, state, draft, drafts, error)
<1>1. s.state # "none"
  BY MovedFields DEF PostingState, Terminal, Active
<1>2. run[d].id \in Ids
  BY DEF RunInv, OwnSession
<1>3. RunOK(r, k, s)
  BY DEF RunOK
<1>4. session' = [session EXCEPT ![run[d].id] = s]
  OBVIOUS
<1> HIDE DEF s
<1> QED
  BY <1>1, <1>2, <1>3, <1>4, RunWrites

LEMMA IndexKeeps ==
    ASSUME RunInv, NEW d \in Callers, Index(d)
    PROVE  OwnSession' /\ CallOfRun' /\ VerdictIsOnCurrentDraft'
<1> DEFINE i == run[d].id
           r == [pc |-> "generate", id |-> i]
<1>1. run[d].pc = "index" /\ IndexContext(i) /\ Continue(d, "generate")
  BY DEF Index, At
<1>2. HasSession(d)
  BY <1>1 DEF HasSession
<1>3. caller[d] = Idle /\ caller' = [caller EXCEPT ![d] = caller[d]]
  BY <1>1, IdleBetween, Unmoved DEF RunInv, IndexContext
<1>4. session' = [session EXCEPT ![i] = Moved(i, "indexing_context", session[i].draft,
                                              session[i].drafts, session[i].error)]
  BY <1>1 DEF IndexContext, Step, Transition
<1>5. run' = [run EXCEPT ![d] = r]
  BY <1>1, ContinueSets DEF RunInv
<1>6. "indexing_context" \in PostingState
  BY DEF PostingState, Active
<1>7. caller[d].pc = "idle" /\ r.id = i
  BY <1>3 DEF Idle
<1> HIDE DEF r
<1> QED
  BY <1>2, <1>3, <1>4, <1>5, <1>6, <1>7, TransitionWrites

LEMMA GenerateKeeps ==
    ASSUME RunInv, NEW d \in Callers, Generate(d)
    PROVE  OwnSession' /\ CallOfRun' /\ VerdictIsOnCurrentDraft'
<1> DEFINE i == run[d].id
<1>1. run[d].pc \in {"generate", "validate"} /\ HasSession(d)
  BY DEF Generate, At, RunInv, CallOfRun, HasSession
<1>2. run' = [run EXCEPT ![d] = run[d]]
  BY Unmoved DEF Generate, RunInv
<1>3. CASE GenerateBegin(d, i)
  <2> DEFINE k == [pc |-> "llm", id |-> i, draft |-> Unjudged(NextAttempt(i))]
  <2>1. /\ session' = [session EXCEPT ![i] = Moved(i, "generating", session[i].draft,
                                                   session[i].drafts, session[i].error)]
        /\ caller' = [caller EXCEPT ![d] = k]
    BY <1>3 DEF GenerateBegin, Step, Transition, Goto
  <2>2. k.pc = "llm" /\ k.id = i /\ "generating" \in PostingState
    BY DEF PostingState, Active
  <2> HIDE DEF k
  <2> QED
    BY <1>1, <1>2, <2>1, <2>2, TransitionWrites
<1>4. CASE GenerateCapped(d, i)
  <2> DEFINE k == [pc |-> "capped", id |-> i, draft |-> Unjudged(0)]
  <2>1. caller' = [caller EXCEPT ![d] = k] /\ UNCHANGED session
    BY <1>4 DEF GenerateCapped, Goto
  <2>2. RunOK(run[d], k, session[i])
    BY <1>1 DEF RunOK
  <2> HIDE DEF k
  <2> QED
    BY <1>1, <1>2, <2>1, <2>2, RunReads
<1> QED
  BY <1>3, <1>4 DEF Generate

\* How a run goes on: to another place, or to its end.
LEMMA RunMoves ==
    ASSUME TypeRuns, NEW d \in Callers
    PROVE  /\ \A pc : Continue(d, pc) =>
                 \E r : run' = [run EXCEPT ![d] = r] /\ r.pc = pc /\ r.id = run[d].id
           /\ EndRun(d) => \E r : run' = [run EXCEPT ![d] = r] /\ r.pc = "idle"
<1>1. ASSUME NEW pc, Continue(d, pc)
      PROVE  \E r : run' = [run EXCEPT ![d] = r] /\ r.pc = pc /\ r.id = run[d].id
  <2> DEFINE r == [pc |-> pc, id |-> run[d].id]
  <2>1. r.pc = pc /\ r.id = run[d].id
    OBVIOUS
  <2>2. run' = [run EXCEPT ![d] = r]
    BY <1>1, ContinueSets
  <2> HIDE DEF r
  <2> QED
    BY <2>1, <2>2
<1>2. ASSUME EndRun(d)
      PROVE  \E r : run' = [run EXCEPT ![d] = r] /\ r.pc = "idle"
  <2>1. NoRun.pc = "idle" /\ run' = [run EXCEPT ![d] = NoRun]
    BY <1>2 DEF EndRun, NoRun
  <2> QED
    BY <2>1
<1> QED
  BY <1>1, <1>2

LEMMA GeneratedKeeps ==
    ASSUME RunInv, NEW d \in Callers, Generated(d)
    PROVE  OwnSession' /\ CallOfRun' /\ VerdictIsOnCurrentDraft'
<1> DEFINE i == run[d].id
<1>1. caller[d].pc = "llm" /\ GenerateEnd(d)
  BY DEF Generated, GenerateEnd
<1>2. HasSession(d) /\ caller[d].id = i
  BY <1>1, RunFacts
<1>3. /\ session' = [session EXCEPT ![i] = Moved(i, "validating", caller[d].draft,
                                                 session[i].drafts + 1, session[i].error)]
      /\ caller' = [caller EXCEPT ![d] = Idle]
  BY <1>1, <1>2 DEF GenerateEnd, Transition, Return
<1>4. PICK r : /\ run' = [run EXCEPT ![d] = r]
               /\ r.pc \in {"validate", "idle"} /\ (r.pc = "validate" => r.id = i)
  BY RunMoves DEF Generated, RunInv
<1>5. Idle.pc = "idle" /\ "validating" \in PostingState
  BY DEF Idle, PostingState, Active
<1> QED
  BY <1>2, <1>3, <1>4, <1>5, TransitionWrites

LEMMA GenerateFailsKeeps ==
    ASSUME RunInv, NEW d \in Callers, GenerateFails(d)
    PROVE  OwnSession' /\ CallOfRun' /\ VerdictIsOnCurrentDraft'
<1> DEFINE i == run[d].id
<1>1. caller[d].pc \in {"capped", "llm"}
  BY DEF GenerateFails, FailTerminal
<1>2. HasSession(d) /\ caller[d].id = i
  BY <1>1, RunFacts
<1>3. PICK error : /\ session' = [session EXCEPT ![i] =
                          Moved(i, "failed_terminal", session[i].draft, session[i].drafts, error)]
                   /\ caller' = [caller EXCEPT ![d] = Idle]
  BY <1>2 DEF GenerateFails, FailTerminal, Return
<1>4. PICK r : run' = [run EXCEPT ![d] = r] /\ r.pc = "idle"
  BY RunMoves DEF GenerateFails, RunInv
<1>5. Idle.pc = "idle" /\ "failed_terminal" \in PostingState
  BY DEF Idle, PostingState, Terminal
<1> QED
  BY <1>2, <1>3, <1>4, <1>5, TransitionWrites

LEMMA ValidateKeeps ==
    ASSUME RunInv, NEW d \in Callers, Validate(d)
    PROVE  OwnSession' /\ CallOfRun' /\ VerdictIsOnCurrentDraft'
<1> DEFINE i == run[d].id
           k == [pc |-> "judge", id |-> i, draft |-> session[i].draft]
<1>1. /\ run[d].pc = "validate" /\ session[i].state = "validating"
      /\ caller' = [caller EXCEPT ![d] = k] /\ UNCHANGED session
  BY DEF Validate, At, ValidateBegin, Goto
<1>2. HasSession(d)
  BY <1>1 DEF HasSession
<1>3. run' = [run EXCEPT ![d] = run[d]]
  BY Unmoved DEF Validate, RunInv
<1>4. RunOK(run[d], k, session[i])
  BY <1>1 DEF RunOK
<1> HIDE DEF k
<1> QED
  BY <1>1, <1>2, <1>3, <1>4, RunReads

LEMMA ValidatedKeeps ==
    ASSUME RunInv, NEW d \in Callers, NEW v \in Verdicts, Validated(d, v)
    PROVE  OwnSession' /\ CallOfRun' /\ VerdictIsOnCurrentDraft'
<1> DEFINE i == run[d].id
<1>1. caller[d].pc = "judge" /\ ValidateEnd(d, v)
  BY DEF Validated, ValidateEnd
<1>2. HasSession(d) /\ caller[d].id = i /\ run[d].pc = "validate"
  BY <1>1, RunFacts DEF RunInv, CallOfRun
<1>3. PICK state \in PostingState :
          session' = [session EXCEPT ![i] = Moved(i, state, Judged(caller[d].draft, v),
                                                  session[i].drafts, session[i].error)]
  <2>1. "awaiting_decision" \in PostingState /\ "repairing" \in PostingState
    BY DEF PostingState, Active
  <2> QED
    BY <1>1, <1>2, <2>1 DEF ValidateEnd, Transition
<1>4. CASE v = "retryable"
  <2> DEFINE k == [pc |-> "regenerate", id |-> i, draft |-> Unjudged(0)]
  <2>1. caller' = [caller EXCEPT ![d] = k]
    BY <1>1, <1>2, <1>4 DEF ValidateEnd, Goto
  <2>2. run' = [run EXCEPT ![d] = run[d]]
    BY <1>4, Unmoved DEF Validated, RunInv
  <2>3. k.pc = "regenerate" /\ k.id = i
    OBVIOUS
  <2> HIDE DEF k
  <2> QED
    BY <1>2, <1>3, <2>1, <2>2, <2>3, TransitionWrites
<1>5. CASE v # "retryable"
  <2>1. caller' = [caller EXCEPT ![d] = Idle]
    BY <1>1, <1>5 DEF ValidateEnd, Return
  <2>2. PICK r : /\ run' = [run EXCEPT ![d] = r]
                 /\ r.pc \in {"approve", "idle"} /\ (r.pc = "approve" => r.id = i)
    BY <1>5, RunMoves DEF Validated, RunInv
  <2>3. Idle.pc = "idle"
    BY DEF Idle
  <2> QED
    BY <1>2, <1>3, <2>1, <2>2, <2>3, TransitionWrites
<1> QED
  BY <1>4, <1>5

LEMMA ApproveKeeps ==
    ASSUME RunInv, NEW d \in Callers, Approve(d)
    PROVE  OwnSession' /\ CallOfRun' /\ VerdictIsOnCurrentDraft'
<1> DEFINE i == run[d].id
<1>1. run[d].pc = "approve" /\ ApplyDecision(i, "schedule") /\ EndRun(d)
  BY DEF Approve, At
<1>2. HasSession(d)
  BY <1>1 DEF HasSession
<1>3. caller[d] = Idle /\ caller' = [caller EXCEPT ![d] = caller[d]]
  BY <1>1, IdleBetween, Unmoved DEF RunInv, ApplyDecision
<1>4. session' = [session EXCEPT ![i] = Moved(i, "scheduled", session[i].draft,
                                              session[i].drafts, session[i].error)]
  BY <1>1 DEF ApplyDecision, Step, Transition, DecisionTarget
<1>5. PICK r : run' = [run EXCEPT ![d] = r] /\ r.pc = "idle"
  BY <1>1, RunMoves DEF RunInv
<1>6. caller[d].pc = "idle" /\ "scheduled" \in PostingState
  BY <1>3 DEF Idle, PostingState
<1> QED
  BY <1>2, <1>3, <1>4, <1>5, <1>6, TransitionWrites

LEMMA RunDiesKeeps ==
    ASSUME RunInv, NEW d \in Callers, RunDies(d)
    PROVE  OwnSession' /\ CallOfRun' /\ VerdictIsOnCurrentDraft'
<1>1. caller' = [caller EXCEPT ![d] = Idle] /\ UNCHANGED session
  BY DEF RunDies, Return
<1>2. PICK r : run' = [run EXCEPT ![d] = r] /\ r.pc = "idle"
  BY RunMoves DEF RunDies, RunInv
<1>3. Idle.pc = "idle" /\ RunOK(r, Idle, session[run[d].id])
  BY DEF RunOK, Idle
<1> QED
  BY <1>1, <1>2, <1>3, RunReads

LEMMA RunVarTypes ==
    ASSUME RunInv, [NextRuns]_allVars
    PROVE  run' \in [Callers -> [pc : RunPc, id : Ids \cup {NoId}]] /\ runs' \in 0..MaxRuns
<1> DEFINE Records == [pc : RunPc, id : Ids \cup {NoId}]
<1>1. run \in [Callers -> Records] /\ runs \in 0..MaxRuns /\ MaxRuns \in Nat
  BY RolesAssumption DEF RunInv, TypeRuns
<1>2. NoRun \in Records
  BY DEF NoRun, RunPc
<1>3. ASSUME NEW d \in Callers, NEW pc \in RunPc
      PROVE  /\ [pc |-> pc, id |-> run[d].id] \in Records
             /\ Continue(d, pc) => run' \in [Callers -> Records] /\ runs' = runs
             /\ EndRun(d) => run' \in [Callers -> Records] /\ runs' = runs
  <2>1. [pc |-> pc, id |-> run[d].id] \in Records
    BY <1>1
  <2> HIDE DEF Records
  <2> QED
    BY <2>1, <1>1, <1>2, ContinueSets DEF EndRun, RunInv
<1>4. ASSUME NEW d \in Callers, Start(d)
      PROVE  run' \in [Callers -> Records] /\ runs' \in 0..MaxRuns
  BY <1>1, <1>4 DEF Start, RunPc
<1>5. ASSUME NEW d \in Callers, NEW i \in Ids, Create(d, i)
      PROVE  run' \in [Callers -> Records] /\ runs' = runs
  BY <1>1, <1>5 DEF Create, RunPc
<1>6. {"generate", "validate", "approve"} \subseteq RunPc
  BY DEF RunPc
<1> HIDE DEF Records
<1>7. ASSUME NEW d \in Callers, RunStep(d)
      PROVE  run' \in [Callers -> Records] /\ runs' = runs
  BY <1>1, <1>3, <1>5, <1>6, <1>7
     DEF RunStep, Index, Generate, Generated, GenerateFails, Validate, Validated, Approve
<1>8. ASSUME NEW d \in Callers, RunDies(d)
      PROVE  run' \in [Callers -> Records] /\ runs' = runs
  BY <1>3, <1>6, <1>8 DEF RunDies
<1>9. run' \in [Callers -> Records] /\ runs' \in 0..MaxRuns
  BY <1>1, <1>4, <1>7, <1>8 DEF NextRuns, allVars
<1> QED
  BY <1>9 DEF Records

LEMMA InitRunInv == InitRuns => RunInv /\ Inv
<1> SUFFICES ASSUME InitRuns PROVE RunInv /\ Inv
  OBVIOUS
<1>1. Inv
  BY InitInv DEF InitRuns
<1>2. run = [d \in Callers |-> NoRun] /\ caller = [d \in Callers |-> Idle] /\ runs = 0
  BY DEF InitRuns, Init
<1>3. TypeRuns
  BY <1>1, <1>2, RolesAssumption DEF TypeRuns, Inv, NoRun, RunPc
<1>4. OwnSession /\ CallOfRun /\ VerdictIsOnCurrentDraft
  BY <1>2 DEF OwnSession, CallOfRun, VerdictIsOnCurrentDraft, HasSession, NoRun, Idle
<1> QED
  BY <1>1, <1>3, <1>4 DEF RunInv

LEMMA NextRunInv ==
    ASSUME RunInv, Inv, [NextRuns]_allVars
    PROVE  RunInv' /\ Inv'
<1>1. Inv'
  BY RunsAreCalls, NextInv
<1>2. TypeRuns'
  BY <1>1, RunVarTypes DEF TypeRuns, Inv
<1>3. ASSUME NEW d \in Callers, RunStep(d)
      PROVE  OwnSession' /\ CallOfRun' /\ VerdictIsOnCurrentDraft'
  BY <1>3, CreateKeeps, IndexKeeps, GenerateKeeps, GeneratedKeeps, GenerateFailsKeeps,
     ValidateKeeps, ValidatedKeeps, ApproveKeeps DEF RunStep
<1>4. ASSUME Tick, UNCHANGED <<run, runs>>
      PROVE  OwnSession' /\ CallOfRun' /\ VerdictIsOnCurrentDraft'
  BY <1>4 DEF Tick, RunInv, OwnSession, CallOfRun, VerdictIsOnCurrentDraft, HasSession
<1>5. ASSUME UNCHANGED allVars
      PROVE  OwnSession' /\ CallOfRun' /\ VerdictIsOnCurrentDraft'
  BY <1>5 DEF allVars, vars, RunInv, OwnSession, CallOfRun, VerdictIsOnCurrentDraft, HasSession
<1>6. OwnSession' /\ CallOfRun' /\ VerdictIsOnCurrentDraft'
  BY <1>3, <1>4, <1>5, StartKeeps, RunDiesKeeps DEF NextRuns
<1> QED
  BY <1>1, <1>2, <1>6 DEF RunInv

LEMMA RunInvariance == SpecRuns => [](RunInv /\ Inv)
<1>1. InitRuns => RunInv /\ Inv
  BY InitRunInv
<1>2. RunInv /\ Inv /\ [NextRuns]_allVars => (RunInv /\ Inv)'
  BY NextRunInv
<1> QED
  BY <1>1, <1>2, PTL DEF SpecRuns

\* The verdict a run writes after its judge call is on the draft that is still
\* current, for any number of crons, requests and seeders at once: no two of
\* them ever work on one session (state-machine.ts:432-498).
THEOREM VerdictIsOnCurrentDraftHolds == SpecRuns => []VerdictIsOnCurrentDraft
<1>1. RunInv => VerdictIsOnCurrentDraft
  BY DEF RunInv
<1> QED
  BY <1>1, RunInvariance, PTL

\* The crons, requests and seeders use the state machine only through its
\* operations, each in a state in which the machine allows it: what holds of
\* any callers holds of them, and their sessions follow the lifecycle.
THEOREM RunsImplementMachine == SpecRuns => Spec /\ Implements
<1>1. InitRuns => Init
  BY DEF InitRuns
<1>2. RunInv /\ [NextRuns]_allVars => [Next]_vars
  BY RunsAreCalls
<1>3. SpecRuns => Spec
  BY <1>1, <1>2, RunInvariance, PTL DEF SpecRuns, Spec
<1> QED
  BY <1>3, MachineImplementsLifecycle
=============================================================================
