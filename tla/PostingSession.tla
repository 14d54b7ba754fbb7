--------------------------- MODULE PostingSession ---------------------------
(***************************************************************************)
(* The posting state machine (posting/state-machine.ts): sessions stored   *)
(* in state.json and the operations on them.  Any number of callers may    *)
(* call any operation on any session.                                      *)
(*                                                                         *)
(* A withState section is one step.  The LLM and judge calls lie between   *)
(* such steps, so a caller has a control state and what it has captured    *)
(* before the call.  An operation that throws changes nothing: a step that *)
(* is not enabled because the matrix forbids it stands for that, and       *)
(* GiveUp lets the caller leave.                                           *)
(*                                                                         *)
(* Of the candidates of a session only the current one, the last, is ever  *)
(* read or changed: it is kept, with the number of candidates.             *)
(* contextIndex is present in every state that indexContext leads to, and  *)
(* its check in generateCandidate refuses nothing the matrix allows.       *)
(***************************************************************************)
EXTENDS Integers, PostingStates

CONSTANTS
    Callers,            \* processes and bot turns that use the state machine
    Ids,                \* session ids
    NoId,               \* the id of a caller that is not in an operation
    RepairMaxAttempts,  \* REPAIR_MAX_ATTEMPTS (2)
    Ttl,                \* clock ticks until a session expires
    MaxDrafts,          \* bound: drafts the LLM produces per session
    MaxTime             \* bound: last clock tick

Times == 0..MaxTime

ASSUME ConstantsAssumption ==
    /\ NoId \notin Ids
    /\ RepairMaxAttempts \in Nat \ {0}
    /\ Ttl \in Nat
    /\ MaxDrafts \in Nat
    /\ MaxTime \in Nat

\* A candidate: repairAttemptCount and the outcome of validate and judge.
Draft == [attempts : Nat, verdict : {"none", "passed", "failed"}]
Unjudged(n) == [attempts |-> n, verdict |-> "none"]

ErrorCodes == {"", "generate_failed", "repair_max_attempts_exceeded"}

Session == [state : PostingState \cup {"none"}, draft : Draft, drafts : Nat,
            expiresAt : Nat, error : ErrorCodes]

\* pc: where a caller is between two locked steps.
\*   llm         generateCandidate waits for the LLM
\*   capped      generateCandidate found the cap exceeded
\*   judge       validateCurrent has read the candidate and judges it
\*   regenerate  validateCurrent calls generateCandidate
\* draft: the new candidate's attempts, or the candidate being judged.
Caller == [pc : {"idle", "llm", "capped", "judge", "regenerate"},
           id : Ids \cup {NoId}, draft : Draft]
Idle == [pc |-> "idle", id |-> NoId, draft |-> Unjudged(0)]

VARIABLES
    session,    \* state.json: posting_sessions
    caller,     \* control state of the callers
    now         \* the clock

vars == <<session, caller, now>>

Init ==
    /\ session = [i \in Ids |-> [state |-> "none", draft |-> Unjudged(0),
                                 drafts |-> 0, expiresAt |-> 0, error |-> ""]]
    /\ caller = [c \in Callers |-> Idle]
    /\ now = 0
-----------------------------------------------------------------------------
Goto(c, pc, i, draft) ==
    caller' = [caller EXCEPT ![c] = [pc |-> pc, id |-> i, draft |-> draft]]

Return(c) == caller' = [caller EXCEPT ![c] = Idle]

\* The session with another state, draft, number of drafts and error.
Moved(i, state, draft, drafts, error) ==
    [state |-> state, draft |-> draft, drafts |-> drafts,
     expiresAt |-> session[i].expiresAt, error |-> error]

\* transition and upsertSession.  The matrix is obeyed, or the call throws.
Transition(i, state, draft, drafts, error) ==
    /\ CanTransition(session[i].state, state)
    /\ session' = [session EXCEPT ![i] = Moved(i, state, draft, drafts, error)]

\* The same draft in another state.
Step(i, state) ==
    Transition(i, state, session[i].draft, session[i].drafts, session[i].error)
-----------------------------------------------------------------------------
CreateSession(i) ==
    /\ session[i].state = "none"
    /\ session' = [session EXCEPT ![i] =
                     [state |-> "created", draft |-> Unjudged(0), drafts |-> 0,
                      expiresAt |-> now + Ttl, error |-> ""]]
    /\ UNCHANGED <<caller, now>>

IndexContext(i) ==
    /\ Step(i, "indexing_context")
    /\ UNCHANGED <<caller, now>>

\* repairAttemptCount of the candidate that generateCandidate would make.
NextAttempt(i) ==
    IF session[i].state = "repairing" THEN session[i].draft.attempts + 1 ELSE 0

\* Faulty: one attempt too many.
CapExceededFaulty(i) ==
    session[i].state = "repairing" /\ NextAttempt(i) > RepairMaxAttempts

CapExceeded(i) ==
    session[i].state = "repairing" /\ NextAttempt(i) >= RepairMaxAttempts

\* A caller may start generateCandidate on i: of its own accord, or from
\* within validateCurrent.
MayGenerate(c, i) ==
    \/ caller[c].pc = "idle"
    \/ caller[c].pc = "regenerate" /\ caller[c].id = i

\* generateCandidate, step 1: the session turns to generating ...
GenerateBegin(c, i) ==
    /\ MayGenerate(c, i)
    /\ ~CapExceeded(i)
    /\ session[i].drafts < MaxDrafts
    /\ Step(i, "generating")
    /\ Goto(c, "llm", i, Unjudged(NextAttempt(i)))
    /\ UNCHANGED now

\* ... or the cap is exceeded, and nothing is changed yet.
GenerateCapped(c, i) ==
    /\ MayGenerate(c, i)
    /\ CapExceeded(i)
    /\ Goto(c, "capped", i, Unjudged(0))
    /\ UNCHANGED <<session, now>>

\* generateCandidate, step 3: the LLM has answered.
GenerateEnd(c) ==
    LET i == caller[c].id
    IN  /\ caller[c].pc = "llm"
        /\ Transition(i, "validating", caller[c].draft, session[i].drafts + 1,
                      session[i].error)
        /\ Return(c)
        /\ UNCHANGED now

\* Faulty: the cap is found exceeded, and the session is not failed.
FailTerminalFaulty(c) ==
    LET i == caller[c].id
    IN  /\ caller[c].pc = "llm"
        /\ CanTransition(session[i].state, "failed_terminal")
        /\ session' = [session EXCEPT ![i] =
                         Moved(i, "failed_terminal", session[i].draft,
                               session[i].drafts, "generate_failed")]
        /\ Return(c)
        /\ UNCHANGED now

\* failTerminal: after the cap, or when the LLM call has thrown.
FailTerminal(c) ==
    LET i == caller[c].id
        code == IF caller[c].pc = "capped" THEN "repair_max_attempts_exceeded"
                ELSE "generate_failed"
    IN  /\ caller[c].pc \in {"capped", "llm"}
        /\ \/ session[i].state = "failed_terminal"
           \/ CanTransition(session[i].state, "failed_terminal")
        /\ session' = [session EXCEPT ![i] =
                         Moved(i, "failed_terminal", session[i].draft,
                               session[i].drafts, code)]
        /\ Return(c)
        /\ UNCHANGED now

\* validateCurrent reads the session without the lock ...
ValidateBegin(c, i) ==
    /\ caller[c].pc = "idle"
    /\ session[i].state = "validating"
    /\ Goto(c, "judge", i, session[i].draft)
    /\ UNCHANGED <<session, now>>

Verdicts == {"passed", "failed", "retryable"}

\* What the candidate that was read becomes: the count of a candidate whose
\* judge failed for a passing reason is raised here, too.
Judged(draft, verdict) ==
    [attempts |-> IF verdict = "retryable" THEN draft.attempts + 1
                  ELSE draft.attempts,
     verdict |-> IF verdict = "passed" THEN "passed" ELSE "failed"]

\* ... and writes its verdict under the lock: the candidate that was read
\* replaces the one that is current now.
ValidateEnd(c, verdict) ==
    LET i == caller[c].id
    IN  /\ caller[c].pc = "judge"
        /\ Transition(i, IF verdict = "passed" THEN "awaiting_decision"
                         ELSE "repairing",
                      Judged(caller[c].draft, verdict), session[i].drafts,
                      session[i].error)
        /\ IF verdict = "retryable" THEN Goto(c, "regenerate", i, Unjudged(0))
           ELSE Return(c)
        /\ UNCHANGED now

DecisionTarget ==
    [schedule |-> "scheduled", revise |-> "revising", reject |-> "failed_terminal"]

\* applyDecision.
ApplyDecision(i, decision) ==
    /\ session[i].state = "awaiting_decision"
    /\ Step(i, DecisionTarget[decision])
    /\ UNCHANGED <<caller, now>>

\* The operation throws, or its process dies: what is stored stays.
GiveUp(c) ==
    /\ caller[c].pc # "idle"
    /\ Return(c)
    /\ UNCHANGED <<session, now>>

Overdue(i) ==
    /\ session[i].state \notin Terminal \cup {"none"}
    /\ session[i].expiresAt <= now

\* Faulty: terminal sessions expire, too.
ExpireStaleSessionsFaulty ==
    /\ \E i \in Ids : Overdue(i)
    /\ session' = [i \in Ids |->
                     IF session[i].state # "none" /\ session[i].expiresAt <= now
                     THEN Moved(i, "expired", session[i].draft,
                                session[i].drafts, session[i].error)
                     ELSE session[i]]
    /\ UNCHANGED <<caller, now>>

\* expireStaleSessions: without the matrix.
ExpireStaleSessions ==
    /\ \E i \in Ids : Overdue(i)
    /\ session' = [i \in Ids |->
                     IF Overdue(i)
                     THEN Moved(i, "expired", session[i].draft,
                                session[i].drafts, session[i].error)
                     ELSE session[i]]
    /\ UNCHANGED <<caller, now>>

Tick == now < MaxTime /\ now' = now + 1 /\ UNCHANGED <<session, caller>>
-----------------------------------------------------------------------------
CallerStep(c) ==
    \/ \E i \in Ids : \/ GenerateBegin(c, i)
                      \/ GenerateCapped(c, i)
                      \/ ValidateBegin(c, i)
    \/ GenerateEnd(c)
    \/ FailTerminal(c)
    \/ \E v \in Verdicts : ValidateEnd(c, v)
    \/ GiveUp(c)

Next ==
    \/ \E i \in Ids : \/ CreateSession(i)
                      \/ IndexContext(i)
                      \/ \E d \in DOMAIN DecisionTarget : ApplyDecision(i, d)
    \/ \E c \in Callers : CallerStep(c)
    \/ ExpireStaleSessions
    \/ Tick

Spec == Init /\ [][Next]_vars
-----------------------------------------------------------------------------
(* Properties.                                                              *)

TypeOK ==
    /\ session \in [Ids -> Session]
    /\ caller \in [Callers -> Caller]
    /\ now \in Times

\* The machine implements the lifecycle, whatever calls overlap.
Lifecycle == INSTANCE PostingLifecycle WITH
    phase <- [i \in Ids |-> session[i].state],
    approved <- [i \in Ids |-> session[i].draft.verdict = "passed"]

Implements == Lifecycle!Spec

\* The draft a customer is asked about or that is scheduled is one that passed
\* validate and judge, although the verdict is written over whatever candidate
\* is current when it arrives (state-machine.ts:479-498).
OfferedWasApproved ==
    \A i \in Ids : session[i].state \in {"awaiting_decision", "scheduled"}
                      => session[i].draft.verdict = "passed"

\* repairAttemptCount never exceeds the cap, also when several callers read it
\* before and write it after their calls to the LLM (state-machine.ts:337-347,
\* 486-489).
AttemptsCapped == \A i \in Ids : session[i].draft.attempts <= RepairMaxAttempts

\* What generateCandidate has counted and validateCurrent has read is below
\* the cap, and so is a candidate that is to be validated: only a retryable
\* verdict adds one.
InHandBelowCap ==
    /\ \A c \in Callers : caller[c].pc \in {"llm", "judge"}
                            => caller[c].draft.attempts < RepairMaxAttempts
    /\ \A i \in Ids : session[i].state = "validating"
                            => session[i].draft.attempts < RepairMaxAttempts

\* A caller in the middle of an operation knows its session.
BusyCallersHaveSessions ==
    \A c \in Callers : caller[c].pc # "idle" => caller[c].id \in Ids

\* The inductive invariant.
Inv ==
    /\ TypeOK
    /\ OfferedWasApproved
    /\ AttemptsCapped
    /\ InHandBelowCap
    /\ BusyCallersHaveSessions
=============================================================================
