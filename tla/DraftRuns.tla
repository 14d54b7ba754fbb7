----------------------------- MODULE DraftRuns -----------------------------
(***************************************************************************)
(* The code that drives the posting state machine: the daily cron          *)
(* (scripts/cron-daily-auto-post.ts), the first draft after onboarding     *)
(* (handlers/onboarding.ts), a draft on request (handlers/post.ts) and     *)
(* content seeding (content-seeding/seed.ts).  Each opens a session and    *)
(* calls indexContext, generateCandidate and validateCurrent on it;        *)
(* seeding with approveAll then schedules it.                              *)
(*                                                                         *)
(* Nothing in the program calls expireStaleSessions, and the buttons and   *)
(* replies to an offered draft reach no handler of applyDecision: these    *)
(* operations of PostingSession are no actions here.                       *)
(***************************************************************************)
EXTENDS PostingSession, FiniteSets

CONSTANTS
    Guarded,    \* callers that look for an active session first
    Seeders,    \* callers that schedule what passes the gate
    MaxRuns     \* bound: runs started

ASSUME RolesAssumption ==
    Guarded \subseteq Callers /\ Seeders \subseteq Callers /\ MaxRuns \in Nat

VARIABLES
    run,    \* caller -> its next call of the state machine, and its session
    runs    \* runs started so far

allVars == <<vars, run, runs>>

RunPc == {"idle", "create", "index", "generate", "validate", "approve"}
NoRun == [pc |-> "idle", id |-> NoId]

InitRuns ==
    /\ Init
    /\ run = [d \in Callers |-> NoRun]
    /\ runs = 0

At(d, pc) == run[d].pc = pc
Continue(d, pc) == run' = [run EXCEPT ![d].pc = pc] /\ UNCHANGED runs
EndRun(d) == run' = [run EXCEPT ![d] = NoRun] /\ UNCHANGED runs

\* The guarded callers leave when a session is active in the state they read.
Start(d) ==
    /\ At(d, "idle")
    /\ runs < MaxRuns
    /\ d \in Guarded => \A i \in Ids : session[i].state \notin Active
    /\ run' = [run EXCEPT ![d].pc = "create"]
    /\ runs' = runs + 1
    /\ UNCHANGED vars

\* Faulty: a session that another run is about to validate is taken over.
CreateFaulty(d, i) ==
    /\ At(d, "create")
    /\ \/ CreateSession(i) /\ run' = [run EXCEPT ![d] = [pc |-> "index", id |-> i]]
       \/ /\ session[i].state = "validating"
          /\ run' = [run EXCEPT ![d] = [pc |-> "validate", id |-> i]]
          /\ UNCHANGED vars
    /\ UNCHANGED runs

Create(d, i) ==
    /\ At(d, "create")
    /\ CreateSession(i)
    /\ run' = [run EXCEPT ![d] = [pc |-> "index", id |-> i]]
    /\ UNCHANGED runs

Index(d) == At(d, "index") /\ IndexContext(run[d].id) /\ Continue(d, "generate")

\* The call of generateCandidate, by the run or from within validateCurrent.
Generate(d) ==
    /\ \/ At(d, "generate")
       \/ caller[d].pc = "regenerate"
    /\ GenerateBegin(d, run[d].id) \/ GenerateCapped(d, run[d].id)
    /\ UNCHANGED <<run, runs>>

\* generateCandidate returns a candidate.
Generated(d) ==
    /\ GenerateEnd(d)
    /\ IF At(d, "generate") THEN Continue(d, "validate") ELSE EndRun(d)

\* generateCandidate returns a failed session; a validateCurrent that follows
\* throws.
GenerateFails(d) == FailTerminal(d) /\ EndRun(d)

Validate(d) ==
    /\ At(d, "validate")
    /\ ValidateBegin(d, run[d].id)
    /\ UNCHANGED <<run, runs>>

\* validateCurrent has its verdict.  A session that failed is reported and
\* left as it is; one that passed is offered in Discord, or scheduled.
Validated(d, verdict) ==
    /\ ValidateEnd(d, verdict)
    /\ IF verdict = "passed" /\ d \in Seeders THEN Continue(d, "approve")
       ELSE IF verdict = "retryable" THEN UNCHANGED <<run, runs>>
       ELSE EndRun(d)

Approve(d) ==
    /\ At(d, "approve")
    /\ ApplyDecision(run[d].id, "schedule")
    /\ EndRun(d)

\* A call throws, or the process dies.
RunDies(d) ==
    /\ ~At(d, "idle")
    /\ Return(d)
    /\ EndRun(d)
    /\ UNCHANGED <<session, now>>

RunStep(d) ==
    \/ \E i \in Ids : Create(d, i)
    \/ Index(d)
    \/ Generate(d)
    \/ Generated(d)
    \/ GenerateFails(d)
    \/ Validate(d)
    \/ \E v \in Verdicts : Validated(d, v)
    \/ Approve(d)

NextRuns ==
    \/ \E d \in Callers : Start(d) \/ RunStep(d) \/ RunDies(d)
    \/ Tick /\ UNCHANGED <<run, runs>>

SpecRuns == InitRuns /\ [][NextRuns]_allVars

\* A run goes on until it ends: the LLM answers or throws.
FairRuns ==
    /\ SpecRuns
    /\ \A d \in Callers : WF_allVars(RunStep(d))
    /\ WF_allVars(Tick /\ UNCHANGED <<run, runs>>)
-----------------------------------------------------------------------------
(* Properties.                                                              *)

TypeRuns ==
    /\ TypeOK
    /\ run \in [Callers -> [pc : RunPc, id : Ids \cup {NoId}]]
    /\ runs \in 0..MaxRuns

\* The verdict a caller will write is on the candidate that is still current:
\* validateCurrent reads it without the lock and writes it back after the
\* judge call (state-machine.ts:432-498), and that is safe because no two runs
\* share a session.
VerdictIsOnCurrentDraft ==
    \A d \in Callers :
        caller[d].pc = "judge" =>
            LET s == session[caller[d].id]
            IN  s.state = "validating" /\ s.draft = caller[d].draft

\* A run ends, whatever the LLM and the judge answer: the retry inside
\* validateCurrent does not go round.
RunsEnd == \A d \in Callers : []<>At(d, "idle")
=============================================================================
