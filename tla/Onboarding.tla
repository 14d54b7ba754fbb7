----------------------------- MODULE Onboarding -----------------------------
(***************************************************************************)
(* The onboarding wizard (onboarding/collector.ts, handlers/onboarding.ts, *)
(* discord/onboarding-buttons.ts).  A session in state.json walks through  *)
(* the questions; when the last is answered its answers are merged into    *)
(* account.json, the quarterly questionnaire is started and a first draft  *)
(* is made in the background.                                              *)
(*                                                                         *)
(* Typed messages and buttons come from several channels at once: each is  *)
(* taken up by a slot.  Every change of a session is one withState, but    *)
(* what it is decided on was often read before.  account.json is read,     *)
(* held over a model call and written back with no lock, by the wizard and *)
(* by the handlers that change other fields of it.                         *)
(***************************************************************************)
EXTENDS Integers, FiniteSets

CONSTANTS
    Slots,        \* messages and clicks being handled
    Writers,      \* handler calls that change another field of account.json
    NumQuestions, \* length of the catalog
    Required,     \* questions that cannot be skipped
    Fields,       \* questions whose answer is a field of account.json
    MaxSessions,  \* bound: sessions ever started
    MaxEvents,    \* bound: messages, clicks, other writes, pauses and deaths
    None          \* no session

Questions == 1 .. NumQuestions
Sids == 1 .. MaxSessions

ASSUME OnboardingAssumption ==
    /\ NumQuestions \in Nat \ {0} /\ MaxSessions \in Nat /\ MaxEvents \in Nat
    /\ Required \subseteq Questions /\ Fields \subseteq Questions
    /\ None \notin Sids /\ Writers \cap Sids = {}

VARIABLES
    sessions,  \* onboarding_sessions of state.json
    account,   \* account.json: the changes it comes from, the fields it has
    slot,      \* what each message or click is at
    writer,    \* what each other writer of account.json is at
    boot,      \* session -> the background first draft
    told,      \* session -> what the customer was told at the end
    over,      \* changes of account.json written over by an overlapping writer
    events     \* how many of them there were

vars == <<sessions, account, slot, writer, boot, told, over, events>>

Skipped == [by |-> "skip", of |-> 0]
Typed == [by |-> "typed", of |-> 0]
SavedValue(q) == [by |-> "saved", of |-> q]
Unanswered == [by |-> "none", of |-> 0]
Answers == {Skipped, Typed, Unanswered} \cup {SavedValue(q) : q \in Questions}

Terminal == {"completed", "cancelled", "expired"}
Absent == {"none", "gone"}
Accounts == [log : SUBSET (Writers \cup Sids), has : SUBSET Fields]
Finalizing == {"finalize", "build", "knowledge"}
Pcs == {"idle", "expire", "fresh", "keep", "change", "changeAnswer", "answer", "cancel",
        "prune", "open"} \cup Finalizing

TypeOK ==
    /\ sessions \in [Sids -> [state : Terminal \cup Absent \cup {"asking"},
                              q : 1 .. NumQuestions + 1, answers : [Questions -> Answers],
                              review : SUBSET Questions, old : BOOLEAN, quiet : BOOLEAN]]
    /\ account \in Accounts
    /\ slot \in [Slots -> [pc : Pcs, sid : Sids \cup {None}, value : Answers,
                           base : Accounts \cup {None}]]
    /\ writer \in [Writers -> [pc : {"idle", "loaded", "done"}, base : Accounts \cup {None}]]
    /\ boot \in [Sids -> {"none", "look", "post", "shown", "skipped", "escalated", "lost"}]
    /\ told \in [Sids -> {"no", "applied", "failed", "died"}]
    /\ over \subseteq Writers \cup Sids
    /\ events \in 0 .. MaxEvents

Blank == [state |-> "none", q |-> 1, answers |-> [q \in Questions |-> Unanswered],
          review |-> {}, old |-> FALSE, quiet |-> FALSE]
Idle == [pc |-> "idle", sid |-> None, value |-> Unanswered, base |-> None]

Init ==
    /\ sessions = [s \in Sids |-> Blank]
    /\ account \in [log : {{}}, has : {{}, Fields}]
    /\ slot = [c \in Slots |-> Idle]
    /\ writer = [w \in Writers |-> [pc |-> "idle", base |-> None]]
    /\ boot = [s \in Sids |-> "none"]
    /\ over = {}
    /\ told = [s \in Sids |-> "no"]
    /\ events = 0

-----------------------------------------------------------------------------
Found(s) == sessions[s].state \notin Absent
Ended(s) == sessions[s].state \in Terminal
Live == {s \in Sids : sessions[s].state = "asking" /\ ~sessions[s].old}
Active == CHOOSE s \in Live : \A t \in Live : t <= s

Goes(c, to) == slot' = [slot EXCEPT ![c].pc = to]
Returns(c) == slot' = [slot EXCEPT ![c] = Idle]
Touched(s) == [s EXCEPT !.quiet = FALSE]
Put(s, new) == sessions' = [sessions EXCEPT ![s] = new]

others == <<account, writer, boot, told, over, events>>
calm == <<account, writer, boot, told, over>>

Happens == events < MaxEvents /\ events' = events + 1

\* getActive, at the start of a typed turn: the session is as it is now; if it
\* has been quiet for half an hour it is going to be expired.
Look(c) ==
    /\ Happens
    /\ slot[c].pc = "idle" /\ Live # {}
    /\ slot' = [slot EXCEPT ![c].sid = Active,
                            ![c].pc = IF sessions[Active].quiet THEN "expire" ELSE "fresh"]
    /\ UNCHANGED <<sessions, calm>>

\* ... by its id, whatever has become of it.
Expire(c) ==
    LET s == slot[c].sid IN
    /\ slot[c].pc = "expire"
    /\ IF Found(s) THEN Put(s, Touched([sessions[s] EXCEPT !.state = "expired"])) ELSE UNCHANGED sessions
    /\ Returns(c)
    /\ UNCHANGED others

\* What a reply to a saved answer is taken for: keep it, change it, or the new
\* answer itself.
Verdicts == {"keep", "change", "changeAnswer"}

\* applyFreeFormAnswer: what the text is taken for depends on the session as it
\* is read here; it is acted on after the classification.
Fresh(c) ==
    LET s == sessions[slot[c].sid] IN
    /\ slot[c].pc = "fresh"
    /\ \/ ~Found(slot[c].sid) /\ Returns(c)
       \/ Found(slot[c].sid) /\ Goes(c, "cancel")
       \/ /\ Found(slot[c].sid) /\ s.q \in s.review
          /\ \/ \E verdict \in Verdicts : slot' = [slot EXCEPT ![c].pc = verdict, ![c].value = Typed]
             \/ Returns(c)
       \/ /\ Found(slot[c].sid) /\ s.q \notin s.review
          /\ \/ slot' = [slot EXCEPT ![c].pc = "answer", ![c].value = Typed]
             \/ IF s.q \in Questions \ Required
                THEN slot' = [slot EXCEPT ![c].pc = "answer", ![c].value = Skipped]
                ELSE Returns(c)
    /\ UNCHANGED <<sessions, others>>

\* A button of any prompt of the session.
Click(c, s) ==
    /\ Happens
    /\ slot[c].pc = "idle" /\ sessions[s].state # "none"
    /\ \E to \in {"keep", "change", "cancel"} :
          slot' = [slot EXCEPT ![c].pc = to, ![c].sid = s]
    /\ UNCHANGED <<sessions, calm>>

\* keepCurrentReviewAnswer reads the session, and answers it as it is then.
Keep(c) ==
    LET s == sessions[slot[c].sid] IN
    /\ slot[c].pc = "keep"
    /\ IF Found(slot[c].sid) /\ s.q \in s.review
       THEN slot' = [slot EXCEPT ![c].pc = "answer", ![c].value = SavedValue(s.q)]
       ELSE Returns(c)
    /\ UNCHANGED <<sessions, others>>

\* Faulty: the question is passed over, as if it had been answered.
ChangeFaulty(c) ==
    LET s == slot[c].sid IN
    /\ slot[c].pc \in {"change", "changeAnswer"}
    /\ IF Found(s) /\ ~Ended(s)
       THEN Put(s, Touched([sessions[s] EXCEPT !.review = @ \ {sessions[s].q}, !.q = @ + 1]))
       ELSE UNCHANGED sessions
    /\ Returns(c)
    /\ UNCHANGED others

\* changeCurrentReviewAnswer.
Change(c) ==
    LET s == slot[c].sid IN
    /\ slot[c].pc \in {"change", "changeAnswer"}
    /\ IF Found(s) /\ ~Ended(s)
       THEN /\ Put(s, Touched([sessions[s] EXCEPT !.review = @ \ {sessions[s].q}]))
            /\ IF slot[c].pc = "changeAnswer" THEN Goes(c, "answer") ELSE Returns(c)
       ELSE UNCHANGED sessions /\ Returns(c)
    /\ UNCHANGED others

\* Faulty: a session that has ended is answered all the same.
AnswerFaulty(c) ==
    LET s == slot[c].sid
        now == sessions[s]
        last == now.q >= NumQuestions
    IN
    /\ slot[c].pc = "answer" /\ Found(s)
    /\ Put(s, Touched([now EXCEPT !.answers = IF now.q \in Questions THEN [@ EXCEPT ![now.q] = slot[c].value] ELSE @,
                                  !.q = IF last THEN NumQuestions + 1 ELSE @ + 1,
                                  !.state = IF last THEN "completed" ELSE "asking"]))
    /\ IF last THEN Goes(c, "finalize") ELSE Returns(c)
    /\ UNCHANGED others

\* answerCurrent: the current question, whichever it is by now, gets the
\* answer, unless validateAnswer refuses it.
Answer(c) ==
    LET s == slot[c].sid
        now == sessions[s]
        last == now.q = NumQuestions
    IN
    /\ slot[c].pc = "answer"
    /\ \/ /\ Found(s) /\ now.old
          /\ Put(s, Touched([now EXCEPT !.state = "expired"]))
          /\ Returns(c)
       \/ /\ ~Found(s) \/ (Ended(s) /\ ~now.old)
          /\ Returns(c) /\ UNCHANGED sessions
       \/ /\ Found(s) /\ ~Ended(s) /\ ~now.old
          /\ Returns(c) /\ UNCHANGED sessions
       \/ /\ Found(s) /\ ~Ended(s) /\ ~now.old
          /\ slot[c].value = Skipped => now.q \notin Required
          /\ Put(s, Touched([now EXCEPT !.answers[now.q] = slot[c].value,
                                        !.review = @ \ {now.q},
                                        !.q = @ + 1,
                                        !.state = IF last THEN "completed" ELSE "asking"]))
          /\ IF last THEN Goes(c, "finalize") ELSE Returns(c)
    /\ UNCHANGED others

\* The code's cancel leaves a session that has ended as it is.
Cancel(c) ==
    LET s == slot[c].sid IN
    /\ slot[c].pc = "cancel"
    /\ IF Found(s) /\ ~Ended(s)
       THEN Put(s, Touched([sessions[s] EXCEPT !.state = "cancelled"]))
       ELSE UNCHANGED sessions
    /\ Returns(c)
    /\ UNCHANGED others

-----------------------------------------------------------------------------
(* start: prune, read account.json, then open a session unless one is live. *)

Begin(c) ==
    /\ Happens
    /\ slot[c].pc = "idle"
    /\ \E s \in Sids : sessions[s].state = "none"
    /\ Goes(c, "prune")
    /\ UNCHANGED <<sessions, calm>>

\* Sessions of more than a day are dropped, then account.json is read.
Prune(c) ==
    /\ slot[c].pc = "prune"
    /\ sessions' = [s \in Sids |-> IF Found(s) /\ sessions[s].old
                                   THEN [Blank EXCEPT !.state = "gone"] ELSE sessions[s]]
    /\ slot' = [slot EXCEPT ![c].pc = "open", ![c].base = account]
    /\ UNCHANGED others

Open(c) ==
    /\ slot[c].pc = "open"
    /\ IF Live # {} \/ \A s \in Sids : sessions[s].state # "none"
       THEN UNCHANGED sessions
       ELSE \E s \in Sids :
               /\ sessions[s].state = "none" /\ \A t \in 1 .. s - 1 : sessions[t].state # "none"
               /\ Put(s, [Blank EXCEPT !.state = "asking", !.review = slot[c].base.has])
    /\ Returns(c)
    /\ UNCHANGED others

-----------------------------------------------------------------------------
(* finalize and what follows it.                                            *)

Tells(c, outcome) ==
    /\ told' = [told EXCEPT ![slot[c].sid] = outcome]
    /\ Returns(c)

\* A session expired meanwhile, or pruned, is not finalized.
Finalize(c) ==
    /\ slot[c].pc = "finalize"
    /\ IF sessions[slot[c].sid].state = "completed"
       THEN slot' = [slot EXCEPT ![c].pc = "build", ![c].base = account] /\ UNCHANGED told
       ELSE Tells(c, "failed")
    /\ UNCHANGED <<sessions, account, writer, boot, over, events>>

\* What account.json holds by now and the writer has not read is written over.
Save(base, mine, has) ==
    /\ account' = [log |-> base.log \cup {mine}, has |-> has]
    /\ over' = over \cup (account.log \ base.log)

\* Faulty: account.json is built from the answers alone.
SaveAccountFaulty(c) ==
    /\ slot[c].pc = "build"
    /\ account' = [log |-> {slot[c].sid}, has |-> Fields]
    /\ over' = over \cup (account.log \ slot[c].base.log)
    /\ slot' = [slot EXCEPT ![c].pc = "knowledge", ![c].base = None]
    /\ UNCHANGED <<sessions, writer, boot, told, events>>

\* buildAccountFromAnswers: the fields of the answers replace those of the
\* account as it was read, the others are carried over.
SaveAccount(c) ==
    LET s == slot[c].sid IN
    /\ slot[c].pc = "build"
    /\ Save(slot[c].base, s, {q \in Fields : sessions[s].answers[q] # Skipped})
    /\ slot' = [slot EXCEPT ![c].pc = "knowledge", ![c].base = None]
    /\ UNCHANGED <<sessions, writer, boot, told, events>>

\* loadAccount, saveAccount or writeKnowledgeFiles throws.
FinalizeFails(c) ==
    /\ slot[c].pc \in {"build", "knowledge"}
    /\ Tells(c, "failed")
    /\ UNCHANGED <<sessions, account, writer, boot, over, events>>

\* The knowledge files are written, the questionnaire starts or fails; either way the first draft is set going
\* in the background and the customer gets the reply.
StartPhase(c) ==
    /\ slot[c].pc = "knowledge"
    /\ boot' = [boot EXCEPT ![slot[c].sid] = "look"]
    /\ Tells(c, "applied")
    /\ UNCHANGED <<sessions, account, writer, over, events>>

\* bootstrapFirstDraft: not on a skipped day, not beside an active session;
\* otherwise a candidate is generated and judged.
BootDraft(s) ==
    /\ boot[s] = "look"
    /\ \E to \in {"skipped", "post"} : boot' = [boot EXCEPT ![s] = to]
    /\ UNCHANGED <<sessions, account, slot, writer, told, over, events>>

BootPost(s) ==
    /\ boot[s] = "post"
    /\ boot' = [boot EXCEPT ![s] = "shown"]
    /\ UNCHANGED <<sessions, account, slot, writer, told, over, events>>

\* The pipeline or the post throws: the operator hears of it.
BootFails(s) ==
    /\ boot[s] \in {"look", "post"}
    /\ boot' = [boot EXCEPT ![s] = "escalated"]
    /\ UNCHANGED <<sessions, account, slot, writer, told, over, events>>

-----------------------------------------------------------------------------
(* The other writers, time and death.                                       *)

WriterLoads(w) ==
    /\ Happens
    /\ writer[w].pc = "idle"
    /\ writer' = [writer EXCEPT ![w] = [pc |-> "loaded", base |-> account]]
    /\ UNCHANGED <<sessions, account, slot, boot, told, over>>

WriterSaves(w) ==
    /\ writer[w].pc = "loaded"
    /\ Save(writer[w].base, w, writer[w].base.has)
    /\ writer' = [writer EXCEPT ![w] = [pc |-> "done", base |-> None]]
    /\ UNCHANGED <<sessions, slot, boot, told, events>>

\* Half an hour, or a day, after the session was touched, or made.
Quiet(s) ==
    /\ Happens
    /\ sessions[s].state = "asking" /\ ~sessions[s].quiet
    /\ Put(s, [sessions[s] EXCEPT !.quiet = TRUE])
    /\ UNCHANGED <<slot, calm>>

Old(s) ==
    /\ Happens
    /\ Found(s) /\ ~sessions[s].old
    /\ Put(s, [sessions[s] EXCEPT !.old = TRUE])
    /\ UNCHANGED <<slot, calm>>

\* A session whose finalize was under way is finalized by nobody later.
Crash ==
    /\ Happens
    /\ told' = [s \in Sids |-> IF \E c \in Slots : slot[c].pc \in Finalizing /\ slot[c].sid = s
                               THEN "died" ELSE told[s]]
    /\ slot' = [c \in Slots |-> Idle]
    /\ writer' = [w \in Writers |-> IF writer[w].pc = "loaded"
                                    THEN [pc |-> "idle", base |-> None] ELSE writer[w]]
    /\ boot' = [s \in Sids |-> IF boot[s] \in {"look", "post"} THEN "lost" ELSE boot[s]]
    /\ UNCHANGED <<sessions, account, over>>

-----------------------------------------------------------------------------
Handle(c) ==
    \/ Expire(c) \/ Fresh(c) \/ Keep(c) \/ Change(c) \/ Answer(c) \/ Cancel(c)
    \/ Prune(c) \/ Open(c)
    \/ Finalize(c) \/ SaveAccount(c) \/ FinalizeFails(c) \/ StartPhase(c)

Boot(s) == BootDraft(s) \/ BootPost(s) \/ BootFails(s)

Next ==
    \/ \E c \in Slots : Look(c) \/ Begin(c) \/ Handle(c) \/ \E s \in Sids : Click(c, s)
    \/ \E s \in Sids : Boot(s) \/ Quiet(s) \/ Old(s)
    \/ \E w \in Writers : WriterLoads(w) \/ WriterSaves(w)
    \/ Crash

Spec == Init /\ [][Next]_vars

-----------------------------------------------------------------------------
(* Properties.                                                              *)

\* The questions answered are exactly those before the current one, whoever
\* answered them; a completed session has them all.
AnsweredInOrder ==
    \A s \in Sids :
        /\ \A q \in Questions : (sessions[s].answers[q] # Unanswered) <=> q < sessions[s].q
        /\ sessions[s].state = "completed" => sessions[s].q = NumQuestions + 1
        /\ sessions[s].state = "asking" => sessions[s].q \in Questions

\* start never opens a second session beside a live one.
OneLiveSession == Cardinality(Live) <= 1

\* The three of them together.
WizardInv == TypeOK /\ AnsweredInOrder /\ OneLiveSession

\* However many answers arrive at once, a session that is completed is finalized
\* by one of them, once: somebody is at it until the customer is told, and whom
\* a first draft is promised has one under way.
FinalizedOnce ==
    \A s \in Sids :
        LET at == {c \in Slots : slot[c].pc \in Finalizing /\ slot[c].sid = s} IN
        /\ Cardinality(at) = (IF at # {} THEN 1 ELSE 0)
        /\ told[s] # "no" => at = {}
        /\ told[s] = "applied" => boot[s] # "none"
        /\ sessions[s].state = "completed" /\ told[s] = "no" => at # {}

\* A change of account.json that was made is still in it, unless a writer that
\* had read the file before it wrote after it.
AccountKeeps ==
    /\ \A w \in Writers : writer[w].pc = "done" => w \in account.log \cup over
    /\ \A s \in Sids : told[s] = "applied" => s \in account.log \cup over
=============================================================================
