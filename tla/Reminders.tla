----------------------------- MODULE Reminders -----------------------------
(***************************************************************************)
(* The proactive nudges (src/src/conversation/proactive-nudge.ts, run by   *)
(* scripts/cron-proactive-nudge.ts) and the morning digest                 *)
(* (src/src/digest/conversation-digest.ts, scripts/cron-morning-digest.ts) *)
(* over the forms of Questionnaire, which share state.json with them.      *)
(*                                                                         *)
(* A nudge checks state.nudge_state and looks for a reason, posts, and     *)
(* marks the day it is by then, in three steps.  The digest's history is   *)
(* written back with the whole of state.json as it was read, under no      *)
(* lock, and so undoes what the others wrote in between.                   *)
(***************************************************************************)
EXTENDS Questionnaire

CONSTANTS
  Kinds,     \* the nudges the timers ask for
  Patience,  \* days a form may wait before the customer is asked
  Kept       \* entries kept of the digest's history

AllKinds == {"weekly_phase_review", "monthly_phase_review", "stale_target_review",
             "unanswered_phase_followup"}

ASSUME NudgesAssumption ==
  /\ Kinds \subseteq AllKinds /\ Patience \in Nat /\ Kept \in Nat \ {0}
  /\ None \notin Nat

VARIABLES
  marks,     \* state.nudge_state.last_emitted
  digests,   \* state.daily_digest_history: the days
  said,      \* history variable: the nudges of today and yesterday, [kind, day]
  twice,     \* history variable: the kinds posted twice in a day
  unmarked,  \* history variable: the kinds whose mark was lost or came late
  reverted   \* history variable: a digest wrote back older forms

rvars == <<marks, digests, said, twice, unmarked, reverted>>
dayVars == <<fvars, rvars>>

RemindersInit ==
  /\ marks = [k \in Kinds |-> None]
  /\ digests = <<>>
  /\ said = {}
  /\ twice = {}
  /\ unmarked = {}
  /\ reverted = FALSE

DayInit == FormsInit /\ RemindersInit

Nudging(w, k) == job[w].at \in {"say", "mark"} /\ job[w].kind = k
FormsStay == UNCHANGED <<forms, threads, day, used, dead, joint>>
-----------------------------------------------------------------------------
\* emitNudge

\* What has waited too long for answers, in the order of the list.
StaleFaulty == SelectSeq(forms, LAMBDA f : f.status = "in_progress" /\ f.started + Patience < day)  \* Faulty: a status no form has.
Stale == SelectSeq(forms, LAMBDA f : f.status = "awaiting" /\ f.started + Patience < day)

\* A timer fires, the kind was not emitted today, and there is something to
\* say: a form that waits, the first of the list; a target with no recent
\* find, or a past phase to review, which other parts of the program decide.
\* Otherwise the call ends with nothing changed.
Nudge(w, k) ==
  /\ At(w, "idle")
  /\ marks[k] # day
  /\ k = "unanswered_phase_followup" => Stale # <<>>
  /\ Goes(w, [at |-> "say", kind |-> k])
  /\ unmarked' = IF \E v \in Workers : Nudging(v, k) THEN unmarked \cup {k} ELSE unmarked
  /\ FormsStay /\ UNCHANGED <<marks, digests, said, twice, reverted, events>>

Say(w) ==
  /\ At(w, "say")
  /\ LET nudge == [kind |-> job[w].kind, day |-> day] IN
       /\ said' = said \cup {nudge}
       /\ twice' = IF nudge \in said THEN twice \cup {nudge.kind} ELSE twice
  /\ Goes(w, [job[w] EXCEPT !.at = "mark"])
  /\ FormsStay /\ UNCHANGED <<marks, digests, unmarked, reverted, events>>

\* The model or Discord fails: the call ends.
NotSaid(w) ==
  /\ At(w, "say")
  /\ Goes(w, Idle)
  /\ FormsStay /\ UNCHANGED <<rvars, events>>

\* markNudgeEmitted, in one lock.
Mark(w) ==
  /\ At(w, "mark")
  /\ marks' = [marks EXCEPT ![job[w].kind] = day]
  /\ Goes(w, Idle)
  /\ FormsStay /\ UNCHANGED <<digests, said, twice, unmarked, reverted, events>>

\* A call that dies here leaves its nudge unmarked.
DieUnmarked(w) ==
  /\ Die(w)
  /\ unmarked' = IF At(w, "mark") THEN unmarked \cup {job[w].kind} ELSE unmarked
  /\ UNCHANGED <<marks, digests, said, twice, reverted>>
-----------------------------------------------------------------------------
\* postMorningDigest, with no test of what was posted today.

Digest(w) ==
  /\ At(w, "idle")
  /\ Happens
  /\ Goes(w, [at |-> "digest", date |-> day])
  /\ FormsStay /\ UNCHANGED rvars

\* The digest is on Discord, and the state is read for its history; a post
\* that fails ends the script.
PostDigest(w) ==
  /\ At(w, "digest")
  /\ \/ Goes(w, Idle)
     \/ Goes(w, [at |-> "record", date |-> job[w].date,
                 forms |-> forms, marks |-> marks, digests |-> digests])
  /\ FormsStay /\ UNCHANGED <<rvars, events>>

Newest(list) == SubSeq(list, IF Len(list) > Kept THEN Len(list) - Kept + 1 ELSE 1, Len(list))

\* recordHistory: the whole of the state goes back as it was read.
Record(w) ==
  /\ At(w, "record")
  /\ forms' = job[w].forms
  /\ marks' = job[w].marks
  /\ digests' = Newest(Append(job[w].digests, job[w].date))
  /\ reverted' = (reverted \/ job[w].forms # forms)
  /\ unmarked' = unmarked \cup {k \in Kinds : job[w].marks[k] # marks[k]}
  /\ Goes(w, Idle)
  /\ UNCHANGED <<threads, day, used, dead, joint, said, twice, events>>
-----------------------------------------------------------------------------
\* No call takes a whole day between its post and its mark.
NextDay ==
  /\ DayPasses
  /\ \A w \in Workers : At(w, "mark") => [kind |-> job[w].kind, day |-> day] \in said
  /\ said' = {n \in said : n.day = day}
  /\ UNCHANGED <<marks, digests, twice, unmarked, reverted>>

NudgeSteps(w) == Say(w) \/ NotSaid(w) \/ Mark(w)

FormsGoOn(w) == (Start(w) \/ Submit(w) \/ FormSteps(w)) /\ UNCHANGED rvars

DayNext ==
  \/ \E w \in Workers : FormsGoOn(w) \/ DieUnmarked(w) \/ NudgeSteps(w)
                        \/ Digest(w) \/ PostDigest(w) \/ Record(w)
  \/ \E w \in Workers, k \in Kinds : Nudge(w, k)
  \/ NextDay

Continues(w) == (FormSteps(w) /\ UNCHANGED rvars) \/ NudgeSteps(w) \/ PostDigest(w) \/ Record(w)

\* A call that has begun goes on; the timers fire again and again; Discord
\* takes a message in the end.
Fairness ==
  /\ \A w \in Workers : WF_dayVars(Continues(w)) /\ SF_dayVars(Say(w))
  /\ \A k \in Kinds : SF_dayVars(\E w \in Workers : Nudge(w, k))

DaySpec == DayInit /\ [][DayNext]_dayVars /\ Fairness
-----------------------------------------------------------------------------
DayTypeOK ==
  /\ FormsTypeOK
  /\ \A k \in Kinds : marks[k] = None \/ marks[k] \in Nat
  /\ digests \in Seq(Nat) /\ Len(digests) <= Kept
  /\ twice \subseteq Kinds /\ unmarked \subseteq Kinds

\* A mark of today stands for a nudge the customer got today, or just before
\* midnight: the mark takes the day of its own step (markNudgeEmitted).
MarkMeansSaid ==
  \A k \in Kinds : marks[k] = day =>
    \E n \in said : n.kind = k /\ n.day \in {day, day - 1}

\* What Questionnaire promises, as long as no digest wrote back older forms.
FormsHold == reverted \/ (ThreadHasForm /\ SynthesisGoesOn /\ SynthesisIsCurrent)

\* A nudge is posted twice in a day only where a mark was lost: a death, a
\* digest's late write, or two runs at once (emitNudge).
NudgedOnce == twice \subseteq unmarked

\* The four of them together.
DayInv == DayTypeOK /\ MarkMeansSaid /\ FormsHold /\ NudgedOnce

\* An answer a form has been given stays with it, however submissions,
\* failures and reminders interleave, but for a digest that had read the
\* forms before it was given (submitPhaseAnswers, recordHistory).
AnswersGrow ==
  [][\A f \in Forms : Known(f) =>
       \/ Known(f)' /\ Form(f).answers \subseteq Form(f)'.answers
       \/ \E w \in Workers : At(w, "record") /\ job[w].forms # forms]_dayVars

\* A form has waited for its answers longer than the customer's patience.
SomeoneWaits ==
  \E i \in DOMAIN forms : forms[i].status = "awaiting" /\ forms[i].started + Patience < day

\* While a form has waited too long, the customer is asked about it every
\* day (emitUnansweredPhaseFollowup).
WaitingIsFollowedUp ==
  []<>(~ SomeoneWaits \/ marks["unanswered_phase_followup"] = day)
=============================================================================
