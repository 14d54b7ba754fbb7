--------------------------- MODULE Retrospective ---------------------------
(***************************************************************************)
(* One run of the periodic retrospective (runPeriodicRetro in              *)
(* src/src/scripts/cron-periodic-retro.ts, with autoConfirmExpired and     *)
(* startRetro of src/src/posting/retrospective.ts), started by a timer or  *)
(* by a call of the bot's webhook, one per horizon.                        *)
(*                                                                         *)
(* Both writers of the sessions put a map from id to session into          *)
(* state.json, while the file's schema wants a list and a load turns a map *)
(* into one.  The model keeps the form beside the sessions: what a run     *)
(* finds, what it writes and what the schema lets through follow from it.  *)
(***************************************************************************)
EXTENDS Integers, FiniteSets

CONSTANTS
  Horizons,  \* daily, weekly, monthly, quarterly, half
  Retros     \* session ids

Forms == {"absent", "list", "map"}
States == {"awaiting", "confirmed", "auto_confirmed"}
Sessions == [id : Retros, horizon : Horizons, state : States, old : BOOLEAN]
Phases == {"idle", "sweep", "start", "post"}

VARIABLES
  stored,   \* periodic_retro_sessions of state.json: its form and its sessions
  run,      \* where the run for each horizon is, and the session it started
  arrived,  \* the sessions posted in the customer's channel
  alerts    \* what the operator was told: the step that failed

retroVars == <<stored, run, arrived, alerts>>
-----------------------------------------------------------------------------
\* What the migration makes of the field at every load: a map or nothing
\* becomes a list.
Loaded == [form |-> "list", of |-> stored.of]

\* readSessionBucket: a list is no bucket.
Bucket(value) == IF value.form = "map" THEN value.of ELSE {}

\* StateJsonSchema, which every write passes: a list, or its default.
Accepted(value) == value.form # "map"

IsDue(s) == s.state = "awaiting" /\ s.old
AutoConfirmed == {IF IsDue(s) THEN [s EXCEPT !.state = "auto_confirmed"] ELSE s : s \in Bucket(Loaded)}

At(h, phase) == run[h].at = phase
Idle == [at |-> "idle"]
Goes(h, r) == run' = [run EXCEPT ![h] = r]

\* The operator is told and the run ends as failed.
Fails(h) ==
  /\ alerts' = alerts \cup {run[h].at}
  /\ Goes(h, Idle)
  /\ UNCHANGED <<stored, arrived>>

\* withStateLock: the value goes to the file, or the schema refuses it.
Writes(value) == Accepted(value) /\ stored' = value

\* An account of the earlier runtime may hold a map, one of this code a list.
RetroInit ==
  /\ \E form \in Forms, before \in SUBSET Sessions :
       /\ Cardinality(before) <= 1
       /\ form = "absent" => before = {}
       /\ stored = [form |-> form, of |-> before]
  /\ run = [h \in Horizons |-> Idle]
  /\ arrived = {}
  /\ alerts = {}

\* The timer starts the script and Discord lets it in, or the bot is called.
Begin(h) ==
  /\ At(h, "idle")
  /\ Goes(h, [at |-> "sweep"])
  /\ UNCHANGED <<stored, arrived, alerts>>

\* autoConfirmExpired writes what it found back as a map, changed or not.
Swept == [form |-> "map", of |-> AutoConfirmed]

Sweep(h) ==
  /\ At(h, "sweep")
  /\ Writes(Swept)
  /\ Goes(h, [at |-> "start"])
  /\ UNCHANGED <<arrived, alerts>>

SweepRefused(h) == At(h, "sweep") /\ ~ Accepted(Swept) /\ Fails(h)

\* startRetro: the draft, the proposals and the map with the new session.
Begun(h, r) == [id |-> r, horizon |-> h, state |-> "awaiting", old |-> FALSE]
WithNew(s) == [form |-> "map", of |-> Bucket(Loaded) \cup {s}]

Start(h) ==
  /\ At(h, "start")
  /\ \E r \in Retros :
       /\ \A s \in stored.of : s.id # r
       /\ Writes(WithNew(Begun(h, r)))
       /\ Goes(h, [at |-> "post", session |-> Begun(h, r)])
  /\ UNCHANGED <<arrived, alerts>>

\* A call of the model failed, or the write was refused.
StartFails(h) == At(h, "start") /\ Fails(h)

Post(h) ==
  /\ At(h, "post")
  /\ arrived' = arrived \cup {run[h].session}
  /\ Goes(h, Idle)
  /\ UNCHANGED <<stored, alerts>>

\* Discord did not take the thread: the run ends well, the operator is told.
PostFails(h) == At(h, "post") /\ Fails(h)

DayPasses ==
  /\ \E s \in stored.of : ~ s.old
  /\ stored' = [stored EXCEPT !.of = {[s EXCEPT !.old = TRUE] : s \in @}]
  /\ UNCHANGED <<run, arrived, alerts>>

RetroNext ==
  \/ DayPasses
  \/ \E h \in Horizons : \/ Begin(h) \/ Sweep(h) \/ SweepRefused(h)
                         \/ Start(h) \/ StartFails(h) \/ Post(h) \/ PostFails(h)

\* The timers start the runs, a run goes on, and the model and Discord,
\* asked again and again, answer again and again.
Fairness ==
  \A h \in Horizons :
    /\ WF_retroVars(Begin(h)) /\ WF_retroVars(Sweep(h) \/ SweepRefused(h))
    /\ SF_retroVars(Start(h)) /\ SF_retroVars(Post(h))

RetroSpec == RetroInit /\ [][RetroNext]_retroVars /\ Fairness
-----------------------------------------------------------------------------
\* The customer's guide promises a retrospective every evening ("その日の投稿
\* と反応をまとめた retrospective が届きます"): for every horizon whose timer
\* runs, one arrives some time (runPeriodicRetro).  It does not hold.
RetroArrives == \A h \in Horizons : <>(\E s \in arrived : s.horizon = h)
============================================================================
