# A TLA+ model of mex-next

mex-next runs X (Twitter) accounts for customers.  Each account has a
long-lived Discord bot and oneshot processes that systemd timers start (daily
draft, scheduled publication, collectors of replies, quotes and tracked tweets,
nudges, digests, retrospectives, self-check).  They share the files of one git
repository, first of all `state.json` and `account.json`, and call the same
services: X, Discord and language models.  What is hard in the program is how
these processes, and the turns of the bot, share those files around calls that
take long, fail, or answer late.

Paths are relative to the repository; a path without a directory is found in
PROJECT.json, which names for every definition the lines it models ("map"), for
every component its status, and under "hazards" the places where the code can go
wrong in a way a unit test hardly meets, with the properties that watch them.

## Inventory

### Shared state

| Store | Content | Writers |
|---|---|---|
| `state.json` | publish queue, posting sessions, skip dates, sessions of replies, quotes, tracked tweets, onboarding, questionnaires, retrospectives, poll cursors, nudge marks, alert windows | bot and every cron |
| `account.json` | automation level, cadence, plan, onboarding answers | handlers, onboarding, write-back |
| knowledge files, git index and history | rendered text; backups | bot and crons |
| memory of the bot | conversation locks, parked confirmations, running turns | bot |
| file of pending turns | one record per conversation with a turn under way | bot |

`state.json` is changed in two ways.  `withState` (`account-state/repo.ts`,
`io.ts`) reads, changes and writes under a lock directory that excludes other
processes.  `loadState` followed by `writeState` takes no lock: the whole file is
written back as it was read with one field changed.  `account.json` has no lock
at all.

### Components

| Component | Operations | Correct when | Hard because | Modelled in |
|---|---|---|---|---|
| publish queue | enqueue, due scan, mark, cancel, release | nothing due is lost, nothing tweeted twice, early or recorded without a tweet | cron and bot work on it at once, the X call lies between two locked steps | `PublishQueue` |
| scheduled publish cron | scan, post, mark | every due item is settled | death between post and mark, stale list, retries | `PublishQueue` |
| schedule handlers, skip days, enable_all | cancel, publish now, skip, release | a session is not left waiting for nothing | unlocked reads before the locked step | `PublishQueue` |
| posting sessions | create, index, generate, validate, decide, expire | the gate is hard, repairs are capped | model calls between locked steps | `PostingSession` |
| daily auto post, content seeding | sequence of those operations | runs end; verdicts are on current drafts | several drivers | `DraftRuns` |
| state store | lock, read, write, rename, release | locked changes are serial and whole | stale locks, deaths, unlocked writers | `StateStore` |
| schemas, migration, launch | parse, migrate, launch an account | loading loses and revives nothing | two vocabularies, readers that do not migrate | `AccountFiles` |
| reply and quote collectors, poll cursors | fetch, judge, dispatch, suspend | nothing is lost behind the cursor or shown twice | deaths between two writes, failing services, a write the schema refuses | `Inbound` |
| tracked tweets: discovery, automation, buttons | discover, like, quote, card; press | one post and one card per tweet | cron and bot write the whole file back without the lock, writes that throw are caught as something else | `Targets` |
| conversation locks, turns, cancellation | ask, run, record, cancel, crash | one turn at a time, first come first served | counters and promises on both sides of an await | `Conversation` |
| confirmations, tool runner, agent loop | park, approve, decline, expire, execute | a confirmed call runs once per prompt | two paths to a handler, fallback, expiry | `Conversation` |
| onboarding | start, answer, keep, change, cancel, finalize, first draft | answers in order; one live session; finalized once | clicks and messages at once | `Onboarding` |
| phase questionnaire | start, submit, synthesize, chain | a synthesis is of the answers kept | overlapping submissions, deaths | `Questionnaire` |
| nudges and digest | nudge, mark, digest | once a day, and every day while a form waits | marks in a step of their own, whole-file write | `Reminders` |
| retrospective | sweep, start, post | one arrives for every horizon | what is written has not the form that is read and accepted | `Retrospective` |
| plan write-back | apply, roll back | | two files under one lock; nothing in the program comes to it | `StateStore` (the lock) |
| retry, breaker, X client, LLM bridge | begin, succeed, fail, wait | the probe budget holds, the breaker closes again | late answers | `Outbound` |
| git sync | add, diff, commit, push | a backup that does not fail has committed what was written before it | backups overlap and share the index and its lock, writes that ask for none | `Outbound` |
| operator escalation | judge, post | one alert a window | the mark is a state write | `Outbound` |
| preflight, self-check | login, gates, alert | the verdict is fair | gates read at different moments | `Preflight` |
| approval flow | create, click, time out | | nothing creates one | not modelled |
| session history, intents, Discord adapters, prompts, news, read-only handlers, configuration, logs | | | | not modelled |

Interactions.  The message handler calls the conversation runner inside a turn;
the runner calls the handlers; handlers and crons meet in `state.json`,
`account.json` and X.  The queue changes posting sessions
(`propagateToPostingSession`); `enable_all` releases held items; buttons of
tracked tweets put items into the queue; the end of the onboarding starts a
questionnaire and a first draft; most writes of the bot ask for a backup, those of
the crons and of the buttons of tracked tweets do not; a failing backup, gate or
service raises an alert, which writes the state again.

## Modules

| Module | What it is |
|---|---|
| `PublishQueue` | queue, publishing cron, the bot's turns and the stale writers that work on them |
| `PostingStates` | the transition matrix of `posting/states.ts` |
| `PostingLifecycle` | abstract: what the state machine promises for a session, whoever calls it |
| `PostingSession` | the state machine under arbitrary callers; implements `PostingLifecycle` |
| `DraftRuns` | the code that drives it, composed with `PostingSession` |
| `ConversationLock` | abstract: one turn at a time, in the order of asking |
| `Conversation` | message handler, lock, turn, record, confirmations, both ways to a call; implements `ConversationLock` |
| `Register` | abstract: each change is made once, whole, and stays |
| `StateStore` | the lock of `state.json`, its callers and those who do without; implements `Register` but for writers outside the lock |
| `Inbound` | collectors of replies and of quotes with their cursor |
| `Targets` | discovery, automation and buttons of tracked tweets |
| `Onboarding` | the wizard and the other writers of `account.json` |
| `Questionnaire` | the forms and their syntheses |
| `Reminders` | nudges and digest, composed with `Questionnaire` |
| `Retrospective` | a run of the retrospective script, and the form in which its sessions are stored |
| `AccountFiles` | documents, schemas, migration, launch, script |
| `Preflight` | the self-check, composed with `AccountFiles` and the working tree |
| `Outbound` | calls behind retry and breaker, backups, alerts |
| `MC...` | model values, definitions and symmetry for TLC |
| `PublishQueueProofs`, `PostingSessionProofs`, `ConversationProofs`, `StateStoreProofs`, `InboundProofs`, `TargetsProofs`, `OnboardingProofs`, `OutboundProofs` | the theorems |

### Conventions

A section under `withState` is one step in every module but `StateStore`, which
shows when that is justified: such sections exclude each other unless a lock goes
stale in a live holder's hands, and an unlocked write that lands inside one is
overwritten when it ends, which is the behaviour in which it never happens.  A
call of X, Discord or a model lies between two steps.  A call that throws changes
nothing; what the caller's catch clause does is an action or a branch.  History
variables are marked as such where they are declared.  Operators named
`...Faulty` are plausible mistakes beside the operator they would replace; no
action uses them, and each shows that a property is able to fail.

### PublishQueue

| State | Code |
|---|---|
| `queue`, `session`, `skipDates` | `publish_queue`, the state of the posting session of each content, `skip_dates` |
| `worker` | the cron and each bot turn: the list it read, where in its loop it is, the outcome of the X call in hand |
| `snapshot` | for each collector between `loadState` and `writeState`, the copy it read |
| `cronTweets`, `nowTweets`, `lost` | history: tweets X accepted, and records of them that were lost |

`CronStart` is the due and stale scan, `Attempt` and `Retry` the X call with the
tries inside the client, `Mark` and `MarkPublishedThrows` the locked mark and the
catch clause that turns one into the other; `PublishNow`, `CancelStart`,
`CancelNext`, `TurnFails` the schedule handlers; `Enqueue`, `SkipToday`,
`UnskipToday`, `ReleaseHeld` the operations of those names; `CollectorRead` and
`CollectorWrite` the unlocked writers; `CronDies`, `BotDies` a death between any
two steps.  The text of an item is its content and its normalised prefix.
`reschedulePublish` has no caller and is left out.

### PostingSession, DraftRuns

`session[i]` is the stored session with its current candidate (repair count and
verdict), `caller[c]` where a caller is between two locked steps and what it
captured before its model call.  `CreateSession`, `IndexContext`, `Generate...`,
`Validate...`, `ApplyDecision` and `ExpireStaleSessions` are the methods; rules,
similarity and scores are one nondeterministic verdict: passed, failed, or failed
in a way that may pass on another try.  `DraftRuns` adds the drivers: the guarded
daily run, a draft on request, and a seeder that approves.  What nothing in
`src/` calls on that path is not an action there.  The refinement maps a
session's state to `phase` and "the verdict is passed" to `approved`.

### StateStore

A file is the set of calls whose change it holds.  `pc` follows a call from
`Check` (is the file there) over `Create`, `Acquire`, `Read`, `SaveAccount` (only
the write-back), `Write` to `Release`; `age` and `patience` are the staleness of
the lock and the retries of a waiter; `Stall`, `Wake` and `Compromised` an event
loop that stands still and what proper-lockfile does when it runs again; `Crash`
the death of a process at any step.  `overrun` collects the calls whose lock was
taken away, `excused` the changes a writer outside the lock dropped or slipped in.

### Conversation

`pc` follows a message through handler, lock and turn; `tail`, `prev`,
`running`, `queued` are the entry of `inflightByConversation`; `pending` the record
on disk; `conf` and `expired` the confirmation
parked and the one kept after its expiry.  What the models answer is a choice: a reply,
a call, a failure that falls back to the intent classifier.  `ticket` and `asked`
number the messages in the order of asking (history), `unspent` counts prompts
less executions (history).  `Cancel` is handled at every point although nothing
calls `cancelTurn` yet.  `Crash` loses the memory and keeps the files.

### Inbound, Targets

`Inbound` is one algorithm with `kind` for its two uses.  A poll keeps what it
does to the sessions in memory (`work`), stores it (`SaveSessions`) and then moves
the cursor (`AdvanceCursor`); a death may come between any two events.  A reply
that could not be judged is `Deferred` in memory only: `SchemaRefuses` says that the
file's schema has no such status, and `SaveThrows` is the write that then throws with
all the poll has done.  `FetchFails` counts the streak and suspends; `PollSuspended` is
the poll of a suspended cursor, which finds no deferred session to try again.
`BotReads` and `BotWrites` are the bot's unlocked write.  `overflow`, `undone` and
`surplus` (history) are the events a full page hid, those a stale write took away, and
threads shown beyond those remembered.

`Targets` has two processes: the cron (`pc`, `found`, `open`, `copy`) and the bot's
presses (`press`).  Discovery fetches one page (`Page`), moves the cursor first and
stores the sessions after, the reverse of `Inbound`; when the fetch fails it still
writes the sessions as it loaded them (`DiscoverFails`).  Each button is a read, a call
and a write of the old copy.  Every write of the code is a load of the whole file and a
write of it, without the lock.  With nothing between the two that is one step (`Put`);
when another write comes between, the result is what `Overwrite` makes of the file
(that of the earlier load, `LoadAll`) and then `Put`, and both may come at any moment.
`WriteThrows` and `CardForgotten` are writes that throw and are caught: by the clause of
a card, which takes it for a failure of Discord, or by that of the session, which shows
the card of the fallback; those that nothing catches are in `CronDies`.  `passed`,
`lost` and `undone` (history) are tweets discovery saw and left, those whose session a
fault or an older write took, and those that were settled and came open again.  Quotes
and replies go the same way and are one kind here.

### Onboarding, Questionnaire, Reminders

A slot (worker) is a message, click, call or process under way with what it has
read.  An answer is typed, the saved value of its question, or a skip; a synthesis is
the set of answers it was made from.  `Reminders` writes the mark of a nudge in the day
of its own step, and the digest writes the whole file back.

### Retrospective

`stored` is the field of `state.json` with its form: absent, a list, or a map as an
account of the earlier runtime may hold.  `Loaded` is what the migration makes of it,
`Bucket` what the code finds in that, `Accepted` the schema's verdict on what is
written.  `run` follows one run per horizon: `Sweep` and `Start` write through
`Writes`, which is enabled for what the schema accepts; `SweepRefused`, `StartFails` and
`PostFails` are the catch clauses of the script.  Since both writers write a map,
`Sweep` and all after it are never reached: this is the code, and the run
`retro_arrives` shows it.

### AccountFiles, Preflight

A field of `state.json` that keeps sessions is missing, a list, a map or something
else; an entry is a name, a status and, for tracked tweets, a phase.  `Migrated`,
`Accepts`, `Parsed` and `Loaded` are the migration, the schema's verdict, its
defaults, and what `loadState` hands out; `named` and `finished` (history) are the
entries there ever were and those done with.  `Found` is the file as `withState` finds
it: one that is not there is created first.  `Preflight` logs in to Discord
(`LoginFails` is the check that ends there, and tells nobody) and runs the gates in
their order, each reading when its turn comes (`RunGate`), while handlers, backups,
knowledge files and surroundings go on.  Keys, token and runtime are what the process
was started with; the registry is the file the operator keeps, not the one the launch
wizard appends to.  `Tell` is the alert with its state write, which creates a missing
`state.json` and leaves the tree dirty with no backup asked for.  `check.ever` and
`check.always` (history) are what was wrong at some and at every moment of the check.

### Outbound

A worker is a call: of an upstream through `retryWithBackoff` and a breaker, a
backup with its git commands, or an alert.  A call carries the half-open period it
was let through in, the tweets it made and those of them whose answer was lost.
`Written(asks)` is what a write of the account directory does: the tree is dirty, and a
backup is asked for or, for `writeState`, `writeAccount` and whatever a cron writes, is
not; an alert writes too.  `AddBegins` and `CommitBegins` take the lock of git's index
or fail because another backup has it.  `last` is history.

## What the runs check

| Run | Instance | Shows |
|---|---|---|
| `publish_cron` | cron, a bot turn, a collector, one content, two items, an empty, held or scheduled start, two requests, a retry, a death | the inductive invariant of the proofs; the cron tweets again only when a record was lost; only stale writes revive; only `skipToday` strands sessions; due items are settled |
| `session_open` | three callers, two sessions, cap 2, three drafts | the invariant and the refinement of the state machine under any overlap |
| `draft_runs` | guarded run, request, seeder; three sessions, three runs | verdicts are on current drafts; runs end |
| `conversation_turns` | three messages of one thread, room for one to wait, a confirmed and a display call, expiry, cancellation, disk failures, a crash | one turn at a time and in order (refinement); records live as long as turns; a confirmed call runs once per prompt; refusals only when full; every message settles |
| `inbound_polls` | three events, pages of two, two tries, suspension, a death, a stale write of the bot | nothing lost behind the cursor or shown twice without a loss, refused writes included; the collector catches up if from some time on every reply is judged |
| `target_cron` | two tweets, pages of one, three inputs (tweets, presses, changes of level, deaths, writes that throw, writes of an older file), a press beside the cron | one post and one card per tweet but for lost records, tries counted, the cursor passes only what was left or lost, nothing stays open |
| `state_store` | a `withState` call, a write-back, an unlocked writer, two deaths, a stall | mutual exclusion but for stale locks; the register; calls end and the lock comes free |
| `onboarding_wizard` | two messages or clicks at a time, two questions, two sessions, another writer of `account.json`, seven events | answers in order, one live session, finalized once, changes of the account lost only by an overlap |
| `retro_arrives` | two horizons, two session ids, any session an older runtime left | expected to fail: the customer's guide promises a retrospective, and none ever arrives |
| `reminders_days` | two calls, two forms of one question, two nudges, the digest, three events | marks, syntheses and threads are sound, a nudge once a day, answers grow, what waits is followed up |
| `account_files` | every shape and vocabulary of up to two entries of a field, every account; a write of the bot or a death; a self-check with one change around it, over sixteen pairs of documents | loading is idempotent and writable, nothing lost or revived, a registered account has its files, the verdict is fair |
| `outbound_calls` | two calls at a time, one retry, threshold 2, three faults, a write that asks for a backup or not beside those of the alerts, a window of one tick | probe budget, second tweets, commits, alert windows, the breaker recovers |

Each run is one question put to a component or a composition, so an invariant of a
run is often the conjunction of the named ones above it in the module.

### Bounds, and why they are enough

- Actors.  Two calls, slots or workers overlap in every way that two can; the
  properties speak of one session, item or form and of one or two that change it.
  A third is there where order among waiters matters: `conversation_turns` needs
  one that runs, one that waits and one that comes.
- Items.  Two items, sessions or events: one that clashes with, precedes, hides or
  is written over by the other.  In `publish_cron` one content, so that both items
  share a session, the hard case.  Pages of two for three events, pages and choices of
  one for two tweets (`PageSize`, `MaxNew`) overflow.
- Retries and caps.  The code's numbers (three to five tries, cap 2, threshold 5) are
  reduced to the least that tells a first from a last try: two tries, cap 2,
  threshold 2, tolerance 2, one retry of the X client, one message waiting.  Where
  the arithmetic at the limit matters the theorem holds for every value.
- Time.  Counters of ticks with `Day`, `Ttl`, `Cooldown`, `Window` of one tick have
  the instants before, at and after a boundary; `StaleAfter` 2 and `Patience` 1 keep
  the order of the code's 30 s and its shorter retry budget.  In `reminders_days` a
  form may wait no day (`Patience` 0), so that it waits too long within three events.
- Faults.  One or two deaths, one stall, one stale write, three failing calls: a fault
  and what follows it, and a fault during the recovery.  In `target_cron` faults, presses
  and tweets share three inputs: a tweet, and two things that happen to it.  `MaxEvents`, `MaxInputs`,
  `MaxRequests`, `MaxRuns` and `MaxChanges` bound what comes from outside.
- `account_files`.  The self-check is combined with three pairs of documents (none;
  a starter account with an old queue; one with an unknown state) and every other pair
  is loaded, migrated, launched and written without a check: a gate asks of a document
  only whether it is there and valid.  The service stops only between two checks.
  `recent` may start with an alert for git, which is what makes a second one silent.
- Symmetry is used in `session_open` and `onboarding_wizard`, which have no liveness
  property.

`CHECK_DEADLOCK FALSE` is set where the inputs are bounded and everything may come to
its end.  The queue, the collectors, the retrospective and the outbound calls never stop: their
timers go on.

### Fairness

Assumed is what systemd and the runtime give: a oneshot process is started again and
again, a call that runs goes on (calls of X, Discord and models end by their
timeouts), the clock goes on.  These are weak fairness conditions on the steps of
the process and on `Tick`.  Strong fairness is assumed of a service that is asked
again and again and must succeed at last for the property to be possible at all:
`FetchSucceeds` (`Inbound`), `AutoLike` (`Targets`), `Say` (`Reminders`), `Succeeds` and
the calls made at an upstream (`Outbound`), `Start` and `Post` (`Retrospective`, where
they do not help: the step before them never succeeds); and of the timer whose step is
enabled only while no other call holds the worker (`Nudge`).  Of the judgement of
replies nothing is assumed: `CatchesUp` says what follows if it succeeds for good.  Nothing is assumed of customers, of handlers, of marks (each may throw),
of calls of a session's expiry (nothing makes them) or of what the models answer.
Deaths and faults are bounded: a process that dies in every run does nothing, and the
code promises nothing else.

## What is proved

Every theorem holds for all values of the constants under the assumption of its
module, which TLC evaluates in the run.  An invariant is proved from an inductive
strengthening; each proof has a lemma per conjunct and in it a step per action.

- `PublishQueueProofs`: `TypeCorrect`, `Invariance`, `NoPendingDuplicates`,
  `NoPhantomPublication`, `SessionsSettleWithItems`, `CronTweetsOnce`,
  `CronIsNeverEarly`, `OnlyCollectorsRevive`, `OnlySkipStrandsSessionsHolds`.  The invariant `Inv` says of every copy
  a collector may write back what is said of the file (`CopiesOK`); an id has one time
  in all copies and the cron has begun no item too early (`TimesOK`); ids not given out
  are used nowhere (`FreshIds`), without which a stale copy and a new item could share
  one; who is about to record a publication has tweeted (`MarksTweeted`); each tweet of
  the cron is recorded, in flight or lost (`Accounted`).  That a scheduled session keeps an
  item that waits (`KeepsWaiting`) is shown step by step: what settles an item settles the
  sessions of its content with it (`SettlingPropagates`), but for `skipToday`.
- `PostingSessionProofs`: `SessionTypes`, `SessionInvariance`, `GateIsHard`,
  `RepairsCapped`, `MachineImplementsLifecycle`; for the composition with the code that
  drives the machine `VerdictIsOnCurrentDraftHolds` and `RunsImplementMachine`.
  `InHandBelowCap` is the addition: the counts callers carry across their model calls, and
  those of candidates that wait for validation, are strictly below the cap, so that an old
  candidate written back with one added stays within it.  Of the runs it is needed that no
  two of them drive one session (`OwnSession`) and that what the machine has in hand of a
  session is the call its run is in (`CallOfRun`): so nobody changes a draft under a
  judgement.
- `StateStoreProofs`, who writes `state.json` and what it holds.  Of its writers
  `MutualExclusionHolds`, `StoreImplementsRegister`.  Whoever is
  in the section has the lock or is noted as overrun (`HolderInv`), a lock is stale only
  when its holder is dead or noted (`StaleInv`), a call has read no more than there is
  (`CopyInv`) and, under a good lock, no less (`SectionInv`): so its write keeps what is
  there.  Of its contents `FilesInvHolds`, `FinishedStaysHolds`, for any set of names and
  any length of a field.  A value is `Clean` in the form the schema hands out, and `Fixed`
  when no tweet in it is up as given up besides: migrating and parsing make a `Fixed` value
  of whatever is accepted (`FieldFixed`), leave one alone (`FixedSame`, `CleanSame`), and
  keep of each name the statuses, remapped (`FieldFound`, on `ListOfMap` and `MapOfList`
  for the two conversions).  `DocumentInv` adds that every step leaves a file alone or
  writes a `Clean` one that still holds the names there were (`Holds`), and that the wizard
  is past a file only when it is right (`LaunchInv`).  Of the self-check
  `VerdictIsFairHolds`: `CheckInv` relates what failed to what was wrong at some moment and
  at every moment of the check so far, gate by gate (`FairInv`, `GatesPassed`); an account
  loaded that the knowledge files have become different from was wrong once (`LoadInv`).
- `ConversationProofs`: `TurnInvHolds`, `LockSpecHolds`, `RecordLivesAsLongAsTurnHolds`,
  `ExecutedOncePerPromptHolds`, `RefusedOnlyWhenFullHolds`.  Tickets number the messages of a conversation; who waits
  has nobody unfinished before it or waits for the ticket before its own (`PrevInv`); the
  map entry is missing only when all are finished and else names the last ticket
  (`TailInv`); hence who has the lock has only finished ones before it (`FifoInv`), which
  is the order `ConversationLock` asks for.  The counter of waiters counts too few, never too
  many: the last `queued` tickets of a conversation are all waiting (`CapInv`), so a refusal
  for overload names that many waiters.  Records follow from it (`RecordInv`); for the
  confirmations `PromptInv` counts the parked call, the approved one and those under way
  against the prompts given out.
- `InboundProofs`: `CursorPassesOnlyStoredHolds`, `PollInvHolds`.  Each copy of the
  sessions - the file's, the bot's, the poll's - keeps what the cursor beside it has
  passed (`KeptInv`), the poll's with the events it has yet to visit (`WorkInv`), the
  file's from `SaveSessions` on (`SavedInv`).  The poll's copy alone may hold a deferred
  reply (`Typed`), and a write puts it into the file only when it holds none.
  `ShownInv` says which copy remembers a thread that was shown; it and the count of tries
  hold of every copy because every copy may be written back.
- `TargetsProofs`: `TargetInvHolds`, `CursorPassesOnlyKeptHolds`.  `PlaceInv` says what the
  cron holds at each place and where the tweet it has in hand may be; `OnceInv` that a tweet
  that was posted or shown is settled in the file and in what discovery will write, and not
  before the loop again, or was reopened by an older file or a failed record (`undone`), and
  that where the cron is about to post or show nothing was done;
  `ComingInv` that an older file has an older cursor, and that discovery holds, passed or lost
  what the cursor is about to move over; `TriesInv` bounds the counts in every copy.
  Of the reminders `DayInvHolds`, `AnswersGrowHolds`.  An id a call is opening is in
  no list, no copy of a digest and no other call's hands (`FreshInv`), so that keeping a form
  replaces none; what a submission carries is what its form keeps unless another overlapped
  or died (`CarryInv`); a mark of today, in the state or in a digest's copy, was said
  (`MarksInv`); a kind said today is marked, about to be, or has lost its mark, and who is
  about to say it again is behind a lost one (`NudgeInv`).
- `OnboardingProofs`: `WizardInvHolds`, `FinalizedOnceHolds`, `AccountKeepsHolds`.  Each
  slot's copy of a session names one that is still there or was pruned, and what is
  finalized has ended and stays so (`SlotInv`); a session that has ended by its answers is
  at exactly one slot until the customer is told, and at none afterwards (`EndInv`), which
  is why one handler finalizes it.
- `OutboundProofs`: `OutboundInvHolds`, `OncePerWindowHolds`.  The last commit is behind
  the index and the index behind the tree, a backup that has staged finds in the index what
  was written before it began, whoever staged last, and one that found nothing new or has
  committed finds it in the last commit (`CommitInv`); an entry
  dropped from the table was let through a window ago, and one that is there carries the
  time of the last post (`WindowInv`); a half-open period without a call in flight has no
  call begun in it (`ProbeInv`).  `OutboundInvHolds`
  assumes `Probes = 1`, the default every caller leaves in force: with a larger budget it
  does not hold (below).

Only model-checked: liveness, which needs fairness and ENABLED and is out of the prover's
reach (`DueItemsSettle`, `RunsEnd`, `EveryMessageSettles`, `CatchesUp`, `OpenIsHandled`,
`CallsEnd`, `WaitingIsFollowedUp`, `BreakerRecovers`).  Every invariant
and every action property that a run checks has a theorem.  No module declares a recursive
operator.

## Where code and documentation differ

These were read off the code while it was modelled.  One documented statement is the
property of a run, `retro_arrives`, and refuted by it; of the others the actions follow the
code where a difference lies in modelled behaviour, and the properties above say what does
hold; the rest (wording, operations without a caller, data nothing reads) is outside the
models.

Publishing.
- `publish_now` and the cron may both tweet an item: `docs/developer/40-storage-and-migration.md:91`
  relies on a lock that is not held across the X call (`cron-run-scheduled-publish.ts:219`,
  `schedule.ts:338`).
- `queue.ts:10` says that all mutations go through the lock; the collectors write the whole
  file back without it (`inbound-reply.ts:427`), and a published item waits again.
- The cron posts what its list says, also what was cancelled since
  (`docs/customer/04-cadence-and-skip.md:61`).
- The propagation assigns a session's state without the matrix (`queue.ts:215`,
  `states.ts:17-18`): cancelling a published item by id fails its session.
- `skipToday` leaves sessions scheduled; `enqueuePublish` does not look at `skip_dates`;
  duplicates are looked for in `enqueuePublish` only.

Sessions.
- The matrix has no way from `revising` back to `generating` (`states.ts:69`,
  `state-machine.ts:517`): a revision is never drafted.
- The check for an active session and the creation are two steps
  (`cron-daily-auto-post.ts:109` against `:7`): two starters both create one.
- A retryable error of the judge is counted twice (`state-machine.ts:491`), so the cap of
  two is met before a second draft (`quality-judge.ts:17`).
- `docs/developer/20-posting-state-machine.md:189` has sessions expire; nothing calls
  `expireStaleSessions`, and a session left active blocks every later daily run.
- A session in `repairing` is driven on by no run; seeded sessions have no item in the
  queue; the buttons `posting:<id>:...` have no handler.

Conversation.
- The records of pending turns are never read after a crash (`pending-turn-store.ts:8-10`).
- The fallback of the agent loop runs destructive tools the intent classifier does not
  hold for destructive without asking (`runner.ts:297`, `tool-specs.ts:33`).
- `createApproval` is called by tests only, so no approval is ever pending.

Replies, quotes, tracked tweets.
- A reply the model could not judge gets the status `deferred` (`inbound-reply.ts:232`), to be
  tried again by the next poll; the schema has no such status (`state-schema.ts:153-155`), so
  the write of that poll throws (`:305`, `repo.ts:184`): none of its sessions is kept, the
  threads it has made are made again, the cursor stays, and no poll ever finds a deferred
  session.  The integration tests write past the schema
  (`tests/integration/_helpers.ts:13-17`) and do not see it.
- A post to Discord that failed is "retried on its own next cycle" (`inbound-reply.ts:68-70`,
  `:296-299`), but only fetched events are visited: once the cursor has passed it, it is not.
- Discovery fetches one page of at most twenty (`target-discovery.ts:80`, `:141`): of more new
  tweets the older ones fall behind the cursor unseen.
- A post of `full_auto` whose record throws is taken for a failure (`cron-reactions-poll.ts:442`);
  when the card that follows fails as well, the session is written back open (`:461`) and the
  tweet posted again.  A card whose record throws counts as a failure of Discord (`:434`).
- The sessions of tracked tweets are written by loading and writing the whole file without the
  lock (`cron-reactions-poll.ts:598`, `target-button-handler.ts:345`): what another wrote in
  between is gone, the mark of a post among it.
- An approved quote or reply is marked failed: nothing writes the `draft.json` its item names
  (`target-button-handler.ts:307`, `docs/customer/05-targets.md:98`).
- The status `operator_escalated` of a tracked tweet reads back as `open`
  (`schema-migration.ts:176-185`).

Onboarding, questionnaire, retrospective.
- "Keep" reads the saved value of the current question in one step and stores it in another
  against the question that is current then (`collector.ts:333`, `:345`): of two clicks at once
  the second gives the value of one question to the next, which nobody has seen.
- A session that is completed when the process dies is never finalized; a second form that
  waits is not followed up while an older one does.
- No retrospective ever starts: the sweep before it (`retrospective.ts:521`) writes the
  sessions as a map, changed or not, and the schema demands a list (`state-schema.ts:431`); nor
  could a stored one be found, for the migration makes a list of a map and `readSessionBucket`
  (`:535`) reads a list as nothing.  `docs/customer/02-daily-rhythm.md:114` promises one every
  evening (run `retro_arrives`).
- The write-back is "never inconsistent" (`plan-writeback.ts:136-137`) only without a death or
  an overlap between its two files, and a failed write of the second is reported as applied
  (`:218-229`); `applyRetro` and `rewriteRetro`, and with them `applyWriteback` and
  `rollbackWriteback`, have no caller but tests.
- `posted_contents` and `phase_history` are never written; the hint `/mex phase resubmit`
  names a command that does not exist.

Services, alerts, files.
- After the first 429 of a model the sleep is still the short one: the delay is computed
  before `onRetry` raises its base (`retry.ts:91-98`, `bridge.ts:228-239`).
- With `halfOpenAttempts` above one a success that began before the breaker opened is counted
  as a probe's and lets a further probe through (`circuit-breaker.ts:125-136`); every caller
  uses one.
- The notice of an open X breaker has no window; a failing backup is told once and its alert's
  failure swallowed; a backup that finds nothing new resets the count although commits are not
  pushed.
- `writeState` and `writeAccount` (`repo.ts:184-193`), which the buttons of tracked tweets use,
  and the repos of the crons ask for no backup: such a write is committed with the next backup
  of another.  Two backups at once may meet at git's index lock: one fails and leaves its
  write to a later one, the success of the other resets the count of failures, and nobody is
  told (`git-sync.ts:64`).
- Preflight runs neither at boot nor before the daily post
  (`docs/operator/21-monitoring.md:24`) but hourly; repeated failures are told each hour
  although `preflight-gate.ts:8-9` says not, for its window is ten minutes.  The alert about an
  unreadable `state.json` is itself a write of it, so nobody is told; the check's alert leaves
  the tree dirty, on which the next check fails unless a backup of the bot came between.
- The self-check logs in to Discord first (`cron-self-check.ts:101`): a bad token, which its
  first gate is to report, ends it without a word.
- The launch wizard registers in a file the self-check does not read, and its entry has none of
  the channels the check asks for; the strict `readState`
  refuses shapes `loadState` accepts; a scalar among the posting sessions of an old file becomes
  a session just created; knowledge files stay old after overlapping saves.

## What is not modelled

PROJECT.json gives each component its status and the reason.  In short: approvals, which
nothing creates; the history of conversations and the classifier's answers, by which nothing
but a choice of the model decides; graceful shutdown, which is a death of the process to
everything that is stored; adapters of Discord, prompts, exemplars, news, read-only handlers,
configuration and logs, which hold no state of their own.  Of modelled components these parts
are left out: the arithmetic of slots and the search for similar texts (sequential, covered by
unit tests), phase training and the first-window collector (the latter without a caller),
`applyRetro`, `rewriteRetro` and the write-back of the plan beyond its locking (without a
caller), the summaries of seeding runs, what a digest counts, the choice of a model
provider, and the texts of hints, drafts and knowledge files.

## Plan

Modelled and checked: every component with concurrent or persistent behaviour of its own.
Left, in this order:

1. The retrospective's decisions and the write-back of the plan, once its sessions can be
   stored and something calls them.
2. Slots: the calendar arithmetic of `scheduler.ts` against a reference definition.
3. Phase training, if the program comes to start it from more than one place.
