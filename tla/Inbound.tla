------------------------------ MODULE Inbound ------------------------------
(***************************************************************************)
(* The collectors of replies and of quotes                                 *)
(* (posting/collectors/inbound-reply.ts, inbound-quote.ts) with their poll *)
(* cursor (x-api/poll-state.ts), as the reactions cron runs them, one poll *)
(* after the other, and the bot, which writes the whole of state.json back *)
(* as it read it.                                                          *)
(*                                                                         *)
(* Both collectors are one algorithm; where they differ the model asks     *)
(* kind.  Events (mentions or quoting tweets) are numbered in the order of *)
(* their ids, and exist up to arrived.  An LLM or Discord call is part of  *)
(* the step that uses its answer: a poll keeps all it does to the sessions *)
(* in memory, so nothing outside sees the difference, and a crash may come *)
(* between any two events.                                                 *)
(*                                                                         *)
(* A reply the LLM could not judge is marked "deferred" in memory, to be   *)
(* judged again by the next poll.  The schema of state.json knows no such  *)
(* status: the write at the end of that poll throws, nothing of the poll   *)
(* is kept, and no poll ever finds a deferred session to judge again.      *)
(***************************************************************************)
EXTENDS Integers, FiniteSets

CONSTANTS
    MaxEvents,    \* bound: events that ever arrive
    PageSize,     \* most events one fetch returns: the newest ones
    MaxAttempts,  \* MAX_DISCORD_POST_ATTEMPTS
    SuspendAt,    \* ERROR_STREAK_SUSPEND_THRESHOLD
    Cooldown,     \* DISCORD_RETRY_INTERVAL_MS = SUSPEND_DURATION_MS, in ticks
    MaxCrashes,   \* bound: polls that crash, or whose write of state.json throws
    MaxStale      \* bound: writes of the bot

ASSUME InboundAssumption ==
    /\ MaxEvents \in Nat /\ PageSize \in Nat \ {0}
    /\ MaxAttempts \in Nat \ {0} /\ SuspendAt \in Nat \ {0} /\ Cooldown \in Nat
    /\ MaxCrashes \in Nat /\ MaxStale \in Nat

Events == 1 .. MaxEvents

\* "shown" is posted or, for a reply of medium or high risk, escalated: a
\* thread for the customer has been made.
Terminal == {"shown", "operator_escalated", "error"}
Statuses == Terminal \cup {"none", "discord_pending"}
Polls == {"idle", "fetching", "working", "retrying", "saved"}

\* fails is discord_post_attempt_count, wait what is left of the interval
\* since last_discord_post_attempt_at; nothing asks a settled session for them.
Sessions ==
    [status : Statuses, fails : 0 .. MaxAttempts, wait : 0 .. Cooldown]
Deferred == [status |-> "deferred", fails |-> 0, wait |-> 0]
\* since is lastSinceId, streak errorStreak (a streak beyond SuspendAt counts
\* as SuspendAt), wait what is left until suspended_until.
Cursors == [since : 0 .. MaxEvents, streak : 0 .. SuspendAt, wait : 0 .. Cooldown]

Fresh == [status |-> "none", fails |-> 0, wait |-> 0]

VARIABLES
    kind,       \* the collector: "reply" or "quote"
    arrived,    \* newest event
    sessions,   \* state.json: event -> session; "none" where there is none
    cursor,     \* state.json: the entry of poll_cursors
    pc,         \* where the poll is
    base,       \* the cursor the poll loaded first
    work,       \* its copy of the sessions, which it changes
    workCursor, \* its copy of the cursor in the state it writes back
    high,       \* highestId
    batch,      \* fetched events the loop has yet to visit
    bot,        \* copy of state.json a bot turn has read: <<>> when none has
    surplus,    \* event -> threads shown to the customer, less the times the
                \* memory of one was lost: the poll ended before its write, or
                \* the bot's write undid it
    overflow,   \* events a fetch left out because newer ones filled the page
    undone,     \* events whose session a write of the bot replaced
    crashes, staleWrites

file == <<sessions, cursor>>
poll == <<pc, base, work, workCursor, high, batch>>
ghosts == <<surplus, overflow, undone>>
bounds == <<crashes, staleWrites>>
vars == <<kind, arrived, file, poll, bot, ghosts, bounds>>

BotCopies == [sessions : [Events -> Sessions], cursor : Cursors]

TypeOK ==
    /\ kind \in {"reply", "quote"}
    /\ arrived \in 0 .. MaxEvents
    /\ sessions \in [Events -> Sessions]
    /\ cursor \in Cursors
    /\ pc \in Polls
    /\ base \in Cursors
    /\ work \in [Events -> Sessions \cup {Deferred}]
    /\ workCursor \in Cursors
    /\ high \in 0 .. MaxEvents
    /\ batch \subseteq Events
    /\ bot \in BotCopies \cup {<<>>}
    /\ surplus \in [Events -> Int]
    /\ overflow \subseteq Events
    /\ undone \subseteq Events
    /\ crashes \in 0 .. MaxCrashes
    /\ staleWrites \in 0 .. MaxStale

NoCursor == [since |-> 0, streak |-> 0, wait |-> 0]

Init ==
    /\ kind \in {"reply", "quote"}
    /\ arrived = 0
    /\ sessions = [e \in Events |-> Fresh]
    /\ cursor = NoCursor
    /\ pc = "idle"
    /\ base = NoCursor
    /\ work = [e \in Events |-> Fresh]
    /\ workCursor = NoCursor
    /\ high = 0
    /\ batch = {}
    /\ bot = <<>>
    /\ surplus = [e \in Events |-> 0]
    /\ overflow = {}
    /\ undone = {}
    /\ crashes = 0
    /\ staleWrites = 0

-----------------------------------------------------------------------------
(* Surroundings.                                                            *)

Arrive ==
    /\ arrived < MaxEvents
    /\ arrived' = arrived + 1
    /\ UNCHANGED <<kind, file, poll, bot, ghosts, bounds>>

Less(n) == IF n = 0 THEN 0 ELSE n - 1
Aged(ses) == [e \in Events |-> [ses[e] EXCEPT !.wait = Less(@)]]
AgedCursor(c) == [c EXCEPT !.wait = Less(@)]

\* Timestamps are absolute: the copies age with the file.
Tick ==
    /\ sessions' = Aged(sessions) /\ cursor' = AgedCursor(cursor)
    /\ base' = AgedCursor(base)
    /\ work' = Aged(work) /\ workCursor' = AgedCursor(workCursor)
    /\ bot' = IF bot = <<>> THEN bot
              ELSE [sessions |-> Aged(bot.sessions), cursor |-> AgedCursor(bot.cursor)]
    /\ UNCHANGED <<kind, arrived, pc, high, batch, ghosts, bounds>>

\* A handler of the bot that changes some other part of state.json without
\* the lock: it writes back what it read of ours.
BotReads ==
    /\ bot = <<>> /\ staleWrites < MaxStale
    /\ bot' = [sessions |-> sessions, cursor |-> cursor]
    /\ staleWrites' = staleWrites + 1
    /\ UNCHANGED <<kind, arrived, file, poll, ghosts, crashes>>

\* The events for which two session maps differ in more than time.
Status(ses, e) == <<ses[e].status, ses[e].fails>>
Differ(old, new) == {e \in Events : Status(old, e) # Status(new, e)}

\* A poll that will write its copy is the one that remembers what was shown,
\* else the file is; a step that leaves S behind makes those threads due again.
Writing == pc \in {"working", "retrying"}
Memory == IF Writing THEN work ELSE sessions
ShownIn(ses) == {e \in Events : ses[e].status = "shown"}
Redo(S) == surplus' = [e \in Events |-> surplus[e] - (IF e \in S THEN 1 ELSE 0)]

BotWrites ==
    /\ bot # <<>>
    /\ sessions' = bot.sessions /\ cursor' = bot.cursor
    /\ undone' = undone \cup Differ(sessions, bot.sessions)
    /\ Redo(IF Writing THEN {} ELSE ShownIn(sessions) \ ShownIn(bot.sessions))
    /\ bot' = <<>>
    /\ UNCHANGED <<kind, arrived, poll, overflow, bounds>>

-----------------------------------------------------------------------------
(* The poll.                                                                *)

\* The locals of the collector are gone when it ends.
Ends ==
    /\ pc' = "idle"
    /\ base' = NoCursor /\ workCursor' = NoCursor
    /\ work' = [e \in Events |-> Fresh]
    /\ high' = 0
    /\ batch' = {}

Begin(p) ==
    /\ pc = "idle"
    /\ pc' = p
    /\ base' = cursor

\* A suspended cursor: no fetch, only the deferred sessions are looked for,
\* and there are none.  The state goes back as it was read.  Only replies are
\* ever suspended.
PollSuspendedFaulty ==  \* Faulty: the suspension starts again.
    /\ kind = "reply" /\ cursor.wait > 0
    /\ Begin("retrying")
    /\ work' = sessions /\ workCursor' = [cursor EXCEPT !.wait = Cooldown]
    /\ batch' = {}
    /\ high' = cursor.since
    /\ UNCHANGED <<kind, arrived, file, bot, ghosts, bounds>>

PollSuspended ==
    /\ kind = "reply" /\ cursor.wait > 0
    /\ Begin("retrying")
    /\ work' = sessions /\ workCursor' = cursor
    /\ batch' = {}
    /\ high' = cursor.since
    /\ UNCHANGED <<kind, arrived, file, bot, ghosts, bounds>>

PollStarts ==
    /\ kind = "reply" => cursor.wait = 0
    /\ Begin("fetching")
    /\ UNCHANGED <<kind, arrived, file, work, workCursor, high, batch, bot, ghosts, bounds>>

\* bumpErrorStreak for replies; quotes only count.
FetchFails ==
    LET streak == IF base.streak < SuspendAt THEN base.streak + 1 ELSE SuspendAt IN
    /\ pc = "fetching"
    /\ Ends
    /\ cursor' = [since |-> base.since, streak |-> streak,
                   wait |-> IF kind = "reply" /\ streak >= SuspendAt THEN Cooldown
                            ELSE base.wait]
    /\ UNCHANGED <<kind, arrived, sessions, bot, ghosts, bounds>>

\* X returns the newest PageSize events after since_id.
Newer(e) == e + 1 .. arrived
Page == {e \in base.since + 1 .. arrived : Cardinality(Newer(e)) < PageSize}

FetchSucceeds ==
    /\ pc = "fetching"
    /\ pc' = "working"
    /\ work' = sessions /\ workCursor' = cursor
    /\ high' = base.since
    /\ batch' = Page
    /\ overflow' = overflow \cup ((base.since + 1 .. arrived) \ Page)
    /\ UNCHANGED <<kind, arrived, file, base, bot, surplus, undone, bounds>>

Show(e) == surplus' = [surplus EXCEPT ![e] = @ + 1]

\* The loop over the fetched events, oldest first.
Visit(e) ==
    /\ pc = "working"
    /\ e \in batch
    /\ \A f \in batch : e <= f
    /\ batch' = batch \ {e}

Passed(e) == high' = IF e > high THEN e ELSE high
LoopUnchanged ==
    UNCHANGED <<kind, arrived, file, pc, base, workCursor, bot, overflow, undone, bounds>>

\* Faulty: a card that was shown does not settle its event.
IsSettledFaulty(e) == work[e].status \in Terminal \ {"shown"}

IsSettled(e) == work[e].status \in Terminal
MustWait(e) == work[e].status = "discord_pending" /\ work[e].wait > 0

PassSettled(e) ==
    /\ IsSettled(e)
    /\ Visit(e)
    /\ UNCHANGED <<work, high, surplus>>
    /\ LoopUnchanged

PassWaiting(e) ==
    /\ MustWait(e)
    /\ Visit(e)
    /\ Passed(e)
    /\ UNCHANGED <<work, surplus>>
    /\ LoopUnchanged

\* A judgement of the LLM, or the one kept in a session whose dispatch failed,
\* and the dispatch.
Process(e, session) ==
    /\ ~IsSettled(e) /\ ~MustWait(e)
    /\ Visit(e)
    /\ Passed(e)
    /\ work' = [work EXCEPT ![e] = session]
    /\ LoopUnchanged

Ended(status, fails) == [status |-> status, fails |-> fails, wait |-> 0]

\* A failing LLM defers a reply and buries a quote.
JudgeFails(e) ==
    /\ work[e].status = "none"
    /\ Process(e, IF kind = "reply" THEN Deferred ELSE Ended("error", 0))
    /\ UNCHANGED surplus

Dispatches(e) ==
    /\ Process(e, Ended("shown", 0))
    /\ Show(e)

\* markDiscordPostFailed; the last failure alerts the operator as best it can.
DispatchFails(e) ==
    LET n == work[e].fails + 1 IN
    /\ Process(e, IF n >= MaxAttempts THEN Ended("operator_escalated", n)
                  ELSE [status |-> "discord_pending", fails |-> n, wait |-> Cooldown])
    /\ UNCHANGED surplus

\* The loop is over, and writeState parses the state it is given.
WorkDone == Writing /\ batch = {}
SchemaRefuses == \E e \in Events : work[e] = Deferred

\* Faulty: the cursor is moved first, and the sessions are left for later.
SaveSessionsFaulty ==
    /\ WorkDone /\ ~SchemaRefuses
    /\ cursor' = [workCursor EXCEPT !.since = high]
    /\ Ends
    /\ UNCHANGED <<kind, arrived, sessions, bot, ghosts, bounds>>

\* First the sessions, in the state the poll loaded ...
SaveSessions ==
    /\ WorkDone /\ ~SchemaRefuses
    /\ sessions' = work /\ cursor' = workCursor
    /\ IF pc = "retrying" THEN Ends
       ELSE pc' = "saved" /\ UNCHANGED <<base, work, workCursor, high, batch>>
    /\ UNCHANGED <<kind, arrived, bot, ghosts, bounds>>

Forgets ==
    /\ Ends
    /\ Redo(IF Writing THEN ShownIn(work) \ ShownIn(sessions) ELSE {})

\* One deferred reply and none of the poll is kept: not the sessions of the
\* threads it has made, not the cursor.
SaveThrows ==
    /\ WorkDone /\ SchemaRefuses
    /\ Forgets
    /\ UNCHANGED <<kind, arrived, file, bot, overflow, undone, bounds>>

\* ... then the cursor, in the state as it is now.  updatePollCursor loads and
\* writes the whole file: what the bot writes in between is written over, as
\* if it had not written.
AdvanceCursor ==
    /\ pc = "saved"
    /\ Ends
    /\ cursor' = [since |-> high, streak |-> 0, wait |-> 0]
    /\ UNCHANGED <<kind, arrived, sessions, bot, ghosts, bounds>>

\* The process dies, or a write fails for another reason and safeRun ends the
\* collector: what the poll did to its copy is gone.
PollDies ==
    /\ pc # "idle" /\ crashes < MaxCrashes
    /\ Forgets
    /\ crashes' = crashes + 1
    /\ UNCHANGED <<kind, arrived, file, bot, overflow, undone, staleWrites>>

PollStep ==
    \/ PollSuspended \/ PollStarts \/ FetchSucceeds
    \/ SaveSessions \/ SaveThrows \/ AdvanceCursor
    \/ \E e \in Events :
          \/ PassSettled(e) \/ PassWaiting(e)
          \/ JudgeFails(e) \/ Dispatches(e) \/ DispatchFails(e)

Next ==
    \/ Arrive \/ Tick \/ BotReads \/ BotWrites
    \/ PollStep \/ FetchFails \/ PollDies

Spec == Init /\ [][Next]_vars

\* The timer starts a poll every 15 minutes and a poll comes to its end; time
\* passes.  X does not fail for ever: a fetch that is tried again and again
\* succeeds at last.
FairSpec ==
    /\ Spec
    /\ WF_vars(PollStep)
    /\ WF_vars(Tick)
    /\ SF_vars(FetchSucceeds)

-----------------------------------------------------------------------------
(* Properties.                                                              *)

Stored(ses, e) == ses[e].status # "none"

\* No event is lost behind the cursor: whatever it has passed has a session,
\* whatever a poll died of, unless a page of newer events hid it or the bot's
\* unlocked write took the session away.
CursorPassesOnlyStored ==
    \A e \in 1 .. cursor.since : Stored(sessions, e) \/ e \in overflow \/ e \in undone

\* The customer sees an event once, and once more only for each time the
\* memory of having shown it was lost: with a poll that died or whose write
\* was refused, or under a write of the bot.
ShownOnce == \A e \in Events : surplus[e] \in {0, 1}

\* A session given up has been tried the full number of times, and one that
\* was not has tries left.
TriesCounted ==
    \A e \in Events :
        /\ sessions[e].status = "operator_escalated" => sessions[e].fails = MaxAttempts
        /\ sessions[e].status = "discord_pending" => sessions[e].fails \in 1 .. MaxAttempts - 1

\* The three of them together.
PollInv == TypeOK /\ ShownOnce /\ TriesCounted

\* However often X fails and suspends the cursor and however often Discord
\* fails, again and again every event that arrived has a session -- if from
\* some time on the LLM judges every reply it is asked to.  The condition is
\* the code's: a reply that is never judged keeps every poll from writing.
RepliesJudged == [][~\E e \in Events : kind = "reply" /\ JudgeFails(e)]_vars

CatchesUp ==
    <>RepliesJudged =>
        []<>\A e \in 1 .. arrived : Stored(sessions, e) \/ e \in overflow \/ e \in undone
=============================================================================
