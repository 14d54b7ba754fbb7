--------------------------- MODULE PublishQueue ---------------------------
(***************************************************************************)
(* The publish queue of an account: the array `publish_queue` of           *)
(* state.json, the posting sessions its items belong to, and the processes *)
(* that work on it.                                                        *)
(*                                                                         *)
(*  - Cron: the oneshot process the 5-minute timer starts                  *)
(*    (scripts/cron-run-scheduled-publish.ts).  It takes the due items in  *)
(*    one locked step and then, item by item, calls the X API and records  *)
(*    the result in a second locked step.                                  *)
(*  - Handlers: turns of the bot process (handlers/schedule.ts,            *)
(*    settings/skip.ts, handlers/automation.ts and the target buttons)     *)
(*    that cancel, publish now, skip the day, release and enqueue.         *)
(*  - Collectors: code that reads the whole of state.json, works for a     *)
(*    while (LLM, X and Discord calls) and writes the whole of it back     *)
(*    with repo.writeState, which takes no lock (posting/collectors/*.ts,  *)
(*    x-api/poll-state.ts).                                                *)
(*                                                                         *)
(* Operators named ...Faulty are plausible mistakes in the code they stand  *)
(* next to; no action uses them.  They show that the properties can fail.   *)
(*                                                                         *)
(* A withStateLock section is one step: two of them exclude each other,    *)
(* and an unlocked write that lands inside one is overwritten by it, which *)
(* is the behaviour in which that write never happens.                     *)
(***************************************************************************)
EXTENDS Integers, FiniteSets

CONSTANTS
    Cron,           \* the scheduled-publish process
    Handlers,       \* bot turns that may be in progress at the same time
    Collectors,     \* read-work-write processes that use no lock
    Contents,       \* content ids
    Prefixes,       \* non-empty 80-character dedup prefixes
    NoPrefix,       \* the prefix of a blank text
    InitialQueues,  \* queues a migrated account may start with
    MaxItems,       \* bound: publish ids ever created
    Day,            \* clock ticks in a day (24 h)
    MaxTime,        \* bound: last clock tick
    MaxRetries,     \* tries of a call to X after the first one (maxRetries)
    MaxRequests,    \* bound: user requests and collector runs
    MaxCrashes      \* bound: deaths of the cron or of the bot

Workers == Handlers \cup {Cron}
Ids == 1..MaxItems
Times == 0..MaxTime
DayOf(t) == t \div Day
AllPrefixes == Prefixes \cup {NoPrefix}

Pending == {"scheduled", "held"}
Settled == {"published", "failed_terminal", "cancelled_by_user"}
Live == Pending \cup {"published"}

Errors == {"", "stale_after_24h", "publish_failed", "cancelled_by_user",
           "skipped_by_user"}

Item == [content : Contents, at : Times, prefix : AllPrefixes,
         status : Pending \cup Settled, error : Errors]

\* The array is append-only and publish ids are fresh, so the queue is the
\* function from the ids in it to the items, in the order of the ids.
IsQueue(q) == DOMAIN q \subseteq Ids /\ q \in [DOMAIN q -> Item]

\* A posting session that has a candidate with that content_id; "none" when
\* there is no such session.
SessionStates == {"none", "scheduled", "published", "failed_terminal"}
Sessions == [Contents -> SessionStates]

SkipDates == SUBSET {DayOf(t) : t \in Times}

\* What is persisted in state.json, as far as publishing reads or writes it.
IsState(q, s, d) == IsQueue(q) /\ s \in Sessions /\ d \in SkipDates

\* A process in the middle of an operation.  todo: publish ids still to be
\* handled, taken from the state it read; tweeted: X accepted the tweet of
\* the item being handled in the last try; retries: tries made before it.
WorkerState == [pc : {"idle", "attempt", "mark", "cancel"}, todo : SUBSET Ids,
                outcome : {"none", "published", "failed"}, tweeted : BOOLEAN,
                retries : 0..MaxRetries]
Busy(pc, todo) ==
    [pc |-> pc, todo |-> todo, outcome |-> "none", tweeted |-> FALSE,
     retries |-> 0]
Idle == Busy("idle", {})

ASSUME ConstantsAssumption ==
    /\ Cron \notin Handlers
    /\ NoPrefix \notin Prefixes
    /\ MaxItems \in Nat
    /\ MaxTime \in Nat
    /\ MaxRetries \in Nat
    /\ MaxRequests \in Nat
    /\ MaxCrashes \in Nat
    /\ Day \in Nat \ {0}

\* Two items that must not both wait to be published.
Clash(a, b) ==
    \/ a.content = b.content /\ a.at = b.at
    \/ a.prefix = b.prefix /\ a.prefix # NoPrefix

Distinct(q, S) == \A p, r \in S : p # r => ~Clash(q[p], q[r])

\* The program starts on an account whose items, if any, still wait and are
\* free of duplicates; what was settled before is left out of the model.
ASSUME InitialQueuesAssumption ==
    \A q \in InitialQueues :
        /\ IsQueue(q)
        /\ \A p \in DOMAIN q : q[p].status \in Pending
        /\ Distinct(q, DOMAIN q)

VARIABLES
    queue,      \* state.json: publish_queue
    session,    \* state.json: posting_sessions
    skipDates,  \* state.json: skip_dates
    nextId,     \* the next fresh publish id
    worker,     \* control state of the cron and of the bot turns
    snapshot,   \* collector -> the state.json it read and will write back
    now,        \* the clock
    cronTweets, \* tweets X accepted from the cron, per publish id
    nowTweets,  \* tweets X accepted from publish_now, per publish id
    lost,       \* per publish id: records of a cron tweet that were lost
    requests,   \* requests made so far
    crashes     \* deaths so far

store == <<queue, session, skipDates>>
tweets == <<cronTweets, nowTweets, lost>>
bounds == <<requests, crashes>>
vars == <<queue, session, skipDates, nextId, worker, snapshot, now,
          cronTweets, nowTweets, lost, requests, crashes>>
-----------------------------------------------------------------------------
(* Queries on the queue.                                                    *)

PendingIn(q) == {p \in DOMAIN q : q[p].status \in Pending}
SettledIn(q) == {p \in DOMAIN q : q[p].status \in Settled}

IsFirst(p, S) == p \in S /\ \A q \in S : p <= q

\* The item with another status; content, time and prefix stay.
With(item, status, error) == [item EXCEPT !.status = status, !.error = error]

\* propagateToPostingSession for the sessions of the contents cs.
Propagate(cs, state) ==
    [c \in Contents |-> IF c \in cs /\ session[c] # "none"
                        THEN state ELSE session[c]]

\* Faulty: the posting session is forgotten.
MarkAsFaulty(p, status, error) ==
    /\ queue' = [q \in DOMAIN queue |->
                    IF q = p THEN With(queue[q], status, error) ELSE queue[q]]
    /\ UNCHANGED session

\* markPublished and markFailed: one locked step; nothing changes when the
\* publish id is not in the queue.  The present status is not looked at.
MarkAs(p, status, error) ==
    IF p \in DOMAIN queue
    THEN /\ queue' = [queue EXCEPT ![p] = With(@, status, error)]
         /\ session' = Propagate({queue[p].content}, status)
    ELSE UNCHANGED <<queue, session>>

MarkPublished(p) == MarkAs(p, "published", "")

MarkFailed(p, reason) == MarkAs(p, "failed_terminal", reason)
-----------------------------------------------------------------------------
Init ==
    /\ queue \in InitialQueues
    /\ session \in [Contents -> {"none", "scheduled"}]
    /\ skipDates = {}
    /\ nextId \in 1..(MaxItems + 1)
    /\ \A p \in Ids : p \in DOMAIN queue <=> p < nextId
    /\ worker = [w \in Workers |-> Idle]
    /\ snapshot = [k \in {} |-> {}]
    /\ now = 0
    /\ cronTweets = [p \in Ids |-> 0]
    /\ nowTweets = [p \in Ids |-> 0]
    /\ lost = [p \in Ids |-> 0]
    /\ requests = 0
    /\ crashes = 0
-----------------------------------------------------------------------------
(* The scheduled-publish process.                                           *)

Scheduled == {p \in DOMAIN queue : queue[p].status = "scheduled"}
Stale == {p \in Scheduled : queue[p].at < now - Day}

\* Faulty: only what is due at this very tick.
DueOnTickFaulty == {p \in Scheduled \ Stale : queue[p].at = now}

Due == {p \in Scheduled \ Stale : queue[p].at <= now}

\* dueItems: stale items fail, with their sessions; the due ones are
\* returned to the caller and stay "scheduled".
CronStart ==
    /\ worker[Cron].pc = "idle"
    /\ queue' = [p \in DOMAIN queue |->
                    IF p \in Stale
                    THEN With(queue[p], "failed_terminal", "stale_after_24h")
                    ELSE queue[p]]
    /\ session' = Propagate({queue[p].content : p \in Stale}, "failed_terminal")
    /\ worker' = [worker EXCEPT ![Cron] =
                    IF Due = {} THEN Idle
                    ELSE Busy("attempt", Due)]
    /\ UNCHANGED <<skipDates, nextId, snapshot, now, tweets, bounds>>

\* X accepts the tweet of p.
Tweet(w, p) ==
    IF w = Cron
    THEN cronTweets' = [cronTweets EXCEPT ![p] = @ + 1] /\ UNCHANGED nowTweets
    ELSE nowTweets' = [nowTweets EXCEPT ![p] = @ + 1] /\ UNCHANGED cronTweets

ToMark(w, outcome, tweeted) ==
    worker' = [worker EXCEPT ![w] =
                 [pc |-> "mark", todo |-> @.todo, outcome |-> outcome,
                  tweeted |-> tweeted, retries |-> 0]]

\* Faulty: an error of X is taken for success.
AttemptFaulty(w, p) ==
    /\ worker[w].pc = "attempt"
    /\ IsFirst(p, worker[w].todo)
    /\ \/ Tweet(w, p)
       \/ UNCHANGED <<cronTweets, nowTweets>>
    /\ ToMark(w, "published", TRUE)
    /\ UNCHANGED <<store, nextId, snapshot, now, lost, bounds>>

\* xApi.post for the first item of the list that was read.  The status of
\* the item is not read again.  The answer of X may be lost: the tweet is
\* there and the client throws.
Attempt(w, p) ==
    /\ worker[w].pc = "attempt"
    /\ IsFirst(p, worker[w].todo)
    /\ \/ Tweet(w, p) /\ ToMark(w, "published", TRUE)
       \/ Tweet(w, p) /\ ToMark(w, "failed", TRUE)
       \/ UNCHANGED <<cronTweets, nowTweets>> /\ ToMark(w, "failed", FALSE)
    /\ UNCHANGED <<store, nextId, snapshot, now, lost, bounds>>

\* Faulty: X is tried again after it has accepted the tweet.
RetryFaulty(w, p) ==
    /\ worker[w].pc = "attempt"
    /\ IsFirst(p, worker[w].todo)
    /\ worker[w].retries < MaxRetries
    /\ worker' = [worker EXCEPT ![w].retries = @ + 1]
    /\ Tweet(w, p)
    /\ UNCHANGED <<store, nextId, snapshot, now, lost, bounds>>

\* A try inside xApi.post fails with an error that is tried again (429, 5xx, no
\* answer).  X may have accepted its tweet, and then the record of it is lost.
Retry(w, p) ==
    /\ worker[w].pc = "attempt"
    /\ IsFirst(p, worker[w].todo)
    /\ worker[w].retries < MaxRetries
    /\ worker' = [worker EXCEPT ![w].retries = @ + 1]
    /\ \/ UNCHANGED tweets
       \/ /\ Tweet(w, p)
          /\ lost' = IF w = Cron THEN [lost EXCEPT ![p] = @ + 1] ELSE lost
    /\ UNCHANGED <<store, nextId, snapshot, now, bounds>>

\* p is done; the loop goes on at pc when there is another item.
Advance(w, p, pc) ==
    LET rest == worker[w].todo \ {p}
    IN  worker' = [worker EXCEPT ![w] =
                     IF rest = {} THEN Idle ELSE Busy(pc, rest)]

\* w is between a tweet of p and the step that records it.
InFlight(w, p) ==
    /\ worker[w].pc = "mark"
    /\ worker[w].tweeted
    /\ IsFirst(p, worker[w].todo)

\* The record of the cron's last tweet of each id in S, if any, is lost.
Lose(S) ==
    lost' = [p \in Ids |-> IF p \in S /\ cronTweets[p] > lost[p]
                           THEN lost[p] + 1 ELSE lost[p]]

\* The result is recorded, and the loop goes on with the next item.
Mark(w, p) ==
    /\ worker[w].pc = "mark"
    /\ IsFirst(p, worker[w].todo)
    /\ \/ worker[w].outcome = "published" /\ MarkPublished(p)
       \/ worker[w].outcome = "failed" /\ MarkFailed(p, "publish_failed")
    /\ Advance(w, p, "attempt")
    /\ Lose(IF w = Cron /\ InFlight(w, p) /\ p \notin DOMAIN queue
            THEN {p} ELSE {})
    /\ UNCHANGED <<skipDates, nextId, snapshot, now, cronTweets, nowTweets,
                   bounds>>

\* markPublished throws (the lock is not obtained, or the write fails): the
\* catch clause around post and markPublished turns to markFailed.
MarkPublishedThrows(w) ==
    /\ worker[w].pc = "mark"
    /\ worker[w].outcome = "published"
    /\ worker' = [worker EXCEPT ![w].outcome = "failed"]
    /\ UNCHANGED <<store, nextId, snapshot, now, tweets, bounds>>

\* The cron process dies, or leaves with exit code 1 because the markFailed
\* of a catch clause throws: the rest of its list is left to the next run.
CronDies ==
    /\ worker[Cron].pc # "idle"
    /\ crashes < MaxCrashes
    /\ crashes' = crashes + 1
    /\ worker' = [worker EXCEPT ![Cron] = Idle]
    /\ Lose({p \in Ids : InFlight(Cron, p)})
    /\ UNCHANGED <<store, nextId, snapshot, now, cronTweets, nowTweets, requests>>
-----------------------------------------------------------------------------
(* Requests of the user and of the operator to the bot.                     *)

Request == requests < MaxRequests /\ requests' = requests + 1

Begin(h, pc, S) ==
    /\ worker[h].pc = "idle"
    /\ worker' = [worker EXCEPT ![h] = Busy(pc, S)]

\* handleSchedulePublishNow: the state is read without the lock, and the item
\* is taken whatever its status.
PublishNow(h, p) ==
    /\ Request
    /\ p \in DOMAIN queue
    /\ Begin(h, "attempt", {p})
    /\ UNCHANGED <<store, nextId, snapshot, now, tweets, crashes>>

\* The targets of handleScheduleCancel: all active items, those of today, or
\* the one item that was named, active or not.
CancelTargets ==
    {PendingIn(queue),
     {p \in PendingIn(queue) : DayOf(queue[p].at) = DayOf(now)}}
    \cup {{p} : p \in DOMAIN queue}

\* handleScheduleCancel reads the state without the lock ...
CancelStart(h, S) ==
    /\ Request
    /\ S \in CancelTargets \ {{}}
    /\ Begin(h, "cancel", S)
    /\ UNCHANGED <<store, nextId, snapshot, now, tweets, crashes>>

\* ... and then fails the items it found, one locked step each.
CancelNext(h, p) ==
    /\ worker[h].pc = "cancel"
    /\ IsFirst(p, worker[h].todo)
    /\ MarkFailed(p, "cancelled_by_user")
    /\ Advance(h, p, "cancel")
    /\ UNCHANGED <<skipDates, nextId, snapshot, now, tweets, bounds>>

\* The turn ends early: no draft to publish, or a locked step throws.
TurnFails(h) ==
    /\ worker[h].pc # "idle"
    /\ worker[h].outcome # "published"
    /\ worker' = [worker EXCEPT ![h] = Idle]
    /\ UNCHANGED <<store, nextId, snapshot, now, tweets, bounds>>

\* The bot process dies with all its turns.
BotDies ==
    /\ \E h \in Handlers : worker[h].pc # "idle"
    /\ crashes < MaxCrashes
    /\ crashes' = crashes + 1
    /\ worker' = [w \in Workers |-> IF w = Cron THEN worker[w] ELSE Idle]
    /\ UNCHANGED <<store, nextId, snapshot, now, tweets, requests>>

\* enqueuePublish: refused when a live item has the same content and time, or
\* the same non-empty prefix.
Duplicates(item, content, at, prefix) ==
    /\ item.status \in Live
    /\ \/ item.content = content /\ item.at = at
       \/ prefix # NoPrefix /\ item.prefix = prefix

Enqueue(content, at, prefix) ==
    /\ Request
    /\ nextId \in Ids
    /\ at >= now
    /\ \A p \in DOMAIN queue : ~Duplicates(queue[p], content, at, prefix)
    /\ LET new == [content |-> content, at |-> at, prefix |-> prefix,
                   status |-> "scheduled", error |-> ""]
       IN  queue' = [p \in DOMAIN queue \cup {nextId} |->
                        IF p = nextId THEN new ELSE queue[p]]
    /\ nextId' = nextId + 1
    /\ UNCHANGED <<session, skipDates, worker, snapshot, now, tweets, crashes>>

\* skipToday: the pending items of the day are cancelled; their sessions are
\* not touched.
SkipToday ==
    /\ Request
    /\ skipDates' = skipDates \cup {DayOf(now)}
    /\ queue' = [p \in DOMAIN queue |->
                    IF queue[p].status \in Pending
                       /\ DayOf(queue[p].at) = DayOf(now)
                    THEN With(queue[p], "cancelled_by_user", "skipped_by_user")
                    ELSE queue[p]]
    /\ UNCHANGED <<session, nextId, worker, snapshot, now, tweets, crashes>>

UnskipToday ==
    /\ Request
    /\ skipDates' = skipDates \ {DayOf(now)}
    /\ UNCHANGED <<queue, session, nextId, worker, snapshot, now, tweets, crashes>>

\* Faulty: cancelled items are released, too.
ReleaseHeldFaulty ==
    /\ Request
    /\ queue' = [p \in DOMAIN queue |->
                    IF queue[p].status \in {"held", "cancelled_by_user"}
                    THEN With(queue[p], "scheduled", "")
                    ELSE queue[p]]
    /\ UNCHANGED <<session, skipDates, nextId, worker, snapshot, now, tweets,
                   crashes>>

\* releaseHeldPublishItems, called by automation.enable_all.
ReleaseHeld ==
    /\ Request
    /\ queue' = [p \in DOMAIN queue |->
                    IF queue[p].status = "held"
                    THEN With(queue[p], "scheduled", "")
                    ELSE queue[p]]
    /\ UNCHANGED <<session, skipDates, nextId, worker, snapshot, now, tweets,
                   crashes>>

-----------------------------------------------------------------------------
(* The collectors: read all of state.json, and later write all of it back.  *)

CollectorRead(k) ==
    /\ Request
    /\ k \notin DOMAIN snapshot
    /\ snapshot' = [j \in DOMAIN snapshot \cup {k} |->
                      IF j = k THEN [queue |-> queue, session |-> session,
                                     skipDates |-> skipDates]
                      ELSE snapshot[j]]
    /\ UNCHANGED <<store, nextId, worker, now, tweets, crashes>>

\* repo.writeState of the old state with the collector's own field changed.
CollectorWrite(k) ==
    /\ k \in DOMAIN snapshot
    /\ queue' = snapshot[k].queue
    /\ session' = snapshot[k].session
    /\ skipDates' = snapshot[k].skipDates
    /\ snapshot' = [j \in DOMAIN snapshot \ {k} |-> snapshot[j]]
    /\ Lose(SettledIn(queue) \ SettledIn(snapshot[k].queue))
    /\ UNCHANGED <<nextId, worker, now, cronTweets, nowTweets, bounds>>

Tick ==
    /\ now < MaxTime
    /\ now' = now + 1
    /\ UNCHANGED <<store, nextId, worker, snapshot, tweets, bounds>>
-----------------------------------------------------------------------------
CronStep ==
    \/ CronStart
    \/ \E p \in Ids : Retry(Cron, p) \/ Attempt(Cron, p) \/ Mark(Cron, p)

TurnStep(h) ==
    \/ \E p \in Ids : \/ PublishNow(h, p) \/ Retry(h, p) \/ Attempt(h, p)
                      \/ Mark(h, p) \/ CancelNext(h, p)
    \/ \E S \in SUBSET Ids : CancelStart(h, S)
    \/ TurnFails(h)

Next ==
    \/ CronStep
    \/ CronDies
    \/ \E w \in Workers : MarkPublishedThrows(w)
    \/ \E h \in Handlers : TurnStep(h)
    \/ BotDies
    \/ \E c \in Contents, t \in Times, x \in AllPrefixes : Enqueue(c, t, x)
    \/ SkipToday
    \/ UnskipToday
    \/ ReleaseHeld
    \/ \E k \in Collectors : CollectorRead(k) \/ CollectorWrite(k)
    \/ Tick

Spec == Init /\ [][Next]_vars

\* The timer starts the cron again and again, and a process that is running
\* goes on running.
FairSpec == Spec /\ WF_vars(CronStep)
-----------------------------------------------------------------------------
(* Properties.  Those of the stored state are stated for any copy of it (a  *)
(* queue q and sessions s), because a collector may bring an old copy back. *)

TypeOK ==
    /\ IsState(queue, session, skipDates)
    /\ nextId \in 1..(MaxItems + 1)
    /\ worker \in [Workers -> WorkerState]
    /\ DOMAIN snapshot \subseteq Collectors
    /\ \A k \in DOMAIN snapshot :
          IsState(snapshot[k].queue, snapshot[k].session, snapshot[k].skipDates)
    /\ now \in Times
    /\ cronTweets \in [Ids -> Nat]
    /\ nowTweets \in [Ids -> Nat]
    /\ lost \in [Ids -> Nat]
    /\ requests \in 0..MaxRequests
    /\ crashes \in 0..MaxCrashes

\* Two items that wait to be published never have the same content and time,
\* nor the same non-empty prefix: the check of enqueuePublish against held
\* and scheduled items (queue.ts:67-85) survives releases, skips, crashes and
\* the collectors' stale writes.
PendingDistinct == Distinct(queue, PendingIn(queue))

\* An item recorded as published was tweeted, whoever did it and whatever
\* failed in between: no path of publishOne or of publish_now records a
\* publication that X did not accept.
Tweeted(p) == cronTweets[p] + nowTweets[p] > 0

PublishedTweeted(q) ==
    \A p \in DOMAIN q : q[p].status = "published" => Tweeted(p)

PublishedWasTweeted == PublishedTweeted(queue)

\* A posting session is reported as published only when an item of its
\* content was tweeted (propagateToPostingSession, queue.ts:181-223).
SessionTweeted(q, s) ==
    \A c \in Contents :
        s[c] = "published" => \E p \in DOMAIN q : q[p].content = c /\ Tweeted(p)

SessionPublishedWasTweeted == SessionTweeted(queue, session)

\* No session is left waiting once an item of its content is published or has
\* failed, be it by the cron, by the 24 h rule or by a cancellation
\* (queue.ts:265-269: "no longer reported as `scheduled`").
SessionSettled(q, s) ==
    \A p \in DOMAIN q :
        q[p].status \in {"published", "failed_terminal"} =>
            s[q[p].content] # "scheduled"

SettledItemSettlesSession == SessionSettled(queue, session)

\* The cron tweets an item again only when the record of an earlier tweet was
\* lost: the X client saw an error and tried again, the process died between
\* post and markPublished, its mark found no item, or a collector wrote an older
\* state.json over the mark.  Nothing else (failed marks, cancellations,
\* publish_now, releases) makes it tweet twice.
CronTweetsAccounted == \A p \in Ids : cronTweets[p] <= 1 + lost[p]

\* The cron never tweets an item before its time.
NeverEarly ==
    \A p \in DOMAIN queue : cronTweets[p] > 0 => queue[p].at <= now

\* A settled item never waits again, and never disappears, except through a
\* collector that writes back an older state.json.
StaysSettled ==
    \A p \in SettledIn(queue) :
        p \in DOMAIN queue' /\ queue'[p].status \in Settled

OnlyStaleWritesRevive ==
    [][StaysSettled \/ \E k \in Collectors : CollectorWrite(k)]_vars

\* A session is left scheduled without a waiting item only by skipToday, which
\* does not propagate its cancellations (skip.ts:52), or by a stale write: no
\* mark, cancellation, crash or 24 h rule does that.
HasPendingItem(c) == \E p \in PendingIn(queue) : queue[p].content = c

OnlySkipStrandsSessions ==
    [][\/ SkipToday
       \/ \E k \in Collectors : CollectorWrite(k)
       \/ \A c \in Contents :
             session[c] = "scheduled" /\ HasPendingItem(c)
             /\ session'[c] = "scheduled" => HasPendingItem(c)']_vars

\* Every item whose time has come, be it due or stale, is settled
\* at last, although a process may die, a mark may throw and an old file may
\* come back.
Overdue(p) == p \in Scheduled /\ queue[p].at <= now

DueItemsSettle == \A p \in Ids : []<>~Overdue(p)
-----------------------------------------------------------------------------
(* The inductive invariant.                                                 *)

\* What holds of every copy of the stored state.
CopyOK(q, s) ==
    /\ DOMAIN q \subseteq 1..(nextId - 1)
    /\ Distinct(q, PendingIn(q))
    /\ PublishedTweeted(q)
    /\ SessionTweeted(q, s)
    /\ SessionSettled(q, s)

CopiesOK ==
    /\ CopyOK(queue, session)
    /\ \A k \in DOMAIN snapshot : CopyOK(snapshot[k].queue, snapshot[k].session)

\* An id has the same time in all copies, and the cron waits for it.
SameTimes(q, r) == \A p \in DOMAIN q \cap DOMAIN r : q[p].at = r[p].at

Begun(p) == cronTweets[p] > 0 \/ p \in worker[Cron].todo

BegunInTime(q) == \A p \in DOMAIN q : Begun(p) => q[p].at <= now

TimesOK ==
    /\ BegunInTime(queue)
    /\ \A k \in DOMAIN snapshot :
          /\ BegunInTime(snapshot[k].queue)
          /\ SameTimes(queue, snapshot[k].queue)
          /\ \A j \in DOMAIN snapshot :
                SameTimes(snapshot[j].queue, snapshot[k].queue)

\* Ids that were not given out are nowhere in use.
FreshIds == \A p \in Ids : p >= nextId => ~Begun(p)

\* What a worker is about to record as published was tweeted.
MarksTweeted ==
    \A w \in Workers, p \in Ids :
        /\ worker[w].pc = "mark"
        /\ worker[w].outcome = "published"
        /\ IsFirst(p, worker[w].todo)
        => Tweeted(p)

\* Of every item the cron tweeted, all tweets but one are lost, and that one
\* is recorded or about to be; for what is still on the cron's list, all are.
Accounted ==
    \A p \in Ids :
        /\ \/ cronTweets[p] <= lost[p]
           \/ cronTweets[p] <= 1 + lost[p] /\ p \in SettledIn(queue)
           \/ cronTweets[p] <= 1 + lost[p] /\ InFlight(Cron, p)
        /\ p \in worker[Cron].todo /\ ~InFlight(Cron, p)
              => cronTweets[p] <= lost[p]

Inv ==
    TypeOK /\ CopiesOK /\ TimesOK /\ FreshIds /\ MarksTweeted /\ Accounted
=============================================================================
