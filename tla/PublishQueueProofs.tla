------------------------ MODULE PublishQueueProofs ------------------------
(***************************************************************************)
(* Proofs about PublishQueue, for every value of its constants: the type   *)
(* invariant and the inductive invariant Inv, and from it the safety       *)
(* properties.                                                             *)
(***************************************************************************)
EXTENDS PublishQueue, TLAPS

LEMMA WithFacts ==
    ASSUME NEW item \in Item, NEW status \in Pending \cup Settled,
           NEW error \in Errors
    PROVE  /\ With(item, status, error) \in Item
           /\ With(item, status, error).content = item.content
           /\ With(item, status, error).at = item.at
           /\ With(item, status, error).prefix = item.prefix
           /\ With(item, status, error).status = status
  BY DEF With, Item

LEMMA BusyType ==
    /\ Idle \in WorkerState
    /\ \A pc \in {"idle", "attempt", "mark", "cancel"}, S \in SUBSET Ids :
          Busy(pc, S) \in WorkerState
  <1>1. 0 \in 0..MaxRetries
    BY ConstantsAssumption DEF ConstantsAssumption
  <1> QED
    BY <1>1 DEF Busy, Idle, WorkerState

LEMMA TypeInit == Init => TypeOK
  <1> SUFFICES ASSUME Init PROVE TypeOK
    OBVIOUS
  <1>1. IsState(queue, session, skipDates)
    BY InitialQueuesAssumption
    DEF InitialQueuesAssumption, Init, IsState, Sessions, SessionStates, SkipDates
  <1>2. worker \in [Workers -> WorkerState]
    BY BusyType DEF Init
  <1>3. DOMAIN snapshot = {}
    BY DEF Init
  <1> QED
    BY <1>1, <1>2, <1>3, ConstantsAssumption
    DEF ConstantsAssumption, Init, TypeOK, Ids, Times

LEMMA MarkAsType ==
    ASSUME IsState(queue, session, skipDates), skipDates' = skipDates,
           NEW p \in Ids,
           NEW status \in {"published", "failed_terminal"},
           NEW error \in Errors, MarkAs(p, status, error)
    PROVE  IsState(queue, session, skipDates)'
  BY WithFacts
  DEF MarkAs, IsState, IsQueue, Settled, Propagate, Sessions, SessionStates

\* A try of X that failed changes one counter of the worker.
LEMMA RetryFacts ==
    ASSUME worker \in [Workers -> WorkerState],
           NEW w \in Workers, NEW p \in Ids, Retry(w, p)
    PROVE  /\ worker' \in [Workers -> WorkerState]
           /\ \A v \in Workers : /\ worker'[v].pc = worker[v].pc
                                /\ worker'[v].todo = worker[v].todo
                                /\ worker'[v].outcome = worker[v].outcome
                                /\ worker'[v].tweeted = worker[v].tweeted
           /\ \A v \in Workers : v # w => worker'[v] = worker[v]
  <1>1. worker[w].retries + 1 \in 0..MaxRetries
    BY ConstantsAssumption DEF ConstantsAssumption, Retry, WorkerState
  <1> QED
    BY <1>1 DEF Retry, WorkerState

LEMMA TypeNext == TypeOK /\ [Next]_vars => TypeOK'
  <1> SUFFICES ASSUME TypeOK, [Next]_vars PROVE TypeOK'
    OBVIOUS
  <1> USE ConstantsAssumption
  <1> USE DEF ConstantsAssumption, store, tweets, bounds
  <1>1. CASE CronStart
    <2>1. IsState(queue, session, skipDates)'
      <3>1. queue' \in [DOMAIN queue -> Item]
        BY <1>1, WithFacts
        DEF CronStart, TypeOK, IsState, IsQueue, Settled, Errors
      <3>2. session' \in Sessions
        BY <1>1 DEF CronStart, TypeOK, IsState, Propagate, Sessions,
                    SessionStates
      <3> QED
        BY <1>1, <3>1, <3>2 DEF CronStart, TypeOK, IsState, IsQueue
    <2>2. worker' \in [Workers -> WorkerState]
      <3>1. Due \in SUBSET Ids
        BY DEF TypeOK, IsState, IsQueue, Due, Scheduled
      <3> QED
        BY <1>1, <3>1, BusyType DEF CronStart, TypeOK
    <2> QED
      BY <1>1, <2>1, <2>2 DEF CronStart, TypeOK
  <1>2. ASSUME NEW w \in Workers, NEW p \in Ids, Attempt(w, p)
        PROVE  TypeOK'
    <2>1. worker' \in [Workers -> WorkerState]
      <3>1. 0 \in 0..MaxRetries /\ worker[w].todo \in SUBSET Ids
        BY DEF TypeOK, WorkerState
      <3>2. \A o \in {"published", "failed"}, b \in BOOLEAN :
               [pc |-> "mark", todo |-> worker[w].todo, outcome |-> o,
                tweeted |-> b, retries |-> 0] \in WorkerState
        BY <3>1 DEF WorkerState
      <3> QED
        BY <1>2, <3>2 DEF Attempt, ToMark, TypeOK
    <2>2. cronTweets' \in [Ids -> Nat] /\ nowTweets' \in [Ids -> Nat]
      <3>1. CASE UNCHANGED <<cronTweets, nowTweets>>
        BY <3>1 DEF TypeOK
      <3>2. CASE Tweet(w, p)
        BY <3>2 DEF Tweet, TypeOK
      <3> QED
        BY <1>2, <3>1, <3>2 DEF Attempt
    <2> QED
      BY <1>2, <2>1, <2>2 DEF Attempt, TypeOK, IsState
  <1>3. ASSUME NEW w \in Workers, NEW p \in Ids, Mark(w, p)
        PROVE  TypeOK'
    <2>1. IsState(queue, session, skipDates)'
      BY <1>3, MarkAsType
      DEF Mark, MarkPublished, MarkFailed, TypeOK, IsState, Settled, Errors
    <2>2. worker' \in [Workers -> WorkerState]
      <3>1. worker[w].todo \ {p} \in SUBSET Ids
        BY DEF TypeOK, WorkerState
      <3> QED
        BY <1>3, <3>1, BusyType DEF Mark, Advance, TypeOK
    <2>3. lost' \in [Ids -> Nat]
      BY <1>3 DEF Mark, Lose, TypeOK
    <2> QED
      BY <1>3, <2>1, <2>2, <2>3 DEF Mark, TypeOK
  <1>4. CASE CronDies
    <2>1. worker' \in [Workers -> WorkerState]
      BY <1>4, BusyType DEF CronDies, TypeOK
    <2>2. lost' \in [Ids -> Nat]
      BY <1>4 DEF CronDies, Lose, TypeOK
    <2> QED
      BY <1>4, <2>1, <2>2 DEF CronDies, TypeOK, IsState
  <1>5. ASSUME NEW w \in Workers, MarkPublishedThrows(w)
        PROVE  TypeOK'
    <2>1. worker' \in [Workers -> WorkerState]
      BY <1>5 DEF MarkPublishedThrows, TypeOK, WorkerState
    <2> QED
      BY <1>5, <2>1 DEF MarkPublishedThrows, TypeOK, IsState
  <1>6. ASSUME NEW h \in Handlers, NEW p \in Ids, PublishNow(h, p)
        PROVE  TypeOK'
    <2>1. worker' \in [Workers -> WorkerState]
      BY <1>6, BusyType DEF PublishNow, Begin, TypeOK
    <2> QED
      BY <1>6, <2>1 DEF PublishNow, Request, TypeOK, IsState
  <1>7. ASSUME NEW h \in Handlers, NEW p \in Ids, CancelNext(h, p)
        PROVE  TypeOK'
    <2>1. IsState(queue, session, skipDates)'
      BY <1>7, MarkAsType
      DEF CancelNext, MarkFailed, TypeOK, IsState, Settled, Errors
    <2>2. worker' \in [Workers -> WorkerState]
      <3>1. h \in Workers /\ worker[h].todo \ {p} \in SUBSET Ids
        BY DEF TypeOK, WorkerState, Workers
      <3> QED
        BY <1>7, <3>1, BusyType DEF CancelNext, Advance, TypeOK
    <2> QED
      BY <1>7, <2>1, <2>2 DEF CancelNext, TypeOK
  <1>8. ASSUME NEW h \in Handlers, NEW S \in SUBSET Ids, CancelStart(h, S)
        PROVE  TypeOK'
    <2>1. worker' \in [Workers -> WorkerState]
      BY <1>8, BusyType DEF CancelStart, Begin, TypeOK
    <2> QED
      BY <1>8, <2>1 DEF CancelStart, Request, TypeOK, IsState
  <1>9. ASSUME NEW h \in Handlers, TurnFails(h)
        PROVE  TypeOK'
    <2>1. worker' \in [Workers -> WorkerState]
      BY <1>9, BusyType DEF TurnFails, TypeOK
    <2> QED
      BY <1>9, <2>1 DEF TurnFails, TypeOK, IsState
  <1>10. CASE BotDies
    <2>1. worker' \in [Workers -> WorkerState]
      BY <1>10, BusyType DEF BotDies, TypeOK
    <2> QED
      BY <1>10, <2>1 DEF BotDies, TypeOK, IsState
  <1>11. ASSUME NEW c \in Contents, NEW t \in Times, NEW x \in AllPrefixes,
                Enqueue(c, t, x)
         PROVE  TypeOK'
    <2>1. queue' \in [DOMAIN queue \cup {nextId} -> Item]
      BY <1>11 DEF Enqueue, TypeOK, IsState, IsQueue, Item, Pending, Errors
    <2>2. IsState(queue, session, skipDates)'
      BY <1>11, <2>1 DEF Enqueue, TypeOK, IsState, IsQueue
    <2>3. nextId' \in 1..(MaxItems + 1)
      <3>1. nextId \in Ids /\ nextId' = nextId + 1
        BY <1>11 DEF Enqueue
      <3> QED
        BY <3>1 DEF Ids
    <2>4. requests' \in 0..MaxRequests
      <3>1. Request
        BY <1>11 DEF Enqueue
      <3> QED
        BY <3>1 DEF Request, TypeOK
    <2> QED
      BY <1>11, <2>2, <2>3, <2>4 DEF Enqueue, TypeOK
  <1>12. CASE SkipToday
    <2>1. queue' \in [DOMAIN queue -> Item]
      BY <1>12, WithFacts
      DEF SkipToday, TypeOK, IsState, IsQueue, Settled, Errors
    <2>2. skipDates' \in SkipDates
      BY <1>12 DEF SkipToday, TypeOK, IsState, SkipDates
    <2>3. IsState(queue, session, skipDates)'
      BY <1>12, <2>1, <2>2 DEF SkipToday, TypeOK, IsState, IsQueue
    <2> QED
      BY <1>12, <2>3 DEF SkipToday, Request, TypeOK
  <1>13. CASE UnskipToday
    BY <1>13 DEF UnskipToday, Request, TypeOK, IsState, SkipDates
  <1>14. CASE ReleaseHeld
    <2>1. queue' \in [DOMAIN queue -> Item]
      BY <1>14, WithFacts
      DEF ReleaseHeld, TypeOK, IsState, IsQueue, Pending, Errors
    <2>2. IsState(queue, session, skipDates)'
      BY <1>14, <2>1 DEF ReleaseHeld, TypeOK, IsState, IsQueue
    <2>3. requests' \in 0..MaxRequests
      <3>1. Request
        BY <1>14 DEF ReleaseHeld
      <3> QED
        BY <3>1 DEF Request, TypeOK
    <2> QED
      BY <1>14, <2>2, <2>3 DEF ReleaseHeld, TypeOK
  <1>15. ASSUME NEW k \in Collectors, CollectorRead(k)
         PROVE  TypeOK'
    BY <1>15 DEF CollectorRead, Request, TypeOK, IsState
  <1>16. ASSUME NEW k \in Collectors, CollectorWrite(k)
         PROVE  TypeOK'
    <2>1. lost' \in [Ids -> Nat]
      BY <1>16 DEF CollectorWrite, Lose, TypeOK
    <2> QED
      BY <1>16, <2>1 DEF CollectorWrite, TypeOK, IsState
  <1>17. CASE Tick
    BY <1>17 DEF Tick, TypeOK, IsState, Times
  <1>18. CASE UNCHANGED vars
    BY <1>18 DEF vars, TypeOK, IsState
  <1>19. ASSUME NEW w \in Workers, NEW p \in Ids, Retry(w, p)
         PROVE  TypeOK'
    <2>1. worker' \in [Workers -> WorkerState]
      BY <1>19, RetryFacts DEF TypeOK
    <2>2. /\ cronTweets' \in [Ids -> Nat]
          /\ nowTweets' \in [Ids -> Nat]
          /\ lost' \in [Ids -> Nat]
      BY <1>19 DEF Retry, Tweet, TypeOK
    <2> QED
      BY <1>19, <2>1, <2>2 DEF Retry, TypeOK, IsState
  <1> QED
    BY <1>1, <1>2, <1>3, <1>4, <1>5, <1>6, <1>7, <1>8, <1>9, <1>10, <1>11,
       <1>12, <1>13, <1>14, <1>15, <1>16, <1>17, <1>18, <1>19
    DEF Next, CronStep, TurnStep, Workers

\* The program never leaves its types: state.json stays valid for its schema
\* and every counter within its bound, for any number of handlers, collectors,
\* contents and items.
THEOREM TypeCorrect == Spec => []TypeOK
  <1> QED
    BY TypeInit, TypeNext, PTL DEF Spec
-----------------------------------------------------------------------------
(* The inductive invariant.  Counters and the clock only grow.              *)

Grow ==
    /\ nextId' >= nextId
    /\ now' >= now
    /\ \A p \in Ids : /\ cronTweets'[p] >= cronTweets[p]
                      /\ nowTweets'[p] >= nowTweets[p]

LEMMA GrowNext == TypeOK /\ [Next]_vars => Grow
  <1> SUFFICES ASSUME TypeOK, [Next]_vars PROVE Grow
    OBVIOUS
  <1> USE ConstantsAssumption DEF ConstantsAssumption
  <1>1. ASSUME NEW w \in Workers, NEW p \in Ids, Attempt(w, p) \/ Retry(w, p)
        PROVE  Grow
    <2>1. UNCHANGED <<nextId, now>>
      BY <1>1 DEF Attempt, Retry
    <2>2. \/ Tweet(w, p)
          \/ UNCHANGED <<cronTweets, nowTweets>>
      BY <1>1 DEF Attempt, Retry, tweets
    <2>3. ASSUME NEW q \in Ids
          PROVE  cronTweets'[q] >= cronTweets[q] /\ nowTweets'[q] >= nowTweets[q]
      <3>1. CASE UNCHANGED <<cronTweets, nowTweets>>
        BY <3>1 DEF TypeOK
      <3>2. CASE Tweet(w, p)
        BY <3>2 DEF Tweet, TypeOK
      <3> QED
        BY <2>2, <3>1, <3>2
    <2> QED
      BY <2>1, <2>3 DEF Grow, TypeOK, Ids, Times
  <1>2. ASSUME NEW c \in Contents, NEW t \in Times, NEW x \in AllPrefixes,
               Enqueue(c, t, x)
        PROVE  Grow
    <2>1. nextId' = nextId + 1 /\ UNCHANGED <<now, cronTweets, nowTweets>>
      BY <1>2 DEF Enqueue, tweets
    <2> QED
      BY <2>1 DEF Grow, TypeOK, Ids, Times
  <1>3. CASE Tick
    BY <1>3 DEF Tick, tweets, Grow, TypeOK, Ids, Times
  <1>4. CASE UNCHANGED <<nextId, now, cronTweets, nowTweets>>
    BY <1>4 DEF Grow, TypeOK, Ids, Times
  <1>5. CASE \/ CronStart
             \/ CronDies
             \/ BotDies
             \/ SkipToday
             \/ UnskipToday
             \/ ReleaseHeld
    BY <1>5, <1>4 DEF CronStart, CronDies, BotDies, SkipToday, UnskipToday,
                      ReleaseHeld, tweets
  <1>6. ASSUME NEW w \in Workers,
               MarkPublishedThrows(w) \/ \E p \in Ids : Mark(w, p)
        PROVE  Grow
    BY <1>6, <1>4 DEF Mark, MarkPublishedThrows, tweets
  <1>7. ASSUME NEW h \in Handlers,
               \/ \E p \in Ids : PublishNow(h, p) \/ CancelNext(h, p)
               \/ \E S \in SUBSET Ids : CancelStart(h, S)
               \/ TurnFails(h)
        PROVE  Grow
    BY <1>7, <1>4 DEF PublishNow, CancelNext, CancelStart, TurnFails, tweets
  <1>8. ASSUME NEW k \in Collectors, CollectorRead(k) \/ CollectorWrite(k)
        PROVE  Grow
    BY <1>8, <1>4 DEF CollectorRead, CollectorWrite, tweets
  <1> QED
    BY <1>1, <1>2, <1>3, <1>4, <1>5, <1>6, <1>7, <1>8
    DEF Next, CronStep, TurnStep, Workers, vars
-----------------------------------------------------------------------------
(* Every copy of the stored state is sound.                                 *)

\* A step that changes the statuses of items but not the items keeps the
\* stored state sound if it revives nothing, settles the sessions of what it
\* settles, and publishes only what was tweeted.
LEMMA RestatusKeepsCopy ==
    ASSUME TypeOK, TypeOK', Grow, CopyOK(queue, session),
           DOMAIN queue' = DOMAIN queue,
           \A p \in DOMAIN queue :
               /\ queue'[p].content = queue[p].content
               /\ queue'[p].at = queue[p].at
               /\ queue'[p].prefix = queue[p].prefix
               /\ queue'[p].status \in Pending => queue[p].status \in Pending
               /\ queue'[p].status = "published" => Tweeted(p)'
               /\ queue'[p].status \in {"published", "failed_terminal"}
                     => session'[queue[p].content] # "scheduled",
           \A c \in Contents :
               session'[c] = "published" =>
                   \/ session[c] = "published"
                   \/ \E p \in DOMAIN queue : queue[p].content = c /\ Tweeted(p)'
    PROVE  CopyOK(queue, session)'
  <1>1. (DOMAIN queue \subseteq 1..(nextId - 1))'
    BY DEF CopyOK, Grow, TypeOK
  <1>2. Distinct(queue, PendingIn(queue))'
    BY DEF CopyOK, Distinct, PendingIn, Clash
  <1>3. PublishedTweeted(queue)'
    BY DEF PublishedTweeted
  <1>4. \A p \in DOMAIN queue : Tweeted(p) => Tweeted(p)'
    BY DEF Tweeted, Grow, TypeOK, IsState, IsQueue
  <1>5. SessionTweeted(queue, session)'
    BY <1>4 DEF CopyOK, SessionTweeted
  <1>6. SessionSettled(queue, session)'
    BY DEF SessionSettled
  <1> QED
    BY <1>1, <1>2, <1>3, <1>5, <1>6 DEF CopyOK

LEMMA SnapshotsKept ==
    ASSUME TypeOK, TypeOK', Grow, CopiesOK
    PROVE  \A k \in DOMAIN snapshot :
               snapshot'[k] = snapshot[k] =>
                   CopyOK(snapshot[k].queue, snapshot[k].session)'
  <1> SUFFICES ASSUME NEW k \in DOMAIN snapshot, snapshot'[k] = snapshot[k]
               PROVE  CopyOK(snapshot[k].queue, snapshot[k].session)'
    OBVIOUS
  <1> DEFINE q == snapshot[k].queue
             s == snapshot[k].session
  <1>1. IsQueue(q) /\ CopyOK(q, s)
    BY DEF TypeOK, IsState, CopiesOK
  <1>2. \A p \in DOMAIN q : Tweeted(p) => Tweeted(p)'
    BY <1>1 DEF Tweeted, Grow, TypeOK, IsQueue
  <1>3. (DOMAIN q \subseteq 1..(nextId - 1))'
    BY <1>1 DEF CopyOK, Grow, TypeOK
  <1>4. Distinct(q, PendingIn(q))' /\ SessionSettled(q, s)'
    BY <1>1 DEF CopyOK, Distinct, PendingIn, SessionSettled
  <1>5. PublishedTweeted(q)' /\ SessionTweeted(q, s)'
    BY <1>1, <1>2 DEF CopyOK, PublishedTweeted, SessionTweeted
  <1> QED
    BY <1>3, <1>4, <1>5 DEF CopyOK

LEMMA MarkAsKeepsCopy ==
    ASSUME TypeOK, TypeOK', Grow, CopyOK(queue, session), NEW p \in Ids,
           NEW status \in {"published", "failed_terminal"},
           NEW error \in Errors, MarkAs(p, status, error),
           status = "published" => Tweeted(p)'
    PROVE  CopyOK(queue, session)'
  <1>1. CASE p \notin DOMAIN queue
    <2>1. UNCHANGED <<queue, session>>
      BY <1>1 DEF MarkAs
    <2>2. \A r \in DOMAIN queue :
             /\ queue'[r].status = "published" => Tweeted(r)'
             /\ queue'[r].status \in {"published", "failed_terminal"}
                   => session'[queue[r].content] # "scheduled"
      BY <2>1 DEF CopyOK, PublishedTweeted, SessionSettled, Tweeted, Grow,
                  TypeOK, IsState, IsQueue
    <2> QED
      BY <2>1, <2>2, RestatusKeepsCopy
  <1>2. CASE p \in DOMAIN queue
    <2> DEFINE changed == With(queue[p], status, error)
    <2>1. /\ queue' = [queue EXCEPT ![p] = changed]
          /\ session' = Propagate({queue[p].content}, status)
      BY <1>2 DEF MarkAs
    <2>2. /\ changed.content = queue[p].content
          /\ changed.at = queue[p].at
          /\ changed.prefix = queue[p].prefix
          /\ changed.status = status
      <3>1. queue[p] \in Item
        BY <1>2 DEF TypeOK, IsState, IsQueue
      <3>2. status \in Pending \cup Settled
        BY DEF Settled
      <3> QED
        BY <3>1, <3>2, WithFacts
    <2> HIDE DEF changed
    <2>3. DOMAIN queue' = DOMAIN queue
      BY <2>1 DEF TypeOK, IsState, IsQueue
    <2>4. \A r \in DOMAIN queue :
             queue'[r] = IF r = p THEN changed ELSE queue[r]
      BY <2>1 DEF TypeOK, IsState, IsQueue
    <2>5. \A r \in DOMAIN queue : queue[r].content \in Contents
      BY DEF TypeOK, IsState, IsQueue, Item
    <2>6. \A c \in Contents :
             \/ session'[c] = session[c] /\ c # queue[p].content
             \/ session'[c] = session[c] /\ session[c] = "none"
             \/ session'[c] = status /\ c = queue[p].content
      BY <2>1 DEF Propagate
    <2>7. \A r \in DOMAIN queue : Tweeted(r) => Tweeted(r)'
      BY DEF Tweeted, Grow, TypeOK, IsState, IsQueue
    <2>8. ASSUME NEW r \in DOMAIN queue
          PROVE  /\ queue'[r].content = queue[r].content
                 /\ queue'[r].at = queue[r].at
                 /\ queue'[r].prefix = queue[r].prefix
                 /\ queue'[r].status \in Pending => queue[r].status \in Pending
                 /\ queue'[r].status = "published" => Tweeted(r)'
      BY <2>2, <2>4, <2>7 DEF CopyOK, PublishedTweeted, Pending
    <2>9. ASSUME NEW r \in DOMAIN queue,
                 queue'[r].status \in {"published", "failed_terminal"}
          PROVE  session'[queue[r].content] # "scheduled"
      BY <2>2, <2>4, <2>5, <2>6, <2>9 DEF CopyOK, SessionSettled
    <2>10. \A c \in Contents :
              session'[c] = "published" =>
                  \/ session[c] = "published"
                  \/ \E r \in DOMAIN queue :
                        queue[r].content = c /\ Tweeted(r)'
      BY <1>2, <2>6
    <2> QED
      BY <2>3, <2>8, <2>9, <2>10, RestatusKeepsCopy
  <1> QED
    BY <1>1, <1>2

\* Init and Next for the copies.
LEMMA CopiesInit == Init => CopiesOK
  <1> SUFFICES ASSUME Init PROVE CopiesOK
    OBVIOUS
  <1>1. DOMAIN queue \subseteq 1..(nextId - 1)
    BY InitialQueuesAssumption, ConstantsAssumption
    DEF InitialQueuesAssumption, ConstantsAssumption, Init, IsQueue, Ids
  <1>2. Distinct(queue, DOMAIN queue)
    BY InitialQueuesAssumption DEF InitialQueuesAssumption, Init
  <1>3. \A p \in DOMAIN queue : queue[p].status \in Pending
    BY InitialQueuesAssumption DEF InitialQueuesAssumption, Init
  <1>4. Distinct(queue, PendingIn(queue))
    BY <1>2 DEF Distinct, PendingIn
  <1>5. PublishedTweeted(queue) /\ SessionSettled(queue, session)
    BY <1>3 DEF PublishedTweeted, SessionSettled, Pending
  <1>6. SessionTweeted(queue, session)
    BY DEF Init, SessionTweeted
  <1> QED
    BY <1>1, <1>4, <1>5, <1>6 DEF Init, CopiesOK, CopyOK

LEMMA EnqueueKeepsCopy ==
    ASSUME TypeOK, TypeOK', Grow, CopyOK(queue, session),
           NEW c \in Contents, NEW t \in Times, NEW x \in AllPrefixes,
           Enqueue(c, t, x)
    PROVE  CopyOK(queue, session)'
  <1> DEFINE new == [content |-> c, at |-> t, prefix |-> x,
                     status |-> "scheduled", error |-> ""]
  <1>1. /\ nextId \in Ids
        /\ nextId' = nextId + 1
        /\ UNCHANGED <<session, cronTweets, nowTweets>>
        /\ \A p \in DOMAIN queue : ~Duplicates(queue[p], c, t, x)
        /\ queue' = [p \in DOMAIN queue \cup {nextId} |->
                        IF p = nextId THEN new ELSE queue[p]]
    BY DEF Enqueue, tweets
  <1>2. nextId \notin DOMAIN queue /\ DOMAIN queue \subseteq 1..(nextId - 1)
    <2>1. nextId \in Nat
      BY DEF TypeOK
    <2> QED
      BY <2>1 DEF CopyOK
  <1>3. /\ new.content = c
        /\ new.at = t
        /\ new.prefix = x
        /\ new.status = "scheduled"
    OBVIOUS
  <1> HIDE DEF new
  <1>4. /\ DOMAIN queue' = DOMAIN queue \cup {nextId}
        /\ queue'[nextId] = new
        /\ \A p \in DOMAIN queue : queue'[p] = queue[p]
    BY <1>1, <1>2
  <1>5. (DOMAIN queue \subseteq 1..(nextId - 1))'
    BY <1>1, <1>2, <1>4 DEF Ids
  <1>6. Distinct(queue, PendingIn(queue))'
    <2>1. ASSUME NEW p \in DOMAIN queue, queue[p].status \in Pending
          PROVE  ~Clash(queue[p], new) /\ ~Clash(new, queue[p])
      BY <1>1, <1>3, <2>1 DEF Duplicates, Live, Clash
    <2>2. SUFFICES ASSUME NEW p \in PendingIn(queue)', NEW r \in PendingIn(queue)',
                          p # r
                   PROVE  ~Clash(queue'[p], queue'[r])
      BY DEF Distinct
    <2>3. CASE p \in DOMAIN queue /\ r \in DOMAIN queue
      BY <1>4, <2>2, <2>3 DEF CopyOK, Distinct, PendingIn
    <2>4. CASE p = nextId \/ r = nextId
      BY <1>2, <1>4, <2>1, <2>2, <2>4 DEF PendingIn
    <2> QED
      BY <1>4, <2>3, <2>4 DEF PendingIn
  <1>7. \A p \in DOMAIN queue : Tweeted(p) <=> Tweeted(p)'
    BY <1>1 DEF Tweeted
  <1>8. PublishedTweeted(queue)'
    BY <1>3, <1>4, <1>7 DEF CopyOK, PublishedTweeted
  <1>9. SessionTweeted(queue, session)'
    BY <1>1, <1>4, <1>7 DEF CopyOK, SessionTweeted
  <1>10. SessionSettled(queue, session)'
    BY <1>1, <1>3, <1>4 DEF CopyOK, SessionSettled
  <1> QED
    BY <1>5, <1>6, <1>8, <1>9, <1>10 DEF CopyOK

LEMMA StoreNext ==
    ASSUME TypeOK, TypeOK', Grow, CopiesOK, MarksTweeted, [Next]_vars
    PROVE  CopyOK(queue, session)'
  <1>0. CopyOK(queue, session)
    BY DEF CopiesOK
  <1>1. CASE CronStart
    <2>1. /\ DOMAIN queue' = DOMAIN queue
          /\ \A p \in DOMAIN queue :
                queue'[p] =
                    IF p \in Stale
                    THEN With(queue[p], "failed_terminal", "stale_after_24h")
                    ELSE queue[p]
          /\ session' = Propagate({queue[p].content : p \in Stale},
                                  "failed_terminal")
          /\ UNCHANGED <<cronTweets, nowTweets>>
      BY <1>1 DEF CronStart, tweets
    <2>2. \A p \in DOMAIN queue : queue[p] \in Item /\ queue[p].content \in Contents
      BY DEF TypeOK, IsState, IsQueue, Item
    <2>3. \A p \in DOMAIN queue :
             /\ queue'[p].content = queue[p].content
             /\ queue'[p].at = queue[p].at
             /\ queue'[p].prefix = queue[p].prefix
             /\ queue'[p].status =
                   IF p \in Stale THEN "failed_terminal" ELSE queue[p].status
      <3>1. ASSUME NEW p \in DOMAIN queue
            PROVE  LET new == With(queue[p], "failed_terminal", "stale_after_24h")
                   IN  /\ new.content = queue[p].content
                       /\ new.at = queue[p].at
                       /\ new.prefix = queue[p].prefix
                       /\ new.status = "failed_terminal"
        <4>1. queue[p] \in Item
          BY <2>2
        <4>2. /\ "failed_terminal" \in Pending \cup Settled
              /\ "stale_after_24h" \in Errors
          BY DEF Settled, Errors
        <4> QED
          BY <4>1, <4>2, WithFacts
      <3> QED
        BY <2>1, <3>1
    <2>4. \A c \in Contents :
             \/ /\ session'[c] = session[c]
                /\ \/ c \notin {queue[p].content : p \in Stale}
                   \/ session[c] = "none"
             \/ session'[c] = "failed_terminal"
      BY <2>1 DEF Propagate
    <2>5. \A p \in DOMAIN queue : Tweeted(p) <=> Tweeted(p)'
      BY <2>1 DEF Tweeted
    <2>6. \A p \in DOMAIN queue :
             /\ queue'[p].status \in Pending => queue[p].status \in Pending
             /\ queue'[p].status = "published" => Tweeted(p)'
      BY <1>0, <2>3, <2>5 DEF CopyOK, PublishedTweeted, Pending
    <2>7. ASSUME NEW p \in DOMAIN queue,
                 queue'[p].status \in {"published", "failed_terminal"}
          PROVE  session'[queue[p].content] # "scheduled"
      BY <1>0, <2>2, <2>3, <2>4, <2>7 DEF CopyOK, SessionSettled
    <2> QED
      BY <1>0, <2>1, <2>3, <2>4, <2>6, <2>7, RestatusKeepsCopy
  <1>2. ASSUME NEW w \in Workers, NEW p \in Ids, Mark(w, p)
        PROVE  CopyOK(queue, session)'
    <2>1. CASE worker[w].outcome = "published" /\ MarkPublished(p)
      <3>1. Tweeted(p)
        BY <1>2, <2>1 DEF Mark, MarksTweeted
      <3>2. Tweeted(p)'
        BY <3>1 DEF Tweeted, Grow, TypeOK
      <3>3. MarkAs(p, "published", "")
        BY <2>1 DEF MarkPublished
      <3> QED
        BY <1>0, <3>2, <3>3, MarkAsKeepsCopy DEF Errors
    <2>2. CASE MarkFailed(p, "publish_failed")
      BY <1>0, <2>2, MarkAsKeepsCopy DEF MarkFailed, Errors
    <2> QED
      BY <1>2, <2>1, <2>2 DEF Mark
  <1>3. ASSUME NEW h \in Handlers, NEW p \in Ids, CancelNext(h, p)
        PROVE  CopyOK(queue, session)'
    <2>1. MarkAs(p, "failed_terminal", "cancelled_by_user")
      BY <1>3 DEF CancelNext, MarkFailed
    <2> QED
      BY <1>0, <2>1, MarkAsKeepsCopy DEF Errors
  <1>4. ASSUME NEW c \in Contents, NEW t \in Times, NEW x \in AllPrefixes,
               Enqueue(c, t, x)
        PROVE  CopyOK(queue, session)'
    BY <1>0, <1>4, EnqueueKeepsCopy
  <1>5. ASSUME SkipToday \/ ReleaseHeld
        PROVE  CopyOK(queue, session)'
    <2>1. /\ DOMAIN queue' = DOMAIN queue
          /\ UNCHANGED <<session, cronTweets, nowTweets>>
      BY <1>5 DEF SkipToday, ReleaseHeld, tweets
    <2>2. \A p \in DOMAIN queue :
             \/ queue'[p] = queue[p]
             \/ /\ queue[p].status \in Pending
                /\ \/ queue'[p] = With(queue[p], "cancelled_by_user",
                                       "skipped_by_user")
                   \/ queue'[p] = With(queue[p], "scheduled", "")
      BY <1>5 DEF SkipToday, ReleaseHeld, Pending
    <2>3. \A p \in DOMAIN queue : queue[p] \in Item
      BY DEF TypeOK, IsState, IsQueue
    <2>4. \A p \in DOMAIN queue :
             /\ queue'[p].content = queue[p].content
             /\ queue'[p].at = queue[p].at
             /\ queue'[p].prefix = queue[p].prefix
             /\ \/ queue'[p].status = queue[p].status
                \/ /\ queue[p].status \in Pending
                   /\ queue'[p].status \in {"cancelled_by_user", "scheduled"}
      <3>2. ASSUME NEW p \in DOMAIN queue,
                   queue'[p] = With(queue[p], "cancelled_by_user", "skipped_by_user")
            PROVE  /\ queue'[p].content = queue[p].content
                   /\ queue'[p].at = queue[p].at
                   /\ queue'[p].prefix = queue[p].prefix
                   /\ queue'[p].status = "cancelled_by_user"
        <4>1. queue[p] \in Item
          BY <2>3
        <4>2. /\ "cancelled_by_user" \in Pending \cup Settled
              /\ "skipped_by_user" \in Errors
          BY DEF Settled, Errors
        <4> QED
          BY <3>2, <4>1, <4>2, WithFacts
      <3>3. ASSUME NEW p \in DOMAIN queue,
                   queue'[p] = With(queue[p], "scheduled", "")
            PROVE  /\ queue'[p].content = queue[p].content
                   /\ queue'[p].at = queue[p].at
                   /\ queue'[p].prefix = queue[p].prefix
                   /\ queue'[p].status = "scheduled"
        <4>1. queue[p] \in Item
          BY <2>3
        <4>2. "scheduled" \in Pending \cup Settled /\ "" \in Errors
          BY DEF Pending, Errors
        <4> DEFINE new == With(queue[p], "scheduled", "")
        <4>3. /\ new.content = queue[p].content
              /\ new.at = queue[p].at
              /\ new.prefix = queue[p].prefix
              /\ new.status = "scheduled"
          BY <4>1, <4>2, WithFacts, ZenonT(60)
        <4> QED
          BY <3>3, <4>3
      <3> QED
        BY <2>2, <3>2, <3>3
    <2>5. \A p \in DOMAIN queue : Tweeted(p) <=> Tweeted(p)'
      BY <2>1 DEF Tweeted
    <2>6. \A p \in DOMAIN queue :
             /\ queue'[p].status \in Pending => queue[p].status \in Pending
             /\ queue'[p].status = "published" => Tweeted(p)'
             /\ queue'[p].status \in {"published", "failed_terminal"}
                   => session'[queue[p].content] # "scheduled"
      BY <1>0, <2>1, <2>4, <2>5 DEF CopyOK, PublishedTweeted, SessionSettled
    <2> QED
      BY <1>0, <2>1, <2>4, <2>6, RestatusKeepsCopy
  <1>6. ASSUME NEW k \in Collectors, CollectorWrite(k)
        PROVE  CopyOK(queue, session)'
    <2>1. /\ k \in DOMAIN snapshot
          /\ queue' = snapshot[k].queue
          /\ session' = snapshot[k].session
          /\ UNCHANGED <<nextId, cronTweets, nowTweets>>
      BY <1>6 DEF CollectorWrite
    <2>2. CopyOK(snapshot[k].queue, snapshot[k].session)
      BY <2>1 DEF CopiesOK
    <2> QED
      BY <2>1, <2>2 DEF CopyOK, Distinct, PendingIn, PublishedTweeted,
                        SessionTweeted, SessionSettled, Tweeted
  <1>7. CASE UNCHANGED <<queue, session>>
    <2>1. \A p \in DOMAIN queue : Tweeted(p) => Tweeted(p)'
      BY DEF Tweeted, Grow, TypeOK, IsState, IsQueue
    <2>2. \A p \in DOMAIN queue :
             /\ queue'[p].status = "published" => Tweeted(p)'
             /\ queue'[p].status \in {"published", "failed_terminal"}
                   => session'[queue[p].content] # "scheduled"
      BY <1>0, <1>7, <2>1 DEF CopyOK, PublishedTweeted, SessionSettled
    <2> QED
      BY <1>0, <1>7, <2>2, RestatusKeepsCopy
  <1>8. CASE CronDies \/ BotDies \/ UnskipToday \/ Tick \/ UNCHANGED vars
    BY <1>7, <1>8 DEF CronDies, BotDies, UnskipToday, Tick, store, vars
  <1>9. ASSUME NEW w \in Workers,
               \/ MarkPublishedThrows(w)
               \/ \E p \in Ids : Attempt(w, p) \/ Retry(w, p)
        PROVE  UNCHANGED <<queue, session>>
    BY <1>9 DEF MarkPublishedThrows, Attempt, Retry, store
  <1>10. ASSUME NEW h \in Handlers,
                \/ \E p \in Ids : PublishNow(h, p)
                \/ \E S \in SUBSET Ids : CancelStart(h, S)
                \/ TurnFails(h)
         PROVE  UNCHANGED <<queue, session>>
    BY <1>10 DEF PublishNow, CancelStart, TurnFails, store
  <1>11. ASSUME NEW k \in Collectors, CollectorRead(k)
         PROVE  UNCHANGED <<queue, session>>
    BY <1>11 DEF CollectorRead, store
  <1> QED
    BY <1>1, <1>2, <1>3, <1>4, <1>5, <1>6, <1>7, <1>8, <1>9, <1>10, <1>11
    DEF Next, CronStep, TurnStep, Workers

LEMMA CopiesNext ==
    ASSUME TypeOK, TypeOK', Grow, CopiesOK, MarksTweeted, [Next]_vars
    PROVE  CopiesOK'
  <1> USE DEF store, tweets, bounds
  <1>1. CopyOK(queue, session)'
    BY StoreNext
  <1>2. ASSUME \A k \in DOMAIN snapshot' :
                  k \in DOMAIN snapshot /\ snapshot'[k] = snapshot[k]
        PROVE  CopiesOK'
    BY <1>1, <1>2, SnapshotsKept DEF CopiesOK
  <1>3. ASSUME NEW k \in Collectors, CollectorRead(k)
        PROVE  CopiesOK'
    <2>1. /\ DOMAIN snapshot' = DOMAIN snapshot \cup {k}
          /\ snapshot'[k] = [queue |-> queue, session |-> session,
                             skipDates |-> skipDates]
          /\ \A j \in DOMAIN snapshot : snapshot'[j] = snapshot[j]
          /\ UNCHANGED <<queue, session>>
      BY <1>3 DEF CollectorRead
    <2>2. CopyOK(snapshot[k].queue, snapshot[k].session)'
      BY <1>1, <2>1
    <2>3. ASSUME NEW j \in DOMAIN snapshot
          PROVE  CopyOK(snapshot[j].queue, snapshot[j].session)'
      BY <2>1, SnapshotsKept
    <2> QED
      BY <1>1, <2>1, <2>2, <2>3 DEF CopiesOK
  <1>4. ASSUME NEW k \in Collectors, CollectorWrite(k)
        PROVE  CopiesOK'
    BY <1>2, <1>4 DEF CollectorWrite
  <1>5. CASE UNCHANGED snapshot
    BY <1>2, <1>5
  <1>6. CASE \/ CronStart
             \/ CronDies
             \/ BotDies
             \/ SkipToday
             \/ UnskipToday
             \/ ReleaseHeld
             \/ Tick
             \/ UNCHANGED vars
    BY <1>5, <1>6 DEF CronStart, CronDies, BotDies, SkipToday, UnskipToday,
                      ReleaseHeld, Tick, vars
  <1>7. ASSUME NEW c \in Contents, NEW t \in Times, NEW x \in AllPrefixes,
               Enqueue(c, t, x)
        PROVE  CopiesOK'
    BY <1>5, <1>7 DEF Enqueue
  <1>8. ASSUME NEW w \in Workers,
               \/ MarkPublishedThrows(w)
               \/ \E p \in Ids : Retry(w, p) \/ Attempt(w, p) \/ Mark(w, p)
        PROVE  CopiesOK'
    BY <1>5, <1>8 DEF MarkPublishedThrows, Retry, Attempt, Mark
  <1>9. ASSUME NEW h \in Handlers,
               \/ \E p \in Ids : PublishNow(h, p) \/ CancelNext(h, p)
               \/ \E S \in SUBSET Ids : CancelStart(h, S)
               \/ TurnFails(h)
        PROVE  CopiesOK'
    BY <1>5, <1>9 DEF PublishNow, CancelNext, CancelStart, TurnFails
  <1> QED
    BY <1>3, <1>4, <1>6, <1>7, <1>8, <1>9 DEF Next, CronStep, TurnStep, Workers
-----------------------------------------------------------------------------
(* What is about to be recorded as published was tweeted.                   *)

LEMMA FirstIsUnique ==
    ASSUME NEW S \in SUBSET Ids, NEW p, NEW r, IsFirst(p, S), IsFirst(r, S)
    PROVE  p = r
  BY DEF IsFirst, Ids

LEMMA MarksNext ==
    ASSUME TypeOK, TypeOK', Grow, MarksTweeted, [Next]_vars
    PROVE  MarksTweeted'
  <1> USE DEF store, tweets, bounds
  <1> SUFFICES ASSUME NEW v \in Workers, NEW r \in Ids,
                      worker'[v].pc = "mark", worker'[v].outcome = "published",
                      IsFirst(r, worker'[v].todo)
               PROVE  Tweeted(r)'
    BY DEF MarksTweeted
  <1>1. Tweeted(r) => Tweeted(r)'
    BY DEF Tweeted, Grow, TypeOK
  <1>2. CASE worker'[v] = worker[v]
    BY <1>1, <1>2 DEF MarksTweeted
  <1>3. ASSUME worker'[v].pc # "mark" PROVE Tweeted(r)'
    BY <1>3
  <1>4. CASE CronStart
    BY <1>2, <1>3, <1>4 DEF CronStart, TypeOK, Busy, Idle
  <1>5. ASSUME NEW w \in Workers, NEW p \in Ids, Attempt(w, p)
        PROVE  Tweeted(r)'
    <2>1. CASE v # w
      BY <1>2, <1>5, <2>1 DEF Attempt, ToMark, TypeOK
    <2>2. CASE v = w
      <3>1. worker'[w].todo = worker[w].todo /\ worker[w].todo \in SUBSET Ids
        BY <1>5 DEF Attempt, ToMark, TypeOK, WorkerState
      <3>2. p = r
        BY <1>5, <2>2, <3>1, FirstIsUnique DEF Attempt
      <3>3. Tweet(w, p)
        BY <1>5, <2>2 DEF Attempt, ToMark, TypeOK, WorkerState
      <3> QED
        BY <3>2, <3>3 DEF Tweet, Tweeted, TypeOK
    <2> QED
      BY <2>1, <2>2
  <1>6. ASSUME NEW w \in Workers, NEW p \in Ids, Mark(w, p)
        PROVE  Tweeted(r)'
    BY <1>2, <1>3, <1>6 DEF Mark, Advance, TypeOK, Busy, Idle
  <1>7. CASE CronDies
    BY <1>2, <1>3, <1>7 DEF CronDies, TypeOK, Busy, Idle
  <1>8. ASSUME NEW w \in Workers, MarkPublishedThrows(w)
        PROVE  Tweeted(r)'
    BY <1>2, <1>8 DEF MarkPublishedThrows, TypeOK, WorkerState
  <1>9. ASSUME NEW h \in Handlers, NEW p \in Ids, PublishNow(h, p)
        PROVE  Tweeted(r)'
    BY <1>2, <1>3, <1>9 DEF PublishNow, Begin, TypeOK, Busy
  <1>10. ASSUME NEW h \in Handlers, NEW S \in SUBSET Ids, CancelStart(h, S)
         PROVE  Tweeted(r)'
    BY <1>2, <1>3, <1>10 DEF CancelStart, Begin, TypeOK, Busy
  <1>11. ASSUME NEW h \in Handlers, NEW p \in Ids, CancelNext(h, p)
         PROVE  Tweeted(r)'
    BY <1>2, <1>3, <1>11 DEF CancelNext, Advance, TypeOK, Busy, Idle
  <1>12. ASSUME NEW h \in Handlers, TurnFails(h)
         PROVE  Tweeted(r)'
    BY <1>2, <1>3, <1>12 DEF TurnFails, TypeOK, Busy, Idle
  <1>13. CASE BotDies
    BY <1>2, <1>3, <1>13 DEF BotDies, TypeOK, Busy, Idle
  <1>14. CASE UNCHANGED worker
    BY <1>2, <1>14
  <1>15. CASE SkipToday \/ UnskipToday \/ ReleaseHeld \/ Tick \/ UNCHANGED vars
    BY <1>14, <1>15 DEF SkipToday, UnskipToday, ReleaseHeld, Tick, vars
  <1>16. ASSUME NEW c \in Contents, NEW t \in Times, NEW x \in AllPrefixes,
                Enqueue(c, t, x)
         PROVE  Tweeted(r)'
    BY <1>14, <1>16 DEF Enqueue
  <1>17. ASSUME NEW k \in Collectors, CollectorRead(k) \/ CollectorWrite(k)
         PROVE  Tweeted(r)'
    BY <1>14, <1>17 DEF CollectorRead, CollectorWrite
  <1>18. ASSUME NEW w \in Workers, NEW p \in Ids, Retry(w, p)
         PROVE  Tweeted(r)'
    BY <1>1, <1>18, RetryFacts DEF MarksTweeted, TypeOK
  <1> QED
    BY <1>4, <1>5, <1>6, <1>7, <1>8, <1>9, <1>10, <1>11, <1>12, <1>13, <1>15,
       <1>16, <1>17, <1>18
    DEF Next, CronStep, TurnStep, Workers
-----------------------------------------------------------------------------
(* Times: the copies agree on them, and the cron waits for them.            *)

LEMMA TimesKept ==
    ASSUME TypeOK, TypeOK', Grow, TimesOK, FreshIds,
           DOMAIN queue' = DOMAIN queue,
           \A p \in DOMAIN queue : queue'[p].at = queue[p].at,
           UNCHANGED snapshot,
           \A p \in Ids : Begun(p)' => Begun(p)
    PROVE  TimesOK' /\ FreshIds'
  <1>1. FreshIds'
    <2>1. \A p \in Ids : p \in Int
      BY DEF Ids
    <2>2. nextId \in Int /\ nextId' \in Int /\ nextId' >= nextId
      BY DEF TypeOK, Grow
    <2> QED
      BY <2>1, <2>2 DEF FreshIds
  <1>2. BegunInTime(queue)'
    BY DEF TimesOK, BegunInTime, Grow, TypeOK, IsState, IsQueue, Item, Times
  <1>3. ASSUME NEW k \in DOMAIN snapshot
        PROVE  /\ BegunInTime(snapshot[k].queue)'
               /\ SameTimes(queue, snapshot[k].queue)'
               /\ \A j \in DOMAIN snapshot :
                     SameTimes(snapshot[j].queue, snapshot[k].queue)'
    <2> DEFINE q == snapshot[k].queue
    <2>1. IsQueue(q) /\ BegunInTime(q) /\ SameTimes(queue, q)
      BY DEF TypeOK, IsState, TimesOK
    <2>2. BegunInTime(q)'
      BY <2>1 DEF BegunInTime, IsQueue, Item, Grow, TypeOK, Times
    <2>3. SameTimes(queue, q)'
      BY <2>1 DEF SameTimes
    <2>4. \A j \in DOMAIN snapshot : SameTimes(snapshot[j].queue, q)'
      BY DEF TimesOK, SameTimes
    <2> QED
      BY <2>2, <2>3, <2>4
  <1> QED
    BY <1>1, <1>2, <1>3 DEF TimesOK

\* Times stay the same in every step but an enqueue and a stale write.
LEMMA SameTimesNext ==
    ASSUME TypeOK, [Next]_vars
    PROVE  \/ /\ DOMAIN queue' = DOMAIN queue
              /\ \A p \in DOMAIN queue : queue'[p].at = queue[p].at
           \/ \E c \in Contents, t \in Times, x \in AllPrefixes : Enqueue(c, t, x)
           \/ \E k \in Collectors : CollectorWrite(k)
  <1> DEFINE Kept == /\ DOMAIN queue' = DOMAIN queue
                     /\ \A p \in DOMAIN queue : queue'[p].at = queue[p].at
  <1>1. \A p \in DOMAIN queue : queue[p] \in Item
    BY DEF TypeOK, IsState, IsQueue
  <1>2. ASSUME NEW p \in DOMAIN queue, NEW status \in Pending \cup Settled,
               NEW error \in Errors
        PROVE  With(queue[p], status, error).at = queue[p].at
    BY <1>1, WithFacts
  <1>3. CASE UNCHANGED queue
    BY <1>3
  <1>4. ASSUME NEW p \in Ids, NEW status \in {"published", "failed_terminal"},
               NEW error \in Errors, MarkAs(p, status, error)
        PROVE  Kept
    <2>1. CASE p \in DOMAIN queue
      <3>1. queue' = [queue EXCEPT ![p] = With(queue[p], status, error)]
        BY <1>4, <2>1 DEF MarkAs
      <3>2. With(queue[p], status, error).at = queue[p].at
        BY <1>2, <2>1 DEF Settled
      <3> QED
        BY <2>1, <3>1, <3>2 DEF TypeOK, IsState, IsQueue
    <2> QED
      BY <1>3, <1>4, <2>1 DEF MarkAs
  <1>5. CASE CronStart
    <2>1. \A p \in DOMAIN queue :
             With(queue[p], "failed_terminal", "stale_after_24h").at = queue[p].at
      BY <1>2 DEF Settled, Errors
    <2> QED
      BY <1>5, <2>1 DEF CronStart
  <1>6. CASE SkipToday
    <2>1. \A p \in DOMAIN queue :
             With(queue[p], "cancelled_by_user", "skipped_by_user").at
                 = queue[p].at
      BY <1>2 DEF Settled, Errors
    <2> QED
      BY <1>6, <2>1 DEF SkipToday
  <1>7. CASE ReleaseHeld
    <2>1. \A p \in DOMAIN queue : With(queue[p], "scheduled", "").at = queue[p].at
      BY <1>2 DEF Pending, Errors
    <2> QED
      BY <1>7, <2>1 DEF ReleaseHeld
  <1>8. ASSUME NEW w \in Workers, NEW p \in Ids, Mark(w, p)
        PROVE  Kept
    BY <1>4, <1>8 DEF Mark, MarkPublished, MarkFailed, Errors
  <1>9. ASSUME NEW h \in Handlers, NEW p \in Ids, CancelNext(h, p)
        PROVE  Kept
    BY <1>4, <1>9 DEF CancelNext, MarkFailed, Errors
  <1>10. CASE CronDies \/ BotDies \/ UnskipToday \/ Tick \/ UNCHANGED vars
    BY <1>3, <1>10 DEF CronDies, BotDies, UnskipToday, Tick, store, vars
  <1>11. ASSUME NEW w \in Workers,
                \/ MarkPublishedThrows(w)
                \/ \E p \in Ids : Attempt(w, p) \/ Retry(w, p)
         PROVE  Kept
    BY <1>3, <1>11 DEF MarkPublishedThrows, Attempt, Retry, store
  <1>12. ASSUME NEW h \in Handlers,
                \/ \E p \in Ids : PublishNow(h, p)
                \/ \E S \in SUBSET Ids : CancelStart(h, S)
                \/ TurnFails(h)
         PROVE  Kept
    BY <1>3, <1>12 DEF PublishNow, CancelStart, TurnFails, store
  <1>13. ASSUME NEW k \in Collectors, CollectorRead(k)
         PROVE  Kept
    BY <1>3, <1>13 DEF CollectorRead, store
  <1> QED
    BY <1>5, <1>6, <1>7, <1>8, <1>9, <1>10, <1>11, <1>12, <1>13
    DEF Next, CronStep, TurnStep, Workers

\* Only CronStart makes an id begin.
LEMMA BegunNext ==
    ASSUME TypeOK, [Next]_vars, ~CronStart, NEW r \in Ids, Begun(r)'
    PROVE  Begun(r)
  <1> USE DEF store, tweets, bounds
  <1>1. CASE UNCHANGED <<cronTweets, worker>>
    BY <1>1 DEF Begun
  <1>2. ASSUME worker'[Cron].todo \subseteq worker[Cron].todo,
               UNCHANGED cronTweets
        PROVE  Begun(r)
    BY <1>2 DEF Begun
  <1>3. Cron \in Workers /\ \A h \in Handlers : h # Cron /\ h \in Workers
    BY ConstantsAssumption DEF ConstantsAssumption, Workers
  <1>4. ASSUME NEW w \in Workers, NEW p \in Ids, Attempt(w, p) \/ Retry(w, p)
        PROVE  Begun(r)
    <2>1. worker'[Cron].todo = worker[Cron].todo
      <3>1. CASE Attempt(w, p)
        BY <1>3, <3>1 DEF Attempt, ToMark, TypeOK, WorkerState
      <3>2. CASE Retry(w, p)
        BY <1>3, <3>2, RetryFacts DEF TypeOK
      <3> QED
        BY <1>4, <3>1, <3>2
    <2>2. CASE cronTweets' = [cronTweets EXCEPT ![p] = @ + 1] /\ w = Cron
      <3>1. p \in worker[Cron].todo
        BY <1>4, <2>2 DEF Attempt, Retry, IsFirst
      <3> QED
        BY <2>1, <2>2, <3>1 DEF Begun, TypeOK
    <2>3. CASE UNCHANGED cronTweets
      BY <1>2, <2>1, <2>3
    <2> QED
      BY <1>4, <2>2, <2>3 DEF Attempt, Retry, Tweet
  <1>5. ASSUME NEW w \in Workers, NEW p \in Ids, Mark(w, p)
        PROVE  Begun(r)
    BY <1>2, <1>3, <1>5 DEF Mark, Advance, TypeOK, Busy, Idle
  <1>6. CASE CronDies
    BY <1>2, <1>3, <1>6 DEF CronDies, TypeOK, Busy, Idle
  <1>7. ASSUME NEW w \in Workers, MarkPublishedThrows(w)
        PROVE  Begun(r)
    BY <1>2, <1>3, <1>7 DEF MarkPublishedThrows, TypeOK, WorkerState
  <1>8. ASSUME NEW h \in Handlers,
               \/ \E p \in Ids : PublishNow(h, p)
               \/ \E S \in SUBSET Ids : CancelStart(h, S)
        PROVE  Begun(r)
    BY <1>2, <1>3, <1>8 DEF PublishNow, CancelStart, Begin, TypeOK
  <1>9. ASSUME NEW h \in Handlers, NEW p \in Ids, CancelNext(h, p)
        PROVE  Begun(r)
    BY <1>2, <1>3, <1>9 DEF CancelNext, Advance, TypeOK
  <1>10. ASSUME NEW h \in Handlers, TurnFails(h)
         PROVE  Begun(r)
    BY <1>2, <1>3, <1>10 DEF TurnFails, TypeOK
  <1>11. CASE BotDies
    BY <1>2, <1>3, <1>11 DEF BotDies, TypeOK
  <1>12. CASE SkipToday \/ UnskipToday \/ ReleaseHeld \/ Tick \/ UNCHANGED vars
    BY <1>1, <1>12 DEF SkipToday, UnskipToday, ReleaseHeld, Tick, vars
  <1>13. ASSUME NEW c \in Contents, NEW t \in Times, NEW x \in AllPrefixes,
                Enqueue(c, t, x)
         PROVE  Begun(r)
    BY <1>1, <1>13 DEF Enqueue
  <1>14. ASSUME NEW k \in Collectors, CollectorRead(k) \/ CollectorWrite(k)
         PROVE  Begun(r)
    BY <1>1, <1>14 DEF CollectorRead, CollectorWrite
  <1> QED
    BY <1>4, <1>5, <1>6, <1>7, <1>8, <1>9, <1>10, <1>11, <1>12, <1>13, <1>14
    DEF Next, CronStep, TurnStep, Workers

LEMMA TimesNext ==
    ASSUME TypeOK, TypeOK', Grow, CopiesOK, TimesOK, FreshIds, [Next]_vars
    PROVE  TimesOK' /\ FreshIds'
  <1> USE DEF store, tweets, bounds
  <1>0. /\ \A p \in Ids : p \in Int
        /\ nextId \in Int /\ nextId' \in Int /\ nextId' >= nextId
        /\ now \in Int /\ now' \in Int /\ now' >= now
    BY DEF Ids, Times, TypeOK, Grow
  <1>00. /\ IsQueue(queue) /\ DOMAIN queue \subseteq 1..(nextId - 1)
         /\ \A k \in DOMAIN snapshot :
               /\ IsQueue(snapshot[k].queue)
               /\ DOMAIN snapshot[k].queue \subseteq 1..(nextId - 1)
    BY DEF TypeOK, IsState, CopiesOK, CopyOK
  <1>1. CASE CronStart
    <2>1. /\ DOMAIN queue' = DOMAIN queue
          /\ \A p \in DOMAIN queue : queue'[p].at = queue[p].at
      <3>1. nextId' = nextId /\ snapshot' = snapshot
        BY <1>1 DEF CronStart
      <3>2. ASSUME NEW c \in Contents, NEW t \in Times, NEW x \in AllPrefixes
            PROVE  ~Enqueue(c, t, x)
        <4>1. nextId' # nextId + 1
          BY <1>0, <3>1
        <4> QED
          BY <4>1 DEF Enqueue
      <3>3. ASSUME NEW k \in Collectors
            PROVE  ~CollectorWrite(k)
        BY <3>1 DEF CollectorWrite
      <3> QED
        BY <3>2, <3>3, SameTimesNext
    <2>2. UNCHANGED <<cronTweets, snapshot, nextId, now>>
      BY <1>1 DEF CronStart
    <2>3. worker'[Cron].todo \subseteq Due
      BY <1>1 DEF CronStart, TypeOK, Busy, Idle, Workers
    <2>4. \A p \in Due : p \in DOMAIN queue /\ queue[p].at <= now
      BY DEF Due, Scheduled
    <2>5. \A p \in Ids : Begun(p)' => Begun(p) \/ p \in Due
      BY <2>2, <2>3 DEF Begun
    <2>6. FreshIds'
      BY <1>0, <1>00, <2>2, <2>4, <2>5 DEF FreshIds
    <2>7. BegunInTime(queue)'
      BY <1>00, <2>1, <2>2, <2>4, <2>5 DEF TimesOK, BegunInTime, IsQueue
    <2>8. ASSUME NEW k \in DOMAIN snapshot
          PROVE  /\ BegunInTime(snapshot[k].queue)'
                 /\ SameTimes(queue, snapshot[k].queue)'
      <3>1. BegunInTime(snapshot[k].queue) /\ SameTimes(queue, snapshot[k].queue)
        BY DEF TimesOK
      <3>2. BegunInTime(snapshot[k].queue)'
        BY <1>00, <2>2, <2>4, <2>5, <3>1 DEF BegunInTime, SameTimes, IsQueue
      <3>3. SameTimes(queue, snapshot[k].queue)'
        BY <2>1, <2>2, <3>1 DEF SameTimes
      <3> QED
        BY <3>2, <3>3
    <2>9. \A j, k \in DOMAIN snapshot :
             SameTimes(snapshot[j].queue, snapshot[k].queue)'
      BY <2>2 DEF TimesOK, SameTimes
    <2> QED
      BY <2>2, <2>6, <2>7, <2>8, <2>9 DEF TimesOK
  <1>2. ASSUME ~CronStart
        PROVE  (\A p \in Ids : Begun(p)' => Begun(p)) /\ FreshIds'
    <2>1. \A p \in Ids : Begun(p)' => Begun(p)
      BY <1>2, BegunNext
    <2> QED
      BY <1>0, <2>1 DEF FreshIds
  <1>4. ASSUME ~CronStart, NEW k \in Collectors, CollectorWrite(k)
        PROVE  TimesOK' /\ FreshIds'
    <2>1. /\ k \in DOMAIN snapshot
          /\ queue' = snapshot[k].queue
          /\ DOMAIN snapshot' = DOMAIN snapshot \ {k}
          /\ \A j \in DOMAIN snapshot' : snapshot'[j] = snapshot[j]
      BY <1>4 DEF CollectorWrite
    <2>2. BegunInTime(queue)'
      <3>1. \A p \in DOMAIN queue' :
               p \in Ids /\ queue'[p].at \in Int
                 /\ (Begun(p) => queue'[p].at <= now)
        BY <1>00, <2>1 DEF TimesOK, BegunInTime, IsQueue, Item, Times
      <3> QED
        BY <1>0, <1>2, <1>4, <3>1 DEF BegunInTime
    <2>3. ASSUME NEW j \in DOMAIN snapshot'
          PROVE  /\ BegunInTime(snapshot[j].queue)'
                 /\ SameTimes(queue, snapshot[j].queue)'
                 /\ \A i \in DOMAIN snapshot' :
                       SameTimes(snapshot[i].queue, snapshot[j].queue)'
      <3>1. j \in DOMAIN snapshot /\ snapshot'[j] = snapshot[j]
        BY <2>1
      <3>2. \A p \in DOMAIN snapshot[j].queue :
               p \in Ids /\ snapshot[j].queue[p].at \in Int
                 /\ (Begun(p) => snapshot[j].queue[p].at <= now)
        BY <1>00, <3>1 DEF TimesOK, BegunInTime, IsQueue, Item, Times
      <3>3. BegunInTime(snapshot[j].queue)'
        BY <1>0, <1>2, <1>4, <3>1, <3>2 DEF BegunInTime
      <3>4. SameTimes(queue, snapshot[j].queue)'
        BY <2>1, <3>1 DEF TimesOK, SameTimes
      <3>5. \A i \in DOMAIN snapshot' :
               SameTimes(snapshot[i].queue, snapshot[j].queue)'
        BY <2>1, <3>1 DEF TimesOK, SameTimes
      <3> QED
        BY <3>3, <3>4, <3>5
    <2> QED
      BY <1>2, <1>4, <2>2, <2>3 DEF TimesOK
  <1>5. ASSUME ~CronStart, NEW c \in Contents, NEW t \in Times,
               NEW x \in AllPrefixes, Enqueue(c, t, x)
        PROVE  TimesOK' /\ FreshIds'
    <2>1. /\ nextId \in Ids
          /\ nextId \notin DOMAIN queue
          /\ \A k \in DOMAIN snapshot : nextId \notin DOMAIN snapshot[k].queue
      <3>1. nextId \in Ids
        BY <1>5 DEF Enqueue
      <3>2. nextId \notin 1..(nextId - 1)
        BY <1>0
      <3> QED
        BY <1>00, <3>1, <3>2
    <2>2. /\ DOMAIN queue' = DOMAIN queue \cup {nextId}
          /\ \A p \in DOMAIN queue : queue'[p] = queue[p]
          /\ UNCHANGED <<cronTweets, worker, snapshot, now>>
      BY <1>5, <2>1 DEF Enqueue
    <2>3. \A p \in Ids : Begun(p)' <=> Begun(p)
      BY <2>2 DEF Begun
    <2>4. ~Begun(nextId)
      BY <1>0, <2>1 DEF FreshIds
    <2>5. BegunInTime(queue)'
      BY <1>00, <2>1, <2>2, <2>3, <2>4 DEF TimesOK, BegunInTime, IsQueue
    <2>6. ASSUME NEW k \in DOMAIN snapshot
          PROVE  /\ BegunInTime(snapshot[k].queue)'
                 /\ SameTimes(queue, snapshot[k].queue)'
                 /\ \A j \in DOMAIN snapshot :
                       SameTimes(snapshot[j].queue, snapshot[k].queue)'
      <3>1. BegunInTime(snapshot[k].queue)'
        BY <1>00, <2>2, <2>3 DEF TimesOK, BegunInTime, IsQueue
      <3>2. SameTimes(queue, snapshot[k].queue)'
        BY <2>1, <2>2 DEF TimesOK, SameTimes
      <3>3. \A j \in DOMAIN snapshot :
               SameTimes(snapshot[j].queue, snapshot[k].queue)'
        BY <2>2 DEF TimesOK, SameTimes
      <3> QED
        BY <3>1, <3>2, <3>3
    <2> QED
      BY <1>2, <1>5, <2>2, <2>5, <2>6 DEF TimesOK
  <1>6. ASSUME ~CronStart, NEW k \in Collectors, CollectorRead(k)
        PROVE  TimesOK' /\ FreshIds'
    <2>1. /\ DOMAIN snapshot' = DOMAIN snapshot \cup {k}
          /\ snapshot'[k].queue = queue
          /\ \A j \in DOMAIN snapshot : snapshot'[j] = snapshot[j]
          /\ UNCHANGED <<queue, cronTweets, worker, now>>
      BY <1>6 DEF CollectorRead
    <2>2. \A p : Begun(p)' <=> Begun(p)
      BY <2>1 DEF Begun
    <2>3. BegunInTime(queue)'
      BY <2>1, <2>2 DEF TimesOK, BegunInTime
    <2>4. \A j \in DOMAIN snapshot' : snapshot'[j].queue =
             IF j = k THEN queue ELSE snapshot[j].queue
      BY <2>1, <1>6 DEF CollectorRead
    <2>5. ASSUME NEW j \in DOMAIN snapshot'
          PROVE  /\ BegunInTime(snapshot[j].queue)'
                 /\ SameTimes(queue, snapshot[j].queue)'
                 /\ \A i \in DOMAIN snapshot' :
                       SameTimes(snapshot[i].queue, snapshot[j].queue)'
      <3>1. BegunInTime(snapshot[j].queue)'
        BY <2>1, <2>2, <2>4 DEF TimesOK, BegunInTime
      <3>2. SameTimes(queue, snapshot[j].queue)'
        BY <2>1, <2>4 DEF TimesOK, SameTimes
      <3>3. \A i \in DOMAIN snapshot' :
               SameTimes(snapshot[i].queue, snapshot[j].queue)'
        BY <2>1, <2>4 DEF TimesOK, SameTimes
      <3> QED
        BY <3>1, <3>2, <3>3
    <2> QED
      BY <1>2, <1>6, <2>3, <2>5 DEF TimesOK
  <1>7. ASSUME ~CronStart, UNCHANGED snapshot,
               DOMAIN queue' = DOMAIN queue,
               \A p \in DOMAIN queue : queue'[p].at = queue[p].at
        PROVE  TimesOK' /\ FreshIds'
    BY <1>2, <1>7, TimesKept
  <1>8. \/ UNCHANGED snapshot
        \/ \E k \in Collectors : CollectorRead(k) \/ CollectorWrite(k)
    BY ZenonT(60) DEF Next, CronStep, TurnStep, CronStart, CronDies, BotDies, SkipToday,
           UnskipToday, ReleaseHeld, Tick, vars, Enqueue, Retry, Attempt, Mark,
           MarkPublishedThrows, PublishNow, CancelNext, CancelStart, TurnFails
  <1>9. CASE \/ \E c \in Contents, t \in Times, x \in AllPrefixes :
                  Enqueue(c, t, x)
             \/ \E k \in Collectors : CollectorWrite(k)
    <2>1. ASSUME NEW k \in Collectors, CollectorWrite(k)
          PROVE  TimesOK' /\ FreshIds'
      BY <2>1, <1>1, <1>4
    <2> QED
      BY <1>1, <1>5, <1>9, <2>1
  <1>10. CASE /\ DOMAIN queue' = DOMAIN queue
              /\ \A p \in DOMAIN queue : queue'[p].at = queue[p].at
    BY <1>1, <1>6, <1>7, <1>8, <1>9, <1>10
  <1> QED
    BY <1>9, <1>10, SameTimesNext
-----------------------------------------------------------------------------
(* Nothing settled is revived, except by a stale write.                     *)

LEMMA MarkAsSettles ==
    ASSUME TypeOK, NEW p \in Ids,
           NEW status \in {"published", "failed_terminal"},
           NEW error \in Errors, MarkAs(p, status, error)
    PROVE  StaysSettled /\ (p \in DOMAIN queue => p \in SettledIn(queue)')
  <1>1. CASE p \notin DOMAIN queue
    BY <1>1 DEF MarkAs, StaysSettled, SettledIn
  <1>2. CASE p \in DOMAIN queue
    <2>1. queue[p] \in Item /\ status \in Settled
      BY <1>2 DEF TypeOK, IsState, IsQueue, Settled
    <2>2. With(queue[p], status, error).status \in Settled
      BY <2>1, WithFacts
    <2>3. queue' = [queue EXCEPT ![p] = With(queue[p], status, error)]
      BY <1>2 DEF MarkAs
    <2> QED
      BY <1>2, <2>2, <2>3 DEF StaysSettled, SettledIn, TypeOK, IsState, IsQueue
  <1> QED
    BY <1>1, <1>2

LEMMA SettledNext ==
    ASSUME TypeOK, CopiesOK, [Next]_vars
    PROVE  StaysSettled \/ \E k \in Collectors : CollectorWrite(k)
  <1>1. \A p \in DOMAIN queue : queue[p] \in Item
    BY DEF TypeOK, IsState, IsQueue
  <1>2. Pending \cap Settled = {}
    BY DEF Pending, Settled
  <1>3. ASSUME UNCHANGED queue PROVE StaysSettled
    BY <1>3 DEF StaysSettled, SettledIn
  <1>4. CASE CronStart \/ SkipToday \/ ReleaseHeld
    <2>1. /\ DOMAIN queue' = DOMAIN queue
          /\ \A p \in DOMAIN queue :
                queue'[p] # queue[p] => queue[p].status \in Pending
      BY <1>4 DEF CronStart, SkipToday, ReleaseHeld, Stale, Scheduled, Pending
    <2> QED
      BY <1>2, <2>1 DEF StaysSettled, SettledIn
  <1>5. ASSUME NEW w \in Workers, NEW p \in Ids, Mark(w, p)
        PROVE  StaysSettled
    BY <1>5, MarkAsSettles DEF Mark, MarkPublished, MarkFailed, Errors
  <1>6. ASSUME NEW h \in Handlers, NEW p \in Ids, CancelNext(h, p)
        PROVE  StaysSettled
    BY <1>6, MarkAsSettles DEF CancelNext, MarkFailed, Errors
  <1>7. ASSUME NEW c \in Contents, NEW t \in Times, NEW x \in AllPrefixes,
               Enqueue(c, t, x)
        PROVE  StaysSettled
    <2>1. nextId \notin DOMAIN queue
      BY DEF CopiesOK, CopyOK, TypeOK
    <2> QED
      BY <1>7, <2>1 DEF Enqueue, StaysSettled, SettledIn
  <1>8. CASE CronDies \/ BotDies \/ UnskipToday \/ Tick \/ UNCHANGED vars
    BY <1>3, <1>8 DEF CronDies, BotDies, UnskipToday, Tick, store, vars
  <1>9. ASSUME NEW w \in Workers,
               \/ MarkPublishedThrows(w)
               \/ \E p \in Ids : Attempt(w, p) \/ Retry(w, p)
        PROVE  StaysSettled
    BY <1>3, <1>9 DEF MarkPublishedThrows, Attempt, Retry, store
  <1>10. ASSUME NEW h \in Handlers,
                \/ \E p \in Ids : PublishNow(h, p)
                \/ \E S \in SUBSET Ids : CancelStart(h, S)
                \/ TurnFails(h)
         PROVE  StaysSettled
    BY <1>3, <1>10 DEF PublishNow, CancelStart, TurnFails, store
  <1>11. ASSUME NEW k \in Collectors, CollectorRead(k)
         PROVE  StaysSettled
    BY <1>3, <1>11 DEF CollectorRead, store
  <1> QED
    BY <1>4, <1>5, <1>6, <1>7, <1>8, <1>9, <1>10, <1>11
    DEF Next, CronStep, TurnStep, Workers
-----------------------------------------------------------------------------
(* The tweets of the cron are accounted for.                                *)

\* The part of Accounted that is about one id.
AccountedFor(p) ==
    /\ \/ cronTweets[p] <= lost[p]
       \/ cronTweets[p] <= 1 + lost[p] /\ p \in SettledIn(queue)
       \/ cronTweets[p] <= 1 + lost[p] /\ InFlight(Cron, p)
    /\ p \in worker[Cron].todo /\ ~InFlight(Cron, p)
          => cronTweets[p] <= lost[p]

\* A step that is none of the cron's, and no stale write.
LEMMA AccountedKept ==
    ASSUME TypeOK, StaysSettled, NEW r \in Ids, AccountedFor(r),
           UNCHANGED <<cronTweets, lost>>, worker'[Cron] = worker[Cron]
    PROVE  AccountedFor(r)'
  <1>1. r \in SettledIn(queue) => r \in SettledIn(queue)'
    BY DEF StaysSettled, SettledIn
  <1>2. InFlight(Cron, r)' <=> InFlight(Cron, r)
    BY DEF InFlight, IsFirst
  <1> QED
    BY <1>1, <1>2 DEF AccountedFor

LEMMA LoseNone == ASSUME TypeOK, Lose({}) PROVE UNCHANGED lost
  BY DEF Lose, TypeOK

LEMMA AttemptAccounted ==
    ASSUME TypeOK, NEW w \in Workers, NEW p \in Ids, Attempt(w, p), StaysSettled,
           NEW r \in Ids, AccountedFor(r)
    PROVE  AccountedFor(r)'
  <1>1. UNCHANGED <<lost, queue>>
    BY DEF Attempt, store
  <1>2. CASE w # Cron
    <2>1. UNCHANGED cronTweets
      BY <1>2 DEF Attempt, Tweet
    <2>2. worker'[Cron] = worker[Cron]
      BY <1>2, ConstantsAssumption
      DEF ConstantsAssumption, Attempt, ToMark, TypeOK, Workers
    <2> QED
      BY <1>1, <2>1, <2>2, AccountedKept
  <1>3. CASE w = Cron
    <2>1. /\ worker[Cron] \in WorkerState /\ worker[Cron].pc = "attempt"
          /\ p \in worker[Cron].todo /\ IsFirst(p, worker[Cron].todo)
      BY <1>3 DEF Attempt, TypeOK, Workers, IsFirst
    <2>2. /\ worker'[Cron].pc = "mark"
          /\ worker'[Cron].todo = worker[Cron].todo
      BY <1>3, <2>1 DEF Attempt, ToMark, TypeOK, WorkerState, Workers
    <2>3. /\ cronTweets[r] \in Nat /\ lost[r] \in Nat
          /\ ~InFlight(Cron, r)
          /\ \/ cronTweets[r] <= lost[r]
             \/ cronTweets[r] <= 1 + lost[r] /\ r \in SettledIn(queue)
          /\ r \in worker[Cron].todo => cronTweets[r] <= lost[r]
      <3>1. ~InFlight(Cron, r)
        BY <2>1 DEF InFlight
      <3>2. cronTweets[r] \in Nat /\ lost[r] \in Nat
        BY DEF TypeOK
      <3>3. \/ cronTweets[r] <= lost[r]
            \/ cronTweets[r] <= 1 + lost[r] /\ r \in SettledIn(queue)
        BY <3>1 DEF AccountedFor
      <3>4. r \in worker[Cron].todo => cronTweets[r] <= lost[r]
        BY <3>1 DEF AccountedFor
      <3> QED
        BY <3>1, <3>2, <3>3, <3>4
    <2>4. r \in SettledIn(queue)' <=> r \in SettledIn(queue)
      BY <1>1 DEF SettledIn
    <2>5. CASE r # p \/ UNCHANGED cronTweets
      <3>1. cronTweets'[r] = cronTweets[r]
        BY <1>3, <2>5 DEF Attempt, Tweet, TypeOK
      <3> QED
        BY <1>1, <2>2, <2>3, <2>4, <3>1 DEF AccountedFor
    <2>6. CASE r = p /\ ~UNCHANGED cronTweets
      <3>1. cronTweets'[p] = cronTweets[p] + 1
        BY <1>3, <2>6 DEF Attempt, Tweet, TypeOK
      <3>2. worker'[Cron].tweeted = TRUE
        BY <1>3, <2>1, <2>6 DEF Attempt, ToMark, TypeOK, WorkerState, Workers
      <3>3. InFlight(Cron, p)'
        BY <2>1, <2>2, <3>2 DEF InFlight, IsFirst
      <3> QED
        BY <1>1, <2>1, <2>3, <2>6, <3>1, <3>3 DEF AccountedFor
    <2> QED
      BY <2>5, <2>6
  <1> QED
    BY <1>2, <1>3

LEMMA RetryAccounted ==
    ASSUME TypeOK, NEW w \in Workers, NEW p \in Ids, Retry(w, p), StaysSettled,
           NEW r \in Ids, AccountedFor(r)
    PROVE  AccountedFor(r)'
  <1>0. Cron \in Workers /\ worker[Cron] \in WorkerState
    BY DEF Workers, TypeOK
  <1>1. /\ worker'[Cron].pc = worker[Cron].pc
        /\ worker'[Cron].todo = worker[Cron].todo
        /\ worker'[Cron].tweeted = worker[Cron].tweeted
        /\ w # Cron => worker'[Cron] = worker[Cron]
    BY <1>0, RetryFacts DEF TypeOK
  <1>2. CASE UNCHANGED <<cronTweets, lost>>
    <2>1. InFlight(Cron, r)' <=> InFlight(Cron, r)
      BY <1>1 DEF InFlight, IsFirst
    <2>2. r \in SettledIn(queue) => r \in SettledIn(queue)'
      BY DEF StaysSettled, SettledIn
    <2> QED
      BY <1>1, <1>2, <2>1, <2>2 DEF AccountedFor
  <1>3. CASE w = Cron /\ Tweet(w, p) /\ lost' = [lost EXCEPT ![p] = @ + 1]
    <2>1. /\ cronTweets[r] \in Nat /\ lost[r] \in Nat
          /\ cronTweets'[r] = IF r = p THEN cronTweets[r] + 1 ELSE cronTweets[r]
          /\ lost'[r] = IF r = p THEN lost[r] + 1 ELSE lost[r]
      BY <1>3 DEF Tweet, TypeOK
    <2>2. InFlight(Cron, r)' <=> InFlight(Cron, r)
      BY <1>1 DEF InFlight, IsFirst
    <2>3. r \in SettledIn(queue) => r \in SettledIn(queue)'
      BY DEF StaysSettled, SettledIn
    <2> QED
      BY <1>1, <2>1, <2>2, <2>3 DEF AccountedFor
  <1>4. UNCHANGED <<cronTweets, lost>> \/ (w = Cron /\ Tweet(w, p)
                                         /\ lost' = [lost EXCEPT ![p] = @ + 1])
    BY DEF Retry, Tweet, tweets
  <1> QED
    BY <1>2, <1>3, <1>4

LEMMA MarkAccounted ==
    ASSUME TypeOK, NEW w \in Workers, NEW p \in Ids, Mark(w, p),
           NEW r \in Ids, AccountedFor(r)
    PROVE  AccountedFor(r)'
  <1>1. UNCHANGED cronTweets
    BY DEF Mark
  <1>2. StaysSettled /\ (p \in DOMAIN queue => p \in SettledIn(queue)')
    BY MarkAsSettles DEF Mark, MarkPublished, MarkFailed, Errors
  <1>3. r \in SettledIn(queue) => r \in SettledIn(queue)'
    BY <1>2 DEF StaysSettled, SettledIn
  <1>4. CASE w # Cron
    <2>1. UNCHANGED lost
      BY <1>4, LoseNone DEF Mark
    <2>2. worker'[Cron] = worker[Cron]
      BY <1>4 DEF Mark, Advance, TypeOK, Workers
    <2> QED
      BY <1>1, <1>2, <2>1, <2>2, AccountedKept
  <1>5. CASE w = Cron
    <2>1. /\ worker[Cron] \in WorkerState
          /\ IsFirst(p, worker[Cron].todo)
      BY <1>5 DEF Mark, TypeOK, Workers
    <2>2. /\ worker'[Cron].pc # "mark"
          /\ worker'[Cron].todo \subseteq worker[Cron].todo \ {p}
      BY <1>5 DEF Mark, Advance, TypeOK, Workers, Busy, Idle
    <2>3. ~InFlight(Cron, r)'
      BY <2>2 DEF InFlight
    <2>4. /\ cronTweets[r] \in Nat /\ lost[r] \in Nat
          /\ lost'[r] = IF /\ r = p
                           /\ InFlight(Cron, p)
                           /\ p \notin DOMAIN queue
                           /\ cronTweets[r] > lost[r]
                        THEN lost[r] + 1 ELSE lost[r]
      BY <1>5 DEF Mark, Lose, TypeOK
    <2>5. CASE r = p
      BY <1>1, <1>2, <1>3, <2>2, <2>3, <2>4, <2>5 DEF AccountedFor
    <2>6. CASE r # p
      <3>1. ~InFlight(Cron, r)
        BY <2>1, <2>6, FirstIsUnique DEF InFlight, WorkerState
      <3> QED
        BY <1>1, <1>3, <2>2, <2>3, <2>4, <2>6, <3>1 DEF AccountedFor
    <2> QED
      BY <2>5, <2>6
  <1> QED
    BY <1>4, <1>5

LEMMA AccountedNext ==
    ASSUME TypeOK, TypeOK', CopiesOK, Accounted, [Next]_vars
    PROVE  Accounted'
  <1> USE DEF store, tweets, bounds
  <1> SUFFICES ASSUME NEW r \in Ids, AccountedFor(r)
               PROVE  AccountedFor(r)'
    BY DEF Accounted, AccountedFor
  <1>0. /\ Cron \in Workers
        /\ \A h \in Handlers : h # Cron /\ h \in Workers
    BY ConstantsAssumption DEF ConstantsAssumption, Workers
  <1>1. /\ cronTweets[r] \in Nat /\ lost[r] \in Nat
        /\ worker[Cron] \in WorkerState
    BY <1>0 DEF TypeOK
  <1>2. ASSUME NEW k \in Collectors, CollectorWrite(k)
        PROVE  AccountedFor(r)'
    <2>1. /\ UNCHANGED <<worker, cronTweets>>
          /\ queue' = snapshot[k].queue
          /\ lost'[r] = IF /\ r \in SettledIn(queue) \ SettledIn(queue')
                           /\ cronTweets[r] > lost[r]
                        THEN lost[r] + 1 ELSE lost[r]
      BY <1>2 DEF CollectorWrite, Lose
    <2>2. InFlight(Cron, r)' <=> InFlight(Cron, r)
      BY <2>1 DEF InFlight, IsFirst
    <2>3. SettledIn(queue)' = SettledIn(queue')
      BY DEF SettledIn
    <2> QED
      BY <1>1, <2>1, <2>2, <2>3 DEF AccountedFor
  <1>3. CASE \A k \in Collectors : ~CollectorWrite(k)
    <2>0. StaysSettled
      BY <1>3, SettledNext
    <2>1. r \in SettledIn(queue) => r \in SettledIn(queue)'
      BY <2>0 DEF StaysSettled, SettledIn
    <2>2. ASSUME UNCHANGED <<cronTweets, lost>>, worker'[Cron] = worker[Cron]
          PROVE  AccountedFor(r)'
      BY <2>0, <2>2, AccountedKept
    <2>3. CASE CronStart
      <3>1. worker[Cron].pc = "idle" /\ UNCHANGED <<cronTweets, lost>>
        BY <2>3 DEF CronStart
      <3>2. worker'[Cron].pc # "mark" /\ worker'[Cron].todo \subseteq Due
        BY <1>0, <2>3 DEF CronStart, TypeOK, Busy, Idle
      <3>3. ~InFlight(Cron, r) /\ ~InFlight(Cron, r)'
        BY <3>1, <3>2 DEF InFlight
      <3>4. r \in Due => r \notin SettledIn(queue)
        BY DEF Due, Scheduled, SettledIn, Settled
      <3> QED
        BY <1>1, <2>1, <3>1, <3>2, <3>3, <3>4 DEF AccountedFor
    <2>4. ASSUME NEW w \in Workers, NEW p \in Ids, Attempt(w, p)
          PROVE  AccountedFor(r)'
      BY <2>0, <2>4, AttemptAccounted
    <2>5. ASSUME NEW w \in Workers, NEW p \in Ids, Mark(w, p)
          PROVE  AccountedFor(r)'
      BY <2>5, MarkAccounted
    <2>6. CASE CronDies
      <3>1. /\ worker'[Cron].pc = "idle" /\ worker'[Cron].todo = {}
            /\ UNCHANGED cronTweets
            /\ lost'[r] = IF InFlight(Cron, r) /\ cronTweets[r] > lost[r]
                          THEN lost[r] + 1 ELSE lost[r]
        BY <1>0, <2>6 DEF CronDies, Lose, TypeOK, Busy, Idle
      <3> QED
        BY <1>1, <2>1, <3>1 DEF AccountedFor
    <2>7. ASSUME NEW w \in Workers, MarkPublishedThrows(w)
          PROVE  AccountedFor(r)'
      <3>1. UNCHANGED <<cronTweets, lost>>
        BY <2>7 DEF MarkPublishedThrows
      <3>2. /\ worker'[Cron].pc = worker[Cron].pc
            /\ worker'[Cron].todo = worker[Cron].todo
            /\ worker'[Cron].tweeted = worker[Cron].tweeted
        BY <1>0, <2>7 DEF MarkPublishedThrows, TypeOK, WorkerState
      <3>3. InFlight(Cron, r)' <=> InFlight(Cron, r)
        BY <3>2 DEF InFlight, IsFirst
      <3> QED
        BY <2>1, <3>1, <3>2, <3>3 DEF AccountedFor
    <2>8. ASSUME NEW h \in Handlers,
                 \/ \E p \in Ids : PublishNow(h, p) \/ CancelNext(h, p)
                 \/ \E S \in SUBSET Ids : CancelStart(h, S)
                 \/ TurnFails(h)
          PROVE  AccountedFor(r)'
      <3>1. worker'[Cron] = worker[Cron]
        BY <1>0, <2>8 DEF PublishNow, CancelNext, CancelStart, TurnFails, Begin,
                          Advance, TypeOK
      <3> QED
        BY <2>2, <2>8, <3>1 DEF PublishNow, CancelNext, CancelStart, TurnFails
    <2>9. CASE BotDies
      BY <1>0, <2>2, <2>9 DEF BotDies
    <2>10. CASE \/ SkipToday
                \/ UnskipToday
                \/ ReleaseHeld
                \/ Tick
                \/ UNCHANGED vars
      BY <2>2, <2>10 DEF SkipToday, UnskipToday, ReleaseHeld, Tick, vars
    <2>11. ASSUME NEW c \in Contents, NEW t \in Times, NEW x \in AllPrefixes,
                  Enqueue(c, t, x)
           PROVE  AccountedFor(r)'
      BY <2>2, <2>11 DEF Enqueue
    <2>12. ASSUME NEW k \in Collectors, CollectorRead(k)
           PROVE  AccountedFor(r)'
      BY <2>2, <2>12 DEF CollectorRead
    <2>13. ASSUME NEW w \in Workers, NEW p \in Ids, Retry(w, p)
           PROVE  AccountedFor(r)'
      BY <2>0, <2>13, RetryAccounted
    <2> QED
      BY <1>3, <2>3, <2>4, <2>5, <2>6, <2>7, <2>8, <2>9, <2>10, <2>11, <2>12,
         <2>13
      DEF Next, CronStep, TurnStep, Workers
  <1> QED
    BY <1>2, <1>3
-----------------------------------------------------------------------------
(* The theorems.                                                            *)

LEMMA InvInit == Init => Inv
  <1> SUFFICES ASSUME Init PROVE Inv
    OBVIOUS
  <1>1. TypeOK /\ CopiesOK
    BY TypeInit, CopiesInit
  <1>2. \A p \in Ids : cronTweets[p] = 0 /\ lost[p] = 0 /\ ~Begun(p)
    BY DEF Init, Begun, Workers, Idle, Busy
  <1>3. TimesOK /\ FreshIds
    BY <1>1, <1>2 DEF Init, TimesOK, FreshIds, BegunInTime, TypeOK, IsState, IsQueue
  <1>4. MarksTweeted
    BY DEF Init, MarksTweeted, Idle, Busy
  <1>5. Accounted
    BY <1>2 DEF Accounted
  <1> QED
    BY <1>1, <1>3, <1>4, <1>5 DEF Inv

LEMMA InvNext == Inv /\ [Next]_vars => Inv'
  <1> SUFFICES ASSUME Inv, [Next]_vars PROVE Inv'
    OBVIOUS
  <1>1. TypeOK'
    BY TypeNext DEF Inv
  <1>2. Grow
    BY GrowNext DEF Inv
  <1>3. CopiesOK'
    BY <1>1, <1>2, CopiesNext DEF Inv
  <1>4. TimesOK' /\ FreshIds'
    BY <1>1, <1>2, TimesNext DEF Inv
  <1>5. MarksTweeted'
    BY <1>1, <1>2, MarksNext DEF Inv
  <1>6. Accounted'
    BY <1>1, AccountedNext DEF Inv
  <1> QED
    BY <1>1, <1>3, <1>4, <1>5, <1>6 DEF Inv

\* Inv is inductive: it holds in every reachable state, for any number of
\* handlers, collectors, contents and items.
THEOREM Invariance == Spec => []Inv
  <1> QED
    BY InvInit, InvNext, PTL DEF Spec

\* Two items that wait to be published are never duplicates of each other,
\* whatever the bot, the cron, crashes and stale writes of state.json do:
\* the check in enqueuePublish is enough.
THEOREM NoPendingDuplicates == Spec => []PendingDistinct
  <1>1. Inv => PendingDistinct
    BY DEF Inv, CopiesOK, CopyOK, PendingDistinct
  <1> QED
    BY <1>1, Invariance, PTL

\* What state.json reports as published was tweeted: of an item, and of a
\* posting session through one of its items.
THEOREM NoPhantomPublication ==
    Spec => [](PublishedWasTweeted /\ SessionPublishedWasTweeted)
  <1>1. Inv => PublishedWasTweeted /\ SessionPublishedWasTweeted
    BY DEF Inv, CopiesOK, CopyOK, PublishedWasTweeted, SessionPublishedWasTweeted
  <1> QED
    BY <1>1, Invariance, PTL

\* A session does not stay "scheduled" when an item of it has been published
\* or has failed: items and sessions are settled in the same locked step.
THEOREM SessionsSettleWithItems == Spec => []SettledItemSettlesSession
  <1>1. Inv => SettledItemSettlesSession
    BY DEF Inv, CopiesOK, CopyOK, SettledItemSettlesSession
  <1> QED
    BY <1>1, Invariance, PTL

\* The cron tweets an item once, and once more for every record of a tweet
\* that a crash, a missing item or a stale write destroyed.
THEOREM CronTweetsOnce == Spec => []CronTweetsAccounted
  <1>1. Inv => CronTweetsAccounted
    BY DEF Inv, TypeOK, Accounted, CronTweetsAccounted
  <1> QED
    BY <1>1, Invariance, PTL

\* The cron tweets no item before its time.
THEOREM CronIsNeverEarly == Spec => []NeverEarly
  <1>1. Inv => NeverEarly
    BY DEF Inv, TypeOK, IsState, IsQueue, TimesOK, BegunInTime, Begun, NeverEarly
  <1> QED
    BY <1>1, Invariance, PTL

\* A settled item stays in the queue and settled in every step but the write
\* of a collector that read state.json before.
THEOREM OnlyCollectorsRevive == Spec => OnlyStaleWritesRevive
  <1>1. Inv /\ [Next]_vars
          => [StaysSettled \/ \E k \in Collectors : CollectorWrite(k)]_vars
    BY SettledNext DEF Inv
  <1> QED
    BY <1>1, Invariance, PTL DEF Spec, OnlyStaleWritesRevive
-----------------------------------------------------------------------------
(* A session that waits keeps an item that waits.                           *)

\* The session of c waits before and after the step only with an item of c.
KeepsWaiting(c) ==
    session[c] = "scheduled" /\ HasPendingItem(c) /\ session'[c] = "scheduled"
        => HasPendingItem(c)'

\* A locked step that settles items takes their sessions with it.
LEMMA SettlingPropagates ==
    ASSUME TypeOK, NEW S \in SUBSET DOMAIN queue, NEW c \in Contents,
           NEW status \in {"published", "failed_terminal"},
           session' = Propagate({queue[p].content : p \in S}, status),
           DOMAIN queue' = DOMAIN queue,
           \A p \in DOMAIN queue \ S : queue'[p] = queue[p]
    PROVE  KeepsWaiting(c)
  <1> SUFFICES ASSUME session[c] = "scheduled", session'[c] = "scheduled",
                      NEW p \in PendingIn(queue), queue[p].content = c
               PROVE  HasPendingItem(c)'
    BY DEF KeepsWaiting, HasPendingItem
  <1>1. p \notin S
    BY DEF Propagate
  <1>2. p \in PendingIn(queue') /\ queue'[p].content = c
    BY <1>1 DEF PendingIn
  <1> QED
    BY <1>2 DEF HasPendingItem

LEMMA MarkAsPropagates ==
    ASSUME TypeOK, NEW p \in Ids, NEW c \in Contents,
           NEW status \in {"published", "failed_terminal"}, NEW error,
           MarkAs(p, status, error)
    PROVE  KeepsWaiting(c)
  <1>1. CASE p \notin DOMAIN queue
    BY <1>1 DEF MarkAs, KeepsWaiting, HasPendingItem, PendingIn
  <1>2. CASE p \in DOMAIN queue
    <2>1. {queue[r].content : r \in {p}} = {queue[p].content}
      OBVIOUS
    <2>2. session' = Propagate({queue[r].content : r \in {p}}, status)
      BY <1>2, <2>1 DEF MarkAs
    <2>3. DOMAIN queue' = DOMAIN queue /\ \A r \in DOMAIN queue \ {p} : queue'[r] = queue[r]
      BY <1>2 DEF MarkAs
    <2> QED
      BY <1>2, <2>2, <2>3, SettlingPropagates
  <1> QED
    BY <1>1, <1>2

LEMMA WaitingNext ==
    ASSUME TypeOK, CopiesOK, [Next]_vars, NEW c \in Contents
    PROVE  \/ SkipToday
           \/ \E k \in Collectors : CollectorWrite(k)
           \/ KeepsWaiting(c)
  <1>1. ASSUME UNCHANGED queue PROVE KeepsWaiting(c)
    BY <1>1 DEF KeepsWaiting, HasPendingItem, PendingIn
  <1>2. CASE CronStart
    <2>1. Stale \in SUBSET DOMAIN queue
      BY DEF Stale, Scheduled
    <2>2. /\ DOMAIN queue' = DOMAIN queue
          /\ \A p \in DOMAIN queue \ Stale : queue'[p] = queue[p]
          /\ session' = Propagate({queue[p].content : p \in Stale}, "failed_terminal")
      BY <1>2 DEF CronStart
    <2> QED
      BY <2>1, <2>2, SettlingPropagates
  <1>3. ASSUME NEW w \in Workers, NEW p \in Ids, Mark(w, p) PROVE KeepsWaiting(c)
    BY <1>3, MarkAsPropagates DEF Mark, MarkPublished, MarkFailed
  <1>4. ASSUME NEW h \in Handlers, NEW p \in Ids, CancelNext(h, p) PROVE KeepsWaiting(c)
    BY <1>4, MarkAsPropagates DEF CancelNext, MarkFailed
  <1>5. ASSUME NEW d \in Contents, NEW t \in Times, NEW x \in AllPrefixes, Enqueue(d, t, x)
        PROVE  KeepsWaiting(c)
    <2>1. nextId \notin DOMAIN queue
      BY DEF CopiesOK, CopyOK, TypeOK
    <2>2. \A p \in DOMAIN queue : p \in DOMAIN queue' /\ queue'[p] = queue[p]
      BY <1>5, <2>1 DEF Enqueue
    <2> QED
      BY <2>2 DEF KeepsWaiting, HasPendingItem, PendingIn
  <1>6. CASE ReleaseHeld
    <2>1. \A p \in DOMAIN queue :
            /\ p \in DOMAIN queue'
            /\ queue'[p].content = queue[p].content
            /\ queue[p].status \in Pending => queue'[p].status \in Pending
      <3> SUFFICES ASSUME NEW p \in DOMAIN queue
                   PROVE  /\ p \in DOMAIN queue'
                          /\ queue'[p].content = queue[p].content
                          /\ queue[p].status \in Pending
                               => queue'[p].status \in Pending
        OBVIOUS
      <3>1. queue[p] \in Item
        BY DEF TypeOK, IsState, IsQueue
      <3>2. "scheduled" \in Pending \cup Settled /\ "scheduled" \in Pending /\ "" \in Errors
        BY DEF Pending, Errors
      <3>3. /\ With(queue[p], "scheduled", "").content = queue[p].content
            /\ With(queue[p], "scheduled", "").status = "scheduled"
        BY <3>1, <3>2, WithFacts
      <3>4. /\ p \in DOMAIN queue'
            /\ queue'[p] \in {queue[p], With(queue[p], "scheduled", "")}
        BY <1>6 DEF ReleaseHeld
      <3> QED
        BY <3>2, <3>3, <3>4
    <2> QED
      BY <2>1 DEF KeepsWaiting, HasPendingItem, PendingIn
  <1>7. CASE CronDies \/ BotDies \/ UnskipToday \/ Tick \/ UNCHANGED vars
    BY <1>1, <1>7 DEF CronDies, BotDies, UnskipToday, Tick, store, vars
  <1>8. ASSUME NEW w \in Workers,
               \/ MarkPublishedThrows(w)
               \/ \E p \in Ids : Attempt(w, p) \/ Retry(w, p)
        PROVE  KeepsWaiting(c)
    BY <1>1, <1>8 DEF MarkPublishedThrows, Attempt, Retry, store
  <1>9. ASSUME NEW h \in Handlers,
               \/ \E p \in Ids : PublishNow(h, p)
               \/ \E S \in SUBSET Ids : CancelStart(h, S)
               \/ TurnFails(h)
        PROVE  KeepsWaiting(c)
    BY <1>1, <1>9 DEF PublishNow, CancelStart, TurnFails, store
  <1>10. ASSUME NEW k \in Collectors, CollectorRead(k) PROVE KeepsWaiting(c)
    BY <1>1, <1>10 DEF CollectorRead, store
  <1> QED
    BY <1>2, <1>3, <1>4, <1>5, <1>6, <1>7, <1>8, <1>9, <1>10
    DEF Next, CronStep, TurnStep, Workers

\* A session is left without a waiting item only by skipToday or by the write of
\* a collector that read state.json before.
THEOREM OnlySkipStrandsSessionsHolds == Spec => OnlySkipStrandsSessions
  <1>1. Inv /\ [Next]_vars
          => [\/ SkipToday
              \/ \E k \in Collectors : CollectorWrite(k)
              \/ \A c \in Contents :
                    session[c] = "scheduled" /\ HasPendingItem(c)
                    /\ session'[c] = "scheduled" => HasPendingItem(c)']_vars
    BY WaitingNext DEF Inv, KeepsWaiting
  <1> QED
    BY <1>1, Invariance, PTL DEF Spec, OnlySkipStrandsSessions
=============================================================================
