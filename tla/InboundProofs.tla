--------------------------- MODULE InboundProofs ---------------------------
(***************************************************************************)
(* For any number of events, page size, retries, deaths and writes of the  *)
(* bot: the cursor of a collector passes no event without a session but    *)
(* those a full page hid or the bot's write took away, and a session is    *)
(* given up after exactly the number of tries.                             *)
(*                                                                         *)
(* Every copy of the sessions keeps what the copy of the cursor beside it  *)
(* has passed: the file, the bot's, the poll's.  The cursor the poll will  *)
(* store is kept by the file once the sessions are saved (SavedInv); until *)
(* then the poll's copy keeps it with the events yet to be visited         *)
(* (WorkInv).  A thread shown to the customer is remembered by the copy    *)
(* that counts, the poll's while it works on one (ShownInv).               *)
(***************************************************************************)
EXTENDS Inbound, TLAPS

Lost == overflow \cup undone
Kept(ses, n) == \A e \in Events : e <= n => Stored(ses, e) \/ e \in Lost

FileInv == Kept(sessions, cursor.since)
BotInv == bot # <<>> => Kept(bot.sessions, bot.cursor.since)
BaseInv == pc = "fetching" => Kept(sessions, base.since)
CopyInv == Writing => Kept(work, workCursor.since)
WorkInv ==
    pc = "working" =>
        \A e \in Events :
            e <= high \/ (\E f \in batch : e <= f) => Stored(work, e) \/ e \in Lost \/ e \in batch
SavedInv == pc = "saved" => Kept(sessions, high)

KeptInv == FileInv /\ BotInv /\ BaseInv /\ CopyInv /\ WorkInv /\ SavedInv

-----------------------------------------------------------------------------
(* Types, and the count of tries in every copy of the sessions.             *)

Good ==
    {s \in Sessions :
        /\ s.status = "operator_escalated" => s.fails = MaxAttempts
        /\ s.status = "discord_pending" => s.fails \in 1 .. MaxAttempts - 1
        /\ s.status = "none" => s.fails = 0}
Copies == [Events -> Good]
\* The poll's copy may hold what the file's schema refuses.
Drafts == [Events -> Good \cup {Deferred}]

Typed ==
    /\ TypeOK
    /\ sessions \in Copies /\ work \in Drafts
    /\ bot # <<>> => bot.sessions \in Copies

LEMMA Numbers ==
    ASSUME InboundAssumption
    PROVE  /\ MaxEvents \in Nat /\ PageSize \in Nat /\ MaxAttempts \in Nat /\ MaxAttempts > 0
           /\ SuspendAt \in Nat /\ SuspendAt > 0 /\ Cooldown \in Nat
           /\ MaxCrashes \in Nat /\ MaxStale \in Nat
BY DEF InboundAssumption

LEMMA CopiesAreSessions ==
    /\ Copies \subseteq [Events -> Sessions] /\ Copies \subseteq Drafts
    /\ Drafts \subseteq [Events -> Sessions \cup {Deferred}]
BY DEF Copies, Drafts, Good

LEMMA FreshTyped ==
    ASSUME InboundAssumption
    PROVE  Fresh \in Good /\ [e \in Events |-> Fresh] \in Copies /\ NoCursor \in Cursors
<1>1. Fresh \in Good
  BY Numbers DEF Fresh, Good, Sessions, Statuses
<1>2. NoCursor \in Cursors
  BY Numbers DEF NoCursor, Cursors
<1>3. QED
  BY <1>1, <1>2 DEF Copies

LEMMA AgedSession ==
    ASSUME InboundAssumption, NEW s \in Good \cup {Deferred}
    PROVE  /\ s \in Good => [s EXCEPT !.wait = Less(@)] \in Good
           /\ [s EXCEPT !.wait = Less(@)] \in Good \cup {Deferred}
           /\ [s EXCEPT !.wait = Less(@)].status = s.status
<1>1. CASE s \in Good
  <2>1. s \in Sessions
    BY <1>1 DEF Good
  <2>2. Less(s.wait) \in 0 .. Cooldown
    BY <2>1, Numbers DEF Less, Sessions
  <2>3. QED
    BY <1>1, <2>1, <2>2 DEF Sessions, Good
<1>2. CASE s = Deferred /\ s \notin Good
  <2>1. [s EXCEPT !.wait = Less(@)] = Deferred
    BY <1>2 DEF Deferred, Less
  <2>2. QED
    BY <1>2, <2>1
<1>3. QED
  BY <1>1, <1>2

LEMMA AgedTyped ==
    ASSUME InboundAssumption, NEW ses \in Drafts
    PROVE  /\ ses \in Copies => Aged(ses) \in Copies
           /\ Aged(ses) \in Drafts
           /\ \A e \in Events : Aged(ses)[e].status = ses[e].status
           /\ \A e \in Events : Stored(Aged(ses), e) <=> Stored(ses, e)
BY AgedSession DEF Aged, Copies, Drafts, Stored

LEMMA AgedCursorTyped ==
    ASSUME InboundAssumption, NEW c \in Cursors
    PROVE  AgedCursor(c) \in Cursors /\ AgedCursor(c).since = c.since
<1>1. Less(c.wait) \in 0 .. Cooldown
  BY Numbers DEF Less, Cursors
<1>2. QED
  BY <1>1 DEF AgedCursor, Cursors

LEMMA EndsTyped ==
    ASSUME InboundAssumption, Ends
    PROVE  /\ pc' \in Polls /\ base' \in Cursors /\ workCursor' \in Cursors
           /\ work' \in Drafts /\ high' \in 0 .. MaxEvents
           /\ batch' \subseteq Events
BY FreshTyped, CopiesAreSessions, Numbers DEF Ends, Polls

LEMMA InitTyped == ASSUME InboundAssumption, Init PROVE Typed
BY FreshTyped, CopiesAreSessions, Numbers DEF Init, Typed, TypeOK, Polls

LEMMA SurroundingsTyped ==
    ASSUME InboundAssumption, Typed, Arrive \/ BotReads \/ BotWrites
    PROVE  Typed'
<1> USE Numbers, CopiesAreSessions DEF Typed, TypeOK, file, poll, ghosts, bounds
<1>1. CASE Arrive
  BY <1>1 DEF Arrive
<1>2. CASE BotReads
  <2>1. bot' \in BotCopies /\ bot'.sessions \in Copies
    BY <1>2 DEF BotReads, BotCopies
  <2>2. QED
    BY <1>2, <2>1 DEF BotReads
<1>3. CASE BotWrites
  <2>1. bot \in BotCopies
    BY <1>3 DEF BotWrites
  <2>2. sessions' \in Copies /\ cursor' \in Cursors
    BY <1>3, <2>1 DEF BotWrites, BotCopies
  <2>3. surplus' \in [Events -> Int] /\ undone' \subseteq Events
    BY <1>3 DEF BotWrites, Redo, Differ
  <2>4. bot' = <<>> /\ UNCHANGED <<kind, arrived, poll, overflow, bounds>>
    BY <1>3 DEF BotWrites
  <2>5. QED
    BY <2>2, <2>3, <2>4
<1>4. QED
  BY <1>1, <1>2, <1>3

LEMMA TickTyped == ASSUME InboundAssumption, Typed, Tick PROVE Typed'
<1>1. /\ sessions' \in Copies /\ cursor' \in Cursors /\ base' \in Cursors
      /\ work' \in Drafts /\ workCursor' \in Cursors
  BY AgedTyped, AgedCursorTyped, CopiesAreSessions DEF Tick, Typed, TypeOK
<1>2. bot' \in BotCopies \cup {<<>>} /\ (bot' # <<>> => bot'.sessions \in Copies)
  <2>1. CASE bot = <<>>
    BY <2>1 DEF Tick
  <2>2. CASE bot # <<>>
    <3>1. bot.sessions \in Copies /\ bot.cursor \in Cursors
      BY <2>2 DEF Typed, TypeOK, BotCopies
    <3>2. Aged(bot.sessions) \in Copies /\ AgedCursor(bot.cursor) \in Cursors
      BY <3>1, AgedTyped, AgedCursorTyped, CopiesAreSessions
    <3>3. QED
      BY <2>2, <3>2, CopiesAreSessions DEF Tick, BotCopies
  <2>3. QED
    BY <2>1, <2>2
<1>3. UNCHANGED <<kind, arrived, pc, high, batch, ghosts, bounds>>
  BY DEF Tick
<1>4. QED
  BY <1>1, <1>2, <1>3, CopiesAreSessions DEF Typed, TypeOK, ghosts, bounds

\* The cursor a failed fetch writes: its streak is capped.
LEMMA FailedFetchTyped ==
    ASSUME InboundAssumption, base \in Cursors, FetchFails
    PROVE  cursor' \in Cursors
<1> DEFINE streak == IF base.streak < SuspendAt THEN base.streak + 1 ELSE SuspendAt
           wait == IF kind = "reply" /\ streak >= SuspendAt THEN Cooldown ELSE base.wait
<1>1. /\ base.since \in 0 .. MaxEvents /\ base.streak \in 0 .. SuspendAt
      /\ base.wait \in 0 .. Cooldown
  BY DEF Cursors
<1>2. streak \in 0 .. SuspendAt
  BY <1>1, Numbers
<1> HIDE DEF streak
<1>3. wait \in 0 .. Cooldown
  BY <1>1, Numbers
<1>4. cursor' = [since |-> base.since, streak |-> streak, wait |-> wait]
  BY DEF FetchFails, streak
<1> HIDE DEF wait
<1>5. QED
  BY <1>1, <1>2, <1>3, <1>4 DEF Cursors

LEMMA PollTyped ==
    ASSUME InboundAssumption, Typed,
           PollSuspended \/ PollStarts \/ FetchSucceeds \/ FetchFails \/ SaveSessions
           \/ SaveThrows \/ AdvanceCursor \/ PollDies
    PROVE  Typed'
<1> USE Numbers, CopiesAreSessions DEF Typed, TypeOK, file, poll, ghosts, bounds, Polls
<1>1. CASE PollSuspended
  <2>1. cursor.since \in 0 .. MaxEvents
    BY DEF Cursors
  <2>2. QED
    BY <1>1, <2>1 DEF PollSuspended, Begin
<1>2. CASE PollStarts
  BY <1>2 DEF PollStarts, Begin
<1>3. CASE FetchSucceeds
  <2>1. base.since \in 0 .. MaxEvents
    BY DEF Cursors
  <2>2. base.since + 1 .. arrived \subseteq Events
    BY <2>1 DEF Events
  <2>3. batch' \subseteq Events /\ overflow' \subseteq Events /\ high' \in 0 .. MaxEvents
    BY <1>3, <2>1, <2>2 DEF FetchSucceeds, Page
  <2>4. QED
    BY <1>3, <2>3 DEF FetchSucceeds
<1>4. CASE FetchFails
  <2>1. cursor' \in Cursors
    BY <1>4, FailedFetchTyped
  <2>2. QED
    BY <1>4, <2>1, EndsTyped DEF FetchFails
<1>5. CASE SaveSessions
  <2>1. sessions' \in Copies
    BY <1>5 DEF SaveSessions, SchemaRefuses, Copies, Drafts
  <2>2. CASE pc = "retrying"
    BY <1>5, <2>1, <2>2, EndsTyped DEF SaveSessions
  <2>3. CASE pc # "retrying"
    BY <1>5, <2>1, <2>3 DEF SaveSessions
  <2>4. QED
    BY <2>2, <2>3
<1>6. CASE AdvanceCursor
  <2>1. cursor' \in Cursors
    BY <1>6 DEF AdvanceCursor, Cursors
  <2>2. QED
    BY <1>6, <2>1, EndsTyped DEF AdvanceCursor
<1>7. CASE PollDies \/ SaveThrows
  <2>1. surplus' \in [Events -> Int] /\ crashes' \in 0 .. MaxCrashes /\ Ends
    BY <1>7 DEF PollDies, SaveThrows, Forgets, Redo
  <2>2. QED
    BY <1>7, <2>1, EndsTyped DEF PollDies, SaveThrows
<1>8. QED
  BY <1>1, <1>2, <1>3, <1>4, <1>5, <1>6, <1>7

\* A step that looks at one event.
Works(e) ==
    PassSettled(e) \/ PassWaiting(e) \/ JudgeFails(e) \/ Dispatches(e) \/ DispatchFails(e)

\* What such a step leaves alone.
LEMMA WorksFrame ==
    ASSUME NEW e \in Events, Works(e)
    PROVE  /\ UNCHANGED <<kind, arrived, sessions, cursor, pc, base, workCursor, bot,
                          overflow, undone, crashes, staleWrites>>
           /\ Writing
           /\ surplus' = surplus \/ Show(e)
<1> USE DEF Visit, Process, LoopUnchanged, file, bounds, Writing
<1>2. CASE PassSettled(e) \/ PassWaiting(e)
  BY <1>2 DEF PassSettled, PassWaiting
<1>3. CASE JudgeFails(e) \/ Dispatches(e)
  BY <1>3 DEF JudgeFails, Dispatches
<1>4. CASE DispatchFails(e)
  BY <1>4 DEF DispatchFails
<1>5. QED
  BY <1>2, <1>3, <1>4 DEF Works

\* The session it stores: none it had, a good one, or the one the file refuses.
LEMMA WorksStores ==
    ASSUME InboundAssumption, Typed, NEW e \in Events, Works(e)
    PROVE  \/ work' = work
           \/ \E s \in Good \cup {Deferred} : s.status # "none" /\ work' = [work EXCEPT ![e] = s]
<1> USE Numbers
<1>1. \A st \in {"shown", "error"} : Ended(st, 0) \in Good /\ Ended(st, 0).status # "none"
  BY DEF Ended, Good, Sessions, Statuses, Terminal
<1>2. Deferred.status # "none"
  BY DEF Deferred
<1>3. CASE PassSettled(e) \/ PassWaiting(e)
  BY <1>3 DEF PassSettled, PassWaiting
<1>4. CASE JudgeFails(e)
  <2>1. \E s \in {Deferred, Ended("error", 0)} : work' = [work EXCEPT ![e] = s]
    BY <1>4 DEF JudgeFails, Process
  <2>2. QED
    BY <1>1, <1>2, <2>1
<1>5. CASE Dispatches(e)
  <2>1. work' = [work EXCEPT ![e] = Ended("shown", 0)]
    BY <1>5 DEF Dispatches, Process
  <2>2. QED
    BY <1>1, <2>1
<1>6. CASE DispatchFails(e)
  <2> DEFINE n == work[e].fails + 1
  <2>1. work[e].status \in {"none", "discord_pending", "deferred"} /\ work[e] \in Good \cup {Deferred}
    <3>1. work[e] \in Good \cup {Deferred}
      BY DEF Typed, Drafts
    <3>2. ~IsSettled(e)
      BY <1>6 DEF DispatchFails, Process
    <3>3. QED
      BY <3>1, <3>2 DEF IsSettled, Good, Sessions, Statuses, Deferred
  <2>2. n \in 1 .. MaxAttempts
    <3>1. CASE work[e] \in Good
      BY <2>1, <3>1 DEF Good, Sessions, Statuses, Terminal
    <3>2. CASE work[e] = Deferred
      BY <3>2 DEF Deferred
    <3>3. QED
      BY <2>1, <3>1, <3>2
  <2>3. CASE n >= MaxAttempts
    <3>1. work' = [work EXCEPT ![e] = Ended("operator_escalated", n)]
      BY <1>6, <2>3 DEF DispatchFails, Process
    <3>2. Ended("operator_escalated", n) \in Good /\ Ended("operator_escalated", n).status # "none"
      BY <2>2, <2>3 DEF Ended, Good, Sessions, Statuses, Terminal
    <3>3. QED
      BY <3>1, <3>2
  <2>4. CASE ~(n >= MaxAttempts)
    <3>1. work' = [work EXCEPT ![e] = [status |-> "discord_pending", fails |-> n, wait |-> Cooldown]]
      BY <1>6, <2>4 DEF DispatchFails, Process
    <3>2. [status |-> "discord_pending", fails |-> n, wait |-> Cooldown] \in Good
      BY <2>2, <2>4 DEF Good, Sessions, Statuses, Terminal
    <3>3. QED
      BY <3>1, <3>2
  <2>5. QED
    BY <2>3, <2>4
<1>7. QED
  BY <1>3, <1>4, <1>5, <1>6 DEF Works

\* What it does to the events to visit and the highest visited.
LEMMA WorksVisits ==
    ASSUME InboundAssumption, Typed, NEW e \in Events, Works(e)
    PROVE  /\ pc = "working" /\ e \in batch /\ batch' = batch \ {e}
           /\ high' = high \/ high' = e
           /\ Stored(work', e)
<1> USE DEF Visit, Process, Passed
<1>2. CASE PassSettled(e)
  BY <1>2 DEF PassSettled, IsSettled, Terminal, Stored
<1>3. CASE PassWaiting(e)
  BY <1>3 DEF PassWaiting, MustWait, Stored
<1>4. CASE JudgeFails(e) \/ Dispatches(e) \/ DispatchFails(e)
  <2>1. /\ pc = "working" /\ e \in batch /\ batch' = batch \ {e}
        /\ high' = high \/ high' = e
        /\ ~IsSettled(e)
    BY <1>4 DEF JudgeFails, Dispatches, DispatchFails
  <2>2. work' = work => \E s : s.status # "none" /\ work' = [work EXCEPT ![e] = s]
    BY <1>4 DEF JudgeFails, Dispatches, DispatchFails, Ended, Deferred
  <2>3. PICK s : s.status # "none" /\ work' = [work EXCEPT ![e] = s]
    BY <2>2, WorksStores
  <2>4. Stored(work', e)
    BY <2>3 DEF Stored, Typed, Drafts
  <2>5. QED
    BY <2>1, <2>4
<1>5. QED
  BY <1>2, <1>3, <1>4 DEF Works

LEMMA WorksTyped ==
    ASSUME InboundAssumption, Typed, NEW e \in Events, Works(e)
    PROVE  /\ Typed'
           /\ \A f \in Events : Stored(work, f) => Stored(work', f)
<1>1. work' \in Drafts /\ \A f \in Events : Stored(work, f) => Stored(work', f)
  BY WorksStores DEF Typed, Drafts, Stored
<1>2. high' \in 0 .. MaxEvents /\ batch' \subseteq Events
  <2>1. high' \in {high, e} /\ batch' \in {batch, batch \ {e}}
    BY WorksVisits
  <2>2. QED
    BY <2>1, Numbers DEF Typed, TypeOK, Events
<1>3. surplus' \in [Events -> Int]
  BY WorksFrame DEF Show, Typed, TypeOK
<1>4. QED
  BY <1>1, <1>2, <1>3, WorksFrame, CopiesAreSessions DEF Typed, TypeOK

-----------------------------------------------------------------------------
(* What the cursor has passed.                                              *)

LEMMA InitKept == ASSUME InboundAssumption, Init PROVE KeptInv
<1>1. \A e \in Events : ~(e <= 0)
  BY DEF Events
<1>2. QED
  BY <1>1 DEF Init, KeptInv, FileInv, BotInv, BaseInv, CopyInv, WorkInv, SavedInv, Kept, NoCursor, Writing

\* The bot's write leaves behind the cursor what it finds there, or notes it.
LEMMA BotWritesKeeps ==
    ASSUME BotWrites, NEW n, Kept(sessions, n)
    PROVE  Kept(sessions, n)'
BY DEF BotWrites, Kept, Lost, Stored, Differ, Status

LEMMA SurroundingsKept ==
    ASSUME InboundAssumption, Typed, KeptInv, Arrive \/ BotReads \/ BotWrites
    PROVE  KeptInv'
<1>1. CASE Arrive
  BY <1>1 DEF Arrive, file, poll, ghosts, KeptInv, FileInv, BotInv, BaseInv, CopyInv, WorkInv,
              SavedInv, Kept, Lost, Writing
<1>2. CASE BotReads
  BY <1>2 DEF BotReads, file, poll, ghosts, KeptInv, FileInv, BotInv, BaseInv, CopyInv, WorkInv,
              SavedInv, Kept, Lost, Writing
<1>3. CASE BotWrites
  <2>1. Lost \subseteq Lost' /\ UNCHANGED <<pc, base, work, workCursor, high, batch>>
    BY <1>3 DEF BotWrites, Lost, poll
  <2>2. FileInv'
    BY <1>3, <2>1 DEF BotWrites, KeptInv, BotInv, FileInv, Kept
  <2>3. BotInv'
    BY <1>3 DEF BotWrites, BotInv
  <2>4. BaseInv' /\ SavedInv'
    <3>1. pc = "fetching" => Kept(sessions, base.since)'
      BY <1>3, BotWritesKeeps DEF KeptInv, BaseInv, BotWrites, poll, Kept
    <3>2. pc = "saved" => Kept(sessions, high)'
      BY <1>3, BotWritesKeeps DEF KeptInv, SavedInv, BotWrites, poll, Kept
    <3>3. QED
      BY <2>1, <3>1, <3>2 DEF BaseInv, SavedInv, Kept
  <2>5. CopyInv' /\ WorkInv'
    BY <2>1 DEF KeptInv, CopyInv, WorkInv, Kept, Writing
  <2>6. QED
    BY <2>2, <2>3, <2>4, <2>5 DEF KeptInv
<1>4. QED
  BY <1>1, <1>2, <1>3

LEMMA TickKept == ASSUME InboundAssumption, Typed, KeptInv, Tick PROVE KeptInv'
<1>1. UNCHANGED <<pc, high, batch, overflow, undone>>
  BY DEF Tick, ghosts
<1>2. /\ cursor'.since = cursor.since /\ base'.since = base.since
      /\ workCursor'.since = workCursor.since
  BY AgedCursorTyped DEF Tick, Typed, TypeOK
<1>3. \A e \in Events : /\ Stored(sessions', e) <=> Stored(sessions, e)
                        /\ Stored(work', e) <=> Stored(work, e)
  BY AgedTyped, CopiesAreSessions DEF Tick, Typed
<1>4. BotInv'
  <2>1. CASE bot = <<>>
    BY <2>1 DEF Tick, BotInv
  <2>2. CASE bot # <<>>
    <3>1. bot.sessions \in Copies /\ bot.cursor \in Cursors /\ Kept(bot.sessions, bot.cursor.since)
      BY <2>2 DEF Typed, TypeOK, BotCopies, KeptInv, BotInv
    <3>2. bot' = [sessions |-> Aged(bot.sessions), cursor |-> AgedCursor(bot.cursor)]
      BY <2>2 DEF Tick
    <3>3. /\ bot'.cursor.since = bot.cursor.since
          /\ \A e \in Events : Stored(bot'.sessions, e) <=> Stored(bot.sessions, e)
      BY <3>1, <3>2, AgedTyped, AgedCursorTyped, CopiesAreSessions
    <3>4. QED
      BY <1>1, <3>1, <3>3 DEF BotInv, Kept, Lost
  <2>3. QED
    BY <2>1, <2>2
<1>5. FileInv' /\ BaseInv' /\ CopyInv' /\ SavedInv'
  BY <1>1, <1>2, <1>3 DEF KeptInv, FileInv, BaseInv, CopyInv, SavedInv, Kept, Lost, Writing
<1>6. WorkInv'
  BY <1>1, <1>3 DEF KeptInv, WorkInv, Lost
<1>7. QED
  BY <1>4, <1>5, <1>6 DEF KeptInv

\* The end of a poll leaves the file to be looked at, and the bot's copy.
LEMMA EndsKept ==
    ASSUME KeptInv, Ends, UNCHANGED <<bot, overflow, undone>>, FileInv'
    PROVE  KeptInv'
BY DEF Ends, KeptInv, BotInv, BaseInv, CopyInv, WorkInv, SavedInv, Kept, Lost, Writing

LEMMA FetchKept ==
    ASSUME InboundAssumption, Typed, KeptInv, FetchSucceeds
    PROVE  KeptInv'
<1>1. /\ pc = "fetching" /\ pc' = "working"
      /\ UNCHANGED <<sessions, cursor, bot, undone>>
      /\ work' = sessions /\ workCursor' = cursor
      /\ high' = base.since /\ batch' = Page
      /\ overflow' = overflow \cup ((base.since + 1 .. arrived) \ Page)
  BY DEF FetchSucceeds, file
<1>2. Lost \subseteq Lost'
  BY <1>1 DEF Lost
<1>3. FileInv' /\ BotInv' /\ BaseInv' /\ CopyInv' /\ SavedInv'
  BY <1>1, <1>2 DEF KeptInv, FileInv, BotInv, BaseInv, CopyInv, SavedInv, Kept
<1>4. base.since \in Nat /\ arrived \in Nat
  BY Numbers DEF Typed, TypeOK, Cursors
<1>5. Kept(sessions, base.since)
  BY <1>1 DEF KeptInv, BaseInv
<1>6. ASSUME NEW e \in Events, e <= high' \/ (\E f \in batch' : e <= f)
      PROVE  Stored(work', e) \/ e \in Lost' \/ e \in batch'
  <2>1. CASE e <= base.since
    BY <1>1, <1>2, <1>5, <2>1 DEF Kept
  <2>2. CASE ~(e <= base.since)
    <3>1. e \in base.since + 1 .. arrived
      BY <1>1, <1>4, <1>6, <2>2, Numbers DEF Page, Events
    <3>2. QED
      BY <1>1, <3>1 DEF Lost
  <2>3. QED
    BY <2>1, <2>2
<1>7. QED
  BY <1>3, <1>6 DEF KeptInv, WorkInv

LEMMA WorksKept ==
    ASSUME InboundAssumption, Typed, KeptInv, NEW e \in Events, Works(e)
    PROVE  KeptInv'
<1>1. FileInv' /\ BotInv' /\ BaseInv' /\ SavedInv'
  BY WorksFrame DEF KeptInv, FileInv, BotInv, BaseInv, SavedInv, Kept, Lost, Writing
<1>2. CopyInv'
  BY WorksFrame, WorksTyped DEF KeptInv, CopyInv, Kept, Lost, Writing
<1>3. ASSUME pc' = "working", NEW f \in Events, f <= high' \/ (\E g \in batch' : f <= g)
      PROVE  Stored(work', f) \/ f \in Lost' \/ f \in batch'
  <2>1. pc = "working" /\ Lost' = Lost
    BY <1>3, WorksFrame DEF Lost
  <2>2. f <= high \/ (\E g \in batch : f <= g)
    BY <1>3, WorksVisits
  <2>3. Stored(work, f) \/ f \in Lost \/ f \in batch
    BY <2>1, <2>2 DEF KeptInv, WorkInv
  <2>4. CASE Stored(work, f)
    BY <2>4, WorksTyped
  <2>5. CASE f \in Lost
    BY <2>1, <2>5
  <2>6. CASE f \in batch
    BY <2>6, WorksVisits
  <2>7. QED
    BY <2>3, <2>4, <2>5, <2>6
<1>4. QED
  BY <1>1, <1>2, <1>3 DEF KeptInv, WorkInv

LEMMA PollKept ==
    ASSUME InboundAssumption, Typed, KeptInv,
           PollSuspended \/ PollStarts \/ FetchFails \/ SaveSessions \/ SaveThrows
           \/ AdvanceCursor \/ PollDies
    PROVE  KeptInv'
<1> USE DEF file, ghosts, Writing
<1>1. CASE PollSuspended
  BY <1>1 DEF PollSuspended, Begin, KeptInv, FileInv, BotInv, BaseInv, CopyInv, WorkInv, SavedInv,
              Kept, Lost
<1>2. CASE PollStarts
  BY <1>2 DEF PollStarts, Begin, KeptInv, FileInv, BotInv, BaseInv, CopyInv, WorkInv, SavedInv,
              Kept, Lost
<1>3. CASE FetchFails
  <2>1. cursor'.since = base.since /\ pc = "fetching"
    BY <1>3 DEF FetchFails, Typed, TypeOK, Cursors
  <2>2. FileInv'
    BY <1>3, <2>1 DEF FetchFails, KeptInv, FileInv, BaseInv, Kept, Lost
  <2>3. QED
    BY <1>3, <2>2, EndsKept DEF FetchFails
<1>4. CASE SaveSessions
  <2>1. FileInv'
    BY <1>4 DEF SaveSessions, WorkDone, KeptInv, CopyInv, FileInv, Kept, Lost
  <2>2. CASE pc = "retrying"
    BY <1>4, <2>1, <2>2, EndsKept DEF SaveSessions
  <2>3. CASE pc # "retrying"
    <3>1. pc = "working" /\ pc' = "saved" /\ batch = {} /\ sessions' = work
          /\ UNCHANGED <<high, bot, overflow, undone>>
      BY <1>4, <2>3 DEF SaveSessions, WorkDone
    <3>2. SavedInv'
      BY <3>1 DEF KeptInv, WorkInv, SavedInv, Kept, Lost
    <3>3. QED
      BY <2>1, <3>1, <3>2 DEF KeptInv, BotInv, BaseInv, CopyInv, WorkInv, Kept, Lost
  <2>4. QED
    BY <2>2, <2>3
<1>5. CASE AdvanceCursor
  <2>1. FileInv'
    BY <1>5 DEF AdvanceCursor, KeptInv, SavedInv, FileInv, Kept, Lost
  <2>2. QED
    BY <1>5, <2>1, EndsKept DEF AdvanceCursor
<1>6. CASE PollDies \/ SaveThrows
  <2>1. FileInv'
    BY <1>6 DEF PollDies, SaveThrows, KeptInv, FileInv, Kept, Lost
  <2>2. QED
    BY <1>6, <2>1, EndsKept DEF PollDies, SaveThrows, Forgets
<1>7. QED
  BY <1>1, <1>2, <1>3, <1>4, <1>5, <1>6

-----------------------------------------------------------------------------
(* What the customer has seen.                                              *)

\* A thread the customer has, and whose memory was not lost, is remembered by
\* the copy of the sessions that counts; and that copy remembers what the file
\* does, which remembers what the bot's copy does.
Count(ses, e) == IF ses[e].status = "shown" THEN 1 ELSE 0
ShownInv ==
    /\ \A e \in Events : surplus[e] = Count(Memory, e)
    /\ bot # <<>> => ShownIn(bot.sessions) \subseteq ShownIn(sessions)
    /\ Writing => ShownIn(sessions) \subseteq ShownIn(work)

LEMMA InitShown == ASSUME Init PROVE ShownInv
BY DEF Init, ShownInv, Writing, Memory, Count, Fresh

\* Leaving behind what one copy remembers and another does not, the count is
\* that of the other.
LEMMA RedoCounts ==
    ASSUME Typed, NEW old, NEW new, Redo(ShownIn(old) \ ShownIn(new)),
           ShownIn(new) \subseteq ShownIn(old),
           \A e \in Events : surplus[e] = Count(old, e)
    PROVE  \A e \in Events : surplus'[e] = Count(new, e)
<1> SUFFICES ASSUME NEW e \in Events PROVE surplus'[e] = Count(new, e)
  OBVIOUS
<1>1. surplus'[e] = surplus[e] - (IF e \in ShownIn(old) \ ShownIn(new) THEN 1 ELSE 0)
  BY DEF Redo
<1>2. /\ e \in ShownIn(old) <=> old[e].status = "shown"
      /\ e \in ShownIn(new) <=> new[e].status = "shown"
  BY DEF ShownIn
<1>3. QED
  BY <1>1, <1>2 DEF Count

LEMMA RedoNothing == ASSUME Typed, Redo({}) PROVE \A e \in Events : surplus'[e] = surplus[e]
BY DEF Redo, Typed, TypeOK

LEMMA SurroundingsShown ==
    ASSUME Typed, ShownInv, Arrive \/ BotReads \/ BotWrites
    PROVE  ShownInv'
<1>1. CASE Arrive \/ BotReads
  BY <1>1 DEF Arrive, BotReads, file, poll, ghosts, ShownInv, Writing, Memory, Count, ShownIn
<1>2. CASE BotWrites
  <2>1. /\ sessions' = bot.sessions /\ bot # <<>> /\ bot' = <<>>
        /\ Redo(IF Writing THEN {} ELSE ShownIn(sessions) \ ShownIn(bot.sessions))
        /\ UNCHANGED <<pc, work>>
    BY <1>2 DEF BotWrites, poll
  <2>2. CASE Writing
    <3>1. \A e \in Events : surplus'[e] = surplus[e]
      BY <2>1, <2>2, RedoNothing
    <3>2. QED
      BY <2>1, <2>2, <3>1 DEF ShownInv, Writing, Memory, Count, ShownIn
  <2>3. CASE ~Writing
    <3>1. \A e \in Events : surplus'[e] = Count(bot.sessions, e)
      BY <2>1, <2>3, RedoCounts DEF ShownInv, Memory
    <3>2. QED
      BY <2>1, <2>3, <3>1 DEF ShownInv, Writing, Memory, Count
  <2>4. QED
    BY <2>2, <2>3
<1>3. QED
  BY <1>1, <1>2

LEMMA TickShown == ASSUME InboundAssumption, Typed, ShownInv, Tick PROVE ShownInv'
<1>1. \A e \in Events : sessions'[e].status = sessions[e].status /\ work'[e].status = work[e].status
  BY AgedTyped, CopiesAreSessions DEF Tick, Typed
<1>2. UNCHANGED <<pc, surplus>>
  BY DEF Tick, ghosts
<1>3. bot' # <<>> => ShownIn(bot'.sessions) \subseteq ShownIn(sessions')
  <2>1. CASE bot = <<>>
    BY <2>1 DEF Tick
  <2>2. CASE bot # <<>>
    <3>1. \A e \in Events : bot'.sessions[e].status = bot.sessions[e].status
      BY <2>2, AgedTyped, CopiesAreSessions DEF Tick, Typed
    <3>2. QED
      BY <1>1, <2>2, <3>1 DEF ShownInv, ShownIn
  <2>3. QED
    BY <2>1, <2>2
<1>4. QED
  BY <1>1, <1>2, <1>3 DEF ShownInv, Writing, Memory, Count, ShownIn

LEMMA PollShown ==
    ASSUME InboundAssumption, Typed, ShownInv,
           PollSuspended \/ PollStarts \/ FetchSucceeds \/ FetchFails \/ SaveSessions
           \/ SaveThrows \/ AdvanceCursor \/ PollDies
    PROVE  ShownInv'
<1> USE DEF ShownInv, Writing, Memory, Count, ShownIn, file, ghosts
<1>1. CASE PollSuspended
  BY <1>1 DEF PollSuspended, Begin
<1>2. CASE PollStarts
  BY <1>2 DEF PollStarts, Begin
<1>3. CASE FetchSucceeds
  BY <1>3 DEF FetchSucceeds
<1>4. CASE FetchFails
  BY <1>4 DEF FetchFails, Ends
<1>5. CASE SaveSessions
  BY <1>5 DEF SaveSessions, WorkDone, Ends
<1>6. CASE AdvanceCursor
  BY <1>6 DEF AdvanceCursor, Ends
<1>7. CASE PollDies \/ SaveThrows
  <2>1. pc' = "idle" /\ UNCHANGED <<sessions, bot>> /\ Forgets
    BY <1>7 DEF PollDies, SaveThrows, Forgets, Ends
  <2>2. \A e \in Events : surplus'[e] = Count(sessions, e)
    <3>1. CASE Writing
      BY <2>1, <3>1, RedoCounts DEF Forgets
    <3>2. CASE ~Writing
      BY <2>1, <3>2, RedoNothing DEF Forgets
    <3>3. QED
      BY <3>1, <3>2
  <2>3. QED
    BY <2>1, <2>2
<1>8. QED
  BY <1>1, <1>2, <1>3, <1>4, <1>5, <1>6, <1>7

\* Only an event whose thread the copy does not remember is shown, and no
\* other step makes the copy forget one.
LEMMA WorksShows ==
    ASSUME InboundAssumption, Typed, NEW e \in Events, Works(e)
    PROVE  \/ work' = work /\ surplus' = surplus
           \/ /\ work[e].status # "shown"
              /\ \A f \in Events \ {e} : work'[f] = work[f]
              /\ \/ surplus' = surplus /\ work'[e].status # "shown"
                 \/ surplus' = [surplus EXCEPT ![e] = @ + 1] /\ work'[e].status = "shown"
<1> USE DEF Typed, Drafts
<1>2. CASE PassSettled(e) \/ PassWaiting(e)
  BY <1>2 DEF PassSettled, PassWaiting, LoopUnchanged
<1>3. CASE JudgeFails(e)
  BY <1>3 DEF JudgeFails, Process, IsSettled, Terminal, Ended, Deferred
<1>4. CASE Dispatches(e)
  BY <1>4 DEF Dispatches, Process, IsSettled, Terminal, Ended, Show
<1>5. CASE DispatchFails(e)
  BY <1>5 DEF DispatchFails, Process, IsSettled, Terminal, Ended
<1>6. QED
  BY <1>2, <1>3, <1>4, <1>5 DEF Works

LEMMA WorksShown ==
    ASSUME InboundAssumption, Typed, ShownInv, NEW e \in Events, Works(e)
    PROVE  ShownInv'
<1>1. Writing /\ UNCHANGED <<pc, bot, sessions>>
  BY WorksFrame
<1>2. surplus \in [Events -> Int]
  BY DEF Typed, TypeOK
<1>3. \A f \in Events : surplus[f] = Count(work, f)
  BY <1>1 DEF ShownInv, Memory
<1>4. ASSUME NEW f \in Events
      PROVE  surplus'[f] = Count(work', f) /\ (work[f].status = "shown" => work'[f].status = "shown")
  <2>1. CASE f = e
    BY <1>2, <1>3, <2>1, WorksShows DEF Count
  <2>2. CASE f # e
    BY <1>2, <1>3, <2>2, WorksShows DEF Count
  <2>3. QED
    BY <2>1, <2>2
<1>5. QED
  BY <1>1, <1>4 DEF ShownInv, Writing, Memory, Count, ShownIn

-----------------------------------------------------------------------------
(* Theorems.                                                                *)

LEMMA NextKeeps ==
    ASSUME InboundAssumption, Typed, KeptInv, ShownInv, [Next]_vars
    PROVE  Typed' /\ KeptInv' /\ ShownInv'
<1>1. CASE Arrive \/ BotReads \/ BotWrites
  BY <1>1, SurroundingsTyped, SurroundingsKept, SurroundingsShown
<1>2. CASE Tick
  BY <1>2, TickTyped, TickKept, TickShown
<1>3. CASE PollSuspended \/ PollStarts \/ FetchSucceeds \/ FetchFails \/ SaveSessions
           \/ SaveThrows \/ AdvanceCursor \/ PollDies
  BY <1>3, PollTyped, PollKept, FetchKept, PollShown
<1>4. CASE \E e \in Events : Works(e)
  BY <1>4, WorksTyped, WorksKept, WorksShown
<1>5. CASE UNCHANGED vars
  BY <1>5 DEF vars, file, poll, ghosts, bounds, Typed, TypeOK, KeptInv, FileInv, BotInv, BaseInv,
              CopyInv, WorkInv, SavedInv, Kept, Lost, ShownInv, Writing, Memory, Count, ShownIn
<1>6. QED
  BY <1>1, <1>2, <1>3, <1>4, <1>5 DEF Next, PollStep, Works

LEMMA KeptInvHolds == Spec => [](Typed /\ KeptInv /\ ShownInv)
<1>1. Init => Typed /\ KeptInv /\ ShownInv
  BY InitTyped, InitKept, InitShown, InboundAssumption
<1>2. Typed /\ KeptInv /\ ShownInv /\ [Next]_vars => Typed' /\ KeptInv' /\ ShownInv'
  BY NextKeeps, InboundAssumption
<1>3. QED
  BY <1>1, <1>2, PTL DEF Spec

\* No event is behind the cursor without a session, but those a page of newer
\* events hid from a fetch and those the bot's unlocked write took the session
\* of (collectInboundReplies, advanceCursor).
THEOREM CursorPassesOnlyStoredHolds == Spec => []CursorPassesOnlyStored
<1>1. Typed /\ KeptInv /\ ShownInv => CursorPassesOnlyStored
  BY Numbers, InboundAssumption
     DEF Typed, TypeOK, Cursors, KeptInv, FileInv, Kept, Lost, CursorPassesOnlyStored, Events
<1>2. QED
  BY <1>1, KeptInvHolds, PTL

\* The customer sees an event once, and once more only for each time what was
\* done for it was lost (buildSession, the session map of the collectors); a
\* session is given up after exactly MaxAttempts failed dispatches, and one that
\* waits for another try has tries left (markDiscordPostFailed); and all of the
\* state is of its type.
THEOREM PollInvHolds == Spec => []PollInv
<1>1. Typed /\ KeptInv /\ ShownInv => PollInv
  BY DEF Typed, Copies, Good, TriesCounted, ShownInv, Count, ShownOnce, PollInv
<1>2. QED
  BY <1>1, KeptInvHolds, PTL
=============================================================================
