--------------------------- MODULE TargetsProofs ---------------------------
(***************************************************************************)
(* Proofs about module Targets: the tweets of a tracked account, for every *)
(* number of tweets and of presses at once, every maxSessionsPerRun, every *)
(* number of attempts and every interval between them.                     *)
(*                                                                         *)
(* Neither process locks anything, so the invariant has to say what the    *)
(* copies that the cron and the bot hold are worth: none of them is open   *)
(* for a tweet that was posted or shown, whoever writes it back, but for   *)
(* the tweets whose mark a fault undid.                                    *)
(*                                                                         *)
(* And about module Reminders, for every number of calls, forms, questions *)
(* and days: there too the digest's script writes back a copy of its own.  *)
(***************************************************************************)
EXTENDS Targets, Reminders, TLAPS, WellFoundedInduction

-----------------------------------------------------------------------------
(* The inductive invariant.                                                 *)

\* What TriesCounted says of the sessions in the file ...
TriesOf(s) ==
    /\ s.phase = "operator_escalated" => s.fails = MaxAttempts
    /\ IsOpen(s) => s.fails < MaxAttempts

\* ... holds of every copy as well: any of them may be written back.
TriesInv ==
    /\ \A t \in Tweets : /\ TriesOf(sessions[t]) /\ TriesOf(found[t]) /\ TriesOf(open[t])
                         /\ TriesOf(older.sessions[t])
    /\ TriesOf(copy)
    /\ \A p \in Presses : TriesOf(press[p].read)

\* The places of discovery, those of the loop with a tweet in hand, and among
\* these those where the session is about to be written, after a card or not.
FoundPcs == {"found", "advanced"}
CardPcs == {"carded", "fallen"}
WritePcs == {"liked", "posted", "carded", "fallen"}
HandPcs == {"asking", "judging", "card", "fallback"} \cup WritePcs

\* What the cron holds, by where it is.  The loop goes through sessions it read
\* as open, each once; when it judges a draft the session is pending already.
PlaceInv ==
    /\ pc \notin FoundPcs => found = Blank
    /\ \A t \in todo : IsOpen(open[t])
    /\ pc \in HandPcs => hand \in Tweets \ todo /\ IsOpen(open[hand])
    /\ pc = "asking" => copy.status # "none"
    /\ pc = "judging" => Settled(sessions[hand]) \/ hand \in undone
    /\ pc \in {"card", "fallback"} => IsOpen(copy)
    /\ pc \in WritePcs => copy.status = "posted"

\* A press has read a session that was there.
PressInv ==
    \A p \in Presses : press[p].pc # "free" =>
        press[p].tweet \in Tweets /\ press[p].read.status # "none"

\* The card of t is in the channel and the session does not say so yet.
Shown(t) == pc \in CardPcs /\ hand = t

\* A tweet that was posted or shown is settled in the file and in what discovery
\* will write, save while its card is being recorded, and the loop does not come to
\* it ...
OnceOf(t) ==
    /\ posts[t] <= 1 /\ cards[t] <= 1
    /\ posts[t] > 0 \/ cards[t] > 0 =>
          t \notin todo /\ (pc \in FoundPcs => Settled(found[t]))
    /\ posts[t] > 0 => Settled(sessions[t])
    /\ cards[t] > 0 => Settled(sessions[t]) \/ Shown(t)

\* ... and where the cron is about to post or show, nothing was done; only the
\* fallback may show what was posted.
OnceInv ==
    /\ \A t \in Tweets \ undone : OnceOf(t)
    /\ pc \in HandPcs /\ hand \notin undone =>
          /\ pc \in {"asking", "judging", "card"} => posts[hand] = 0
          /\ pc \notin CardPcs => cards[hand] <= 0

\* An older file has an older cursor, and the cursor is about to move over tweets
\* that discovery has, passed or lost.
ComingInv ==
    /\ older.cursor <= cursor
    /\ pc \in FoundPcs =>
          /\ cursor <= high
          /\ \A t \in 1 .. high : found[t].status # "none" \/ t \in passed \/ t \in lost

IInv == TypeOK /\ TriesInv /\ PlaceInv /\ PressInv /\ OnceInv /\ ComingInv /\ CursorPassesOnlyKept

-----------------------------------------------------------------------------
(* Types and fields.                                                        *)

LEMMA Bounds ==
    /\ MaxTweets \in Nat /\ MaxNew \in Nat \ {0} /\ MaxAttempts \in Nat \ {0}
    /\ Cooldown \in Nat /\ MaxInputs \in Nat
    /\ Tweets \subseteq Nat \ {0} /\ NoTweet \notin Tweets
BY TargetsAssumption DEF Tweets, NoTweet

LEMMA FieldTypes ==
    ASSUME NEW s \in Sessions
    PROVE  /\ s.status \in Statuses /\ s.phase \in Phases /\ s.action \in Actions
           /\ s.text \in BOOLEAN /\ s.fails \in 0 .. MaxAttempts /\ s.wait \in 0 .. Cooldown
           /\ s.noted \in BOOLEAN
           /\ s.fails \in Nat
BY Bounds DEF Sessions

LEMMA OlderFacts ==
    ASSUME NEW s \in Sessions
    PROVE  /\ Older(s) \in Sessions
           /\ Older(s).status = s.status /\ Older(s).phase = s.phase /\ Older(s).fails = s.fails
<1>1. (IF s.wait = 0 THEN 0 ELSE s.wait - 1) \in 0 .. Cooldown
  BY Bounds, FieldTypes
<1> QED
  BY <1>1 DEF Sessions, Older

LEMMA NoSessionFacts ==
    /\ NoSession \in Sessions /\ NoSession.status = "none" /\ NoSession.phase = "open"
    /\ TriesOf(NoSession) /\ ~IsOpen(NoSession)
    /\ \A t \in Tweets : Blank[t] = NoSession
    /\ Blank \in [Tweets -> Sessions]
BY Bounds DEF NoSession, Sessions, Statuses, Phases, Actions, TriesOf, IsOpen, Blank

LEMMA Types ==
    ASSUME TypeOK
    PROVE  /\ sessions \in [Tweets -> Sessions] /\ found \in [Tweets -> Sessions]
           /\ open \in [Tweets -> Sessions] /\ copy \in Sessions
           /\ todo \subseteq Tweets /\ hand \in Tweets \cup {NoTweet} /\ pc \in CronPcs
           /\ press \in [Presses -> [pc : PressPcs, tweet : Tweets \cup {NoTweet}, read : Sessions]]
           /\ rows \in [Tweets -> SUBSET Rows] /\ posts \in [Tweets -> Nat]
           /\ cards \in [Tweets -> Int]
           /\ undone \subseteq Tweets /\ inputs \in 0 .. MaxInputs
           /\ older.sessions \in [Tweets -> Sessions] /\ older.cursor \in 0 .. MaxTweets
           /\ \A t \in Tweets : /\ sessions[t] \in Sessions /\ found[t] \in Sessions
                                /\ open[t] \in Sessions /\ older.sessions[t] \in Sessions
                                /\ posts[t] \in Nat /\ cards[t] \in Int
BY DEF TypeOK

LEMMA PutSets ==
    ASSUME TypeOK, NEW t \in Tweets, NEW s, Put(t, s)
    PROVE  /\ \A u \in Tweets : sessions'[u] = IF u = t THEN s ELSE sessions[u]
           /\ s \in Sessions => sessions' \in [Tweets -> Sessions]
BY Types DEF Put

-----------------------------------------------------------------------------
(* The loop.                                                                *)

\* A step of the loop: it writes session s of tweet t, goes to the place "to"
\* with the copy c, and may show or post t.
LEMMA LoopKeeps ==
    ASSUME IInv, NEW t \in Tweets, (pc = "loop" /\ t \in todo) \/ (pc \in HandPcs /\ t = hand),
           NEW s \in Sessions, TriesOf(s), Put(t, s),
           sessions[t].status # "none" => s.status # "none",
           LoopLeaves, inputs' \in 0 .. MaxInputs,
           undone' = undone \/ undone' = undone \cup {t},
           todo' = todo \ {t},
           NEW to \in {"loop"} \cup HandPcs, pc' = to,
           NEW h, hand' = h, (to = "loop" /\ h = NoTweet) \/ (to \in HandPcs /\ h = t),
           NEW c \in Sessions, copy' = c, TriesOf(c),
           to = "asking" => c.status # "none",
           to = "judging" => Settled(s) \/ t \in undone',
           to \in {"card", "fallback"} => IsOpen(c),
           to \in WritePcs => c.status = "posted",
           rows' \in [Tweets -> SUBSET Rows],
           posts' \in [Tweets -> Nat], \A u \in Tweets \ {t} : posts'[u] = posts[u],
           cards' \in [Tweets -> Int], \A u \in Tweets \ {t} : cards'[u] = cards[u],
           t \notin undone' =>
              /\ posts'[t] <= 1 /\ (posts'[t] > 0 => Settled(s))
              /\ cards'[t] <= 1 /\ (cards'[t] > 0 => Settled(s) \/ to \in CardPcs)
              /\ to \in {"asking", "judging", "card"} => posts'[t] = 0
              /\ to \notin CardPcs \cup {"loop"} => cards'[t] <= 0
    PROVE  IInv'
<1>1. TypeOK
  BY DEF IInv
<1>2. /\ \A u \in Tweets : sessions'[u] = IF u = t THEN s ELSE sessions[u]
      /\ sessions' \in [Tweets -> Sessions]
  BY <1>1, PutSets
<1>3. /\ UNCHANGED <<cursor, older, mode, found, high, open, press, level, tweeted, passed, lost>>
      /\ pc \notin FoundPcs /\ pc' \notin FoundPcs /\ found = Blank
  BY DEF LoopLeaves, bot, IInv, PlaceInv, HandPcs, WritePcs, FoundPcs
<1>4. TypeOK'
  BY <1>1, <1>2, <1>3 DEF TypeOK, CronPcs, HandPcs, WritePcs
<1>5. TriesInv'
  BY <1>2, <1>3 DEF IInv, TriesInv
<1>6. (\A u \in todo \cup {t} : IsOpen(open[u])) /\ todo \subseteq Tweets
  BY <1>1, Types DEF IInv, PlaceInv
<1>7. PlaceInv'
  <2>1. pc' \in HandPcs => hand' = t /\ sessions'[t] = s /\ t \notin todo' /\ IsOpen(open[t])
    BY <1>2, <1>6 DEF HandPcs, WritePcs
  <2>2. (\A u \in todo' : IsOpen(open[u])) /\ open' = open /\ found' = Blank
    BY <1>3, <1>6
  <2>3. /\ pc' = "asking" => copy'.status # "none"
        /\ pc' \in {"card", "fallback"} => IsOpen(copy')
        /\ pc' \in WritePcs => copy'.status = "posted"
    BY DEF IsOpen
  <2>4. pc' = "judging" => Settled(sessions'[hand']) \/ hand' \in undone'
    BY <2>1 DEF HandPcs
  <2> QED
    BY <2>1, <2>2, <2>3, <2>4 DEF PlaceInv
<1>8. PressInv'
  BY <1>3 DEF IInv, PressInv
<1>9. OnceInv'
  <2>1. ASSUME NEW u \in Tweets \ undone', u # t
        PROVE  OnceOf(u)'
    <3>1. u \in Tweets \ undone
      BY <2>1
    <3>2. OnceOf(u) /\ ~Shown(u)
      BY <2>1, <3>1 DEF IInv, OnceInv, Shown, HandPcs, CardPcs
    <3>3. /\ sessions'[u] = sessions[u] /\ posts'[u] = posts[u] /\ cards'[u] = cards[u]
          /\ u \in todo' => u \in todo
      BY <1>2, <2>1
    <3> QED
      BY <1>3, <3>2, <3>3 DEF OnceOf
  <2>2. t \notin undone' => OnceOf(t)'
    BY <1>2, <1>3 DEF OnceOf, Shown, HandPcs, CardPcs
  <2>3. pc' \in HandPcs /\ hand' \notin undone' =>
           /\ pc' \in {"asking", "judging", "card"} => posts'[hand'] = 0
           /\ pc' \notin CardPcs => cards'[hand'] <= 0
    BY DEF HandPcs, WritePcs
  <2> QED
    BY <2>1, <2>2, <2>3 DEF OnceInv
<1>10. ComingInv'
  BY <1>3 DEF IInv, ComingInv
<1>11. CursorPassesOnlyKept'
  <2>1. 1 .. cursor \subseteq Tweets
    BY <1>1, Bounds DEF TypeOK, Tweets
  <2>2. pc # "advanced"
    BY <1>3 DEF FoundPcs
  <2> QED
    BY <2>1, <2>2, <1>2, <1>3 DEF IInv, CursorPassesOnlyKept
<1> QED
  BY <1>4, <1>5, <1>7, <1>8, <1>9, <1>10, <1>11 DEF IInv

\* A session the loop visits is open, as it read it, and nothing was done for it.
LEMMA VisitFacts ==
    ASSUME IInv, NEW t \in Tweets, Take(t)
    PROVE  /\ pc = "loop" /\ t \in todo /\ TypeOK
           /\ open[t] \in Sessions /\ IsOpen(open[t]) /\ TriesOf(open[t])
           /\ open[t].status = "open" /\ open[t].phase = "open"
           /\ sessions[t] \in Sessions /\ TriesOf(sessions[t])
           /\ posts[t] \in Nat /\ cards[t] \in Int /\ inputs \in 0 .. MaxInputs
           /\ t \notin undone => posts[t] = 0 /\ cards[t] <= 0
           /\ NoSession \in Sessions /\ TriesOf(NoSession)
<1>1. TypeOK /\ pc = "loop" /\ t \in todo
  BY DEF Take, IInv
<1>2. posts[t] \in Nat /\ cards[t] \in Int
  BY <1>1, Types
<1>3. t \notin undone => posts[t] = 0 /\ cards[t] <= 0
  BY <1>1, <1>2 DEF IInv, OnceInv, OnceOf
<1> QED
  BY <1>1, <1>2, <1>3, Types, NoSessionFacts DEF IInv, PlaceInv, TriesInv, IsOpen

LEMMA Unwritten ==
    ASSUME TypeOK, NEW t \in Tweets
    PROVE  /\ UNCHANGED sessions => Put(t, sessions[t])
           /\ UNCHANGED rows => rows' \in [Tweets -> SUBSET Rows]
           /\ UNCHANGED posts => posts' \in [Tweets -> Nat]
           /\ UNCHANGED cards => cards' \in [Tweets -> Int]
           /\ LoopUnchanged => LoopLeaves /\ undone' = undone /\ inputs' \in 0 .. MaxInputs
BY Types DEF Put, LoopUnchanged

LEMMA AutoSkipKeeps ==
    ASSUME IInv, NEW t \in Tweets, AutoSkip(t)
    PROVE  IInv'
<1> DEFINE s == [open[t] EXCEPT !.status = "skipped", !.phase = "skipped"]
<1>1. /\ Take(t) /\ Put(t, s) /\ Back(t) /\ UNCHANGED <<rows, posts, cards>> /\ LoopUnchanged
  BY DEF AutoSkip
<1>2. s \in Sessions /\ s.status = "skipped" /\ s.phase = "skipped"
  BY <1>1, VisitFacts DEF Sessions, Statuses, Phases
<1> HIDE DEF s
<1>3. TriesOf(s) /\ Settled(s)
  BY <1>2 DEF TriesOf, IsOpen, Settled
<1>4. /\ TypeOK /\ LoopLeaves /\ undone' = undone /\ inputs' \in 0 .. MaxInputs
      /\ rows' \in [Tweets -> SUBSET Rows] /\ posts' \in [Tweets -> Nat]
      /\ cards' \in [Tweets -> Int]
  BY <1>1, VisitFacts, Unwritten
<1> QED
  BY <1>1, <1>2, <1>3, <1>4, VisitFacts, LoopKeeps DEF Back, HandPcs, WritePcs

\* A step of the loop that does nothing to the files, the channel and X.
LEMMA MoveKeeps ==
    ASSUME IInv, NEW t \in Tweets, (pc = "loop" /\ t \in todo) \/ (pc \in HandPcs /\ t = hand),
           t \notin undone => posts[t] <= 1 /\ cards[t] <= 0,
           NEW to \in HandPcs \ CardPcs, NEW c \in Sessions, Hold(to, t, c), TriesOf(c),
           to = "asking" => c.status # "none",
           to # "judging",
           to \in {"card", "fallback"} => IsOpen(c),
           to \in WritePcs => c.status = "posted",
           t \notin undone /\ to \in {"asking", "card"} => posts[t] = 0,
           UNCHANGED <<sessions, rows, posts, cards, undone>>, LoopLeaves,
           inputs' \in 0 .. MaxInputs
    PROVE  IInv'
<1>1. TypeOK /\ sessions[t] \in Sessions /\ TriesOf(sessions[t]) /\ posts[t] \in Nat
      /\ cards[t] \in Int
  BY Types DEF IInv, TriesInv
<1>2. /\ Put(t, sessions[t]) /\ rows' \in [Tweets -> SUBSET Rows] /\ posts' \in [Tweets -> Nat]
      /\ cards' \in [Tweets -> Int]
  BY <1>1, Unwritten
<1>3. t \notin undone => (posts[t] > 0 => Settled(sessions[t]))
  BY DEF IInv, OnceInv, OnceOf
<1>4. t \notin undone' =>
         /\ posts'[t] <= 1 /\ (posts'[t] > 0 => Settled(sessions[t]))
         /\ cards'[t] <= 1 /\ (cards'[t] > 0 => Settled(sessions[t]) \/ to \in CardPcs)
         /\ to \in {"asking", "judging", "card"} => posts'[t] = 0
         /\ to \notin CardPcs \cup {"loop"} => cards'[t] <= 0
  BY <1>1, <1>3
<1>5. pc' = to /\ hand' = t /\ copy' = c /\ todo' = todo \ {t}
  BY DEF Hold
<1> QED
  BY <1>1, <1>2, <1>4, <1>5, LoopKeeps

\* The same of one that puts the session down.
LEMMA LeaveKeeps ==
    ASSUME IInv, NEW t \in Tweets, (pc = "loop" /\ t \in todo) \/ (pc \in HandPcs /\ t = hand),
           Back(t), UNCHANGED <<sessions, rows, posts, undone>>, LoopLeaves,
           cards' \in [Tweets -> Int], \A u \in Tweets \ {t} : cards'[u] = cards[u],
           t \notin undone => cards'[t] <= 1 /\ (cards'[t] > 0 => Settled(sessions[t])),
           inputs' \in 0 .. MaxInputs
    PROVE  IInv'
<1>1. TypeOK /\ sessions[t] \in Sessions /\ TriesOf(sessions[t])
  BY Types DEF IInv, TriesInv
<1>2. /\ Put(t, sessions[t]) /\ rows' \in [Tweets -> SUBSET Rows] /\ posts' \in [Tweets -> Nat]
  BY <1>1, Unwritten
<1>3. t \notin undone => (posts[t] <= 1 /\ (posts[t] > 0 => Settled(sessions[t])))
  BY DEF IInv, OnceInv, OnceOf
<1>4. NoSession \in Sessions /\ TriesOf(NoSession) /\ "loop" \notin HandPcs
  BY NoSessionFacts DEF HandPcs, WritePcs
<1> QED
  BY <1>1, <1>2, <1>3, <1>4, LoopKeeps DEF Back, HandPcs, WritePcs

LEMMA AutoLikeKeeps ==
    ASSUME IInv, NEW t \in Tweets, AutoLike(t)
    PROVE  IInv'
<1> DEFINE c == [open[t] EXCEPT !.status = "posted", !.phase = "posted_like"]
<1>1. /\ Take(t) /\ Hold("liked", t, c) /\ UNCHANGED <<sessions, rows, posts, cards>>
      /\ LoopUnchanged
  BY DEF AutoLike
<1>2. c \in Sessions /\ c.status = "posted" /\ c.phase = "posted_like"
  BY <1>1, VisitFacts DEF Sessions, Statuses, Phases
<1> HIDE DEF c
<1>3. TriesOf(c) /\ "liked" \in HandPcs \ CardPcs
  BY <1>2 DEF TriesOf, IsOpen, HandPcs, WritePcs, CardPcs
<1> QED
  BY <1>1, <1>2, <1>3, VisitFacts, Unwritten, MoveKeeps

LEMMA AutoLikeFailsKeeps ==
    ASSUME IInv, NEW t \in Tweets, AutoLikeFails(t)
    PROVE  IInv'
<1>1. Take(t) /\ Back(t) /\ UNCHANGED <<sessions, rows, posts, cards>> /\ LoopUnchanged
  BY DEF AutoLikeFails
<1> QED
  BY <1>1, VisitFacts, Unwritten, LeaveKeeps

\* In the places where a tweet is in hand, and where it is neither shown yet nor
\* about to be written.
LEMMA HandFacts ==
    ASSUME IInv, pc \in HandPcs
    PROVE  /\ hand \in Tweets \ todo /\ TypeOK
           /\ open[hand] \in Sessions /\ IsOpen(open[hand]) /\ TriesOf(open[hand])
           /\ sessions[hand] \in Sessions /\ TriesOf(sessions[hand])
           /\ copy \in Sessions /\ TriesOf(copy)
           /\ posts[hand] \in Nat /\ cards[hand] \in Int /\ inputs \in 0 .. MaxInputs
           /\ hand \notin undone => posts[hand] <= 1 /\ cards[hand] <= 1
           /\ pc \notin CardPcs /\ hand \notin undone => cards[hand] <= 0
           /\ pc \in {"asking", "judging", "card"} /\ hand \notin undone => posts[hand] = 0
           /\ todo = todo \ {hand}
           /\ NoSession \in Sessions /\ TriesOf(NoSession)
<1>1. TypeOK
  BY DEF IInv
<1>2. hand \in Tweets \ todo /\ IsOpen(open[hand])
  BY DEF IInv, PlaceInv
<1>3. /\ hand \notin undone => posts[hand] <= 1 /\ cards[hand] <= 1
      /\ pc \notin CardPcs /\ hand \notin undone => cards[hand] <= 0
      /\ pc \in {"asking", "judging", "card"} /\ hand \notin undone => posts[hand] = 0
  BY <1>2 DEF IInv, OnceInv, OnceOf
<1> QED
  BY <1>1, <1>2, <1>3, Types, NoSessionFacts DEF IInv, TriesInv

\* A card for tweet t, from the loop or at its end, with the session s.
LEMMA CardKeeps ==
    ASSUME IInv, NEW t \in Tweets,
           (pc = "loop" /\ t \in todo) \/ (pc \in HandPcs /\ t = hand),
           t \notin undone => posts[t] <= 1 /\ cards[t] <= 0,
           NEW row \in Rows, NEW at \in CardPcs, NEW s \in Sessions, s.status = "posted",
           s.phase \in {"open", "pending"}, Card(t, row, at, s)
    PROVE  IInv'
<1>1. TypeOK /\ sessions[t] \in Sessions /\ TriesOf(sessions[t]) /\ TriesOf(s)
  BY Types DEF IInv, TriesInv, TriesOf, IsOpen
<1>2. /\ Hold(at, t, s) /\ LoopLeaves /\ Put(t, sessions[t]) /\ undone' = undone
      /\ inputs' \in 0 .. MaxInputs /\ posts' = posts /\ posts' \in [Tweets -> Nat]
  BY <1>1, Unwritten DEF Card
<1>3. rows' \in [Tweets -> SUBSET Rows]
  BY <1>1, Types DEF Card
<1>4. /\ cards' \in [Tweets -> Int] /\ \A u \in Tweets \ {t} : cards'[u] = cards[u]
      /\ t \notin undone => cards'[t] <= 1
  BY <1>1, Types DEF Card
<1>5. at \in HandPcs \cap WritePcs /\ at \notin {"asking", "judging", "card", "fallback", "loop"}
  BY DEF HandPcs, WritePcs, CardPcs
<1>6. t \notin undone => (posts[t] > 0 => Settled(sessions[t]))
  BY DEF IInv, OnceInv, OnceOf
<1> QED
  BY <1>1, <1>2, <1>3, <1>4, <1>5, <1>6, LoopKeeps DEF Hold

\* A failure is counted, of a session b that is open: less than MaxAttempts of them.
LEMMA FailedFacts ==
    ASSUME NEW b \in Sessions, IsOpen(b), TriesOf(b)
    PROVE  Failed(b) \in Sessions /\ TriesOf(Failed(b)) /\ Failed(b).status # "none"
<1> DEFINE n == b.fails + 1
           gone == [b EXCEPT !.status = "open", !.phase = "operator_escalated", !.fails = n]
           again == [b EXCEPT !.status = "open", !.fails = n, !.wait = Cooldown]
<1>1. n \in 0 .. MaxAttempts /\ b.fails \in Nat
  BY Bounds, FieldTypes DEF TriesOf
<1>2. Cooldown \in 0 .. Cooldown
  BY Bounds
<1>3. Failed(b) = IF n >= MaxAttempts THEN gone ELSE again
  BY DEF Failed, Sessions
<1> HIDE DEF n
<1>4. /\ gone \in Sessions /\ gone.status = "open" /\ gone.phase = "operator_escalated"
      /\ gone.fails = n
  BY <1>1 DEF Sessions, Statuses, Phases
<1>5. again \in Sessions /\ again.status = "open" /\ again.phase = b.phase /\ again.fails = n
  BY <1>1, <1>2 DEF Sessions, Statuses
<1>6. b.phase = "open"
  BY DEF IsOpen
<1> HIDE DEF gone, again
<1> QED
  BY <1>1, <1>3, <1>4, <1>5, <1>6, Bounds DEF TriesOf, IsOpen

LEMMA RecordKeeps ==
    ASSUME IInv, NEW t \in Tweets,
           (pc = "loop" /\ t \in todo) \/ (pc \in HandPcs /\ t = hand),
           cards' \in [Tweets -> Int], \A u \in Tweets \ {t} : cards'[u] = cards[u],
           t \notin undone => cards'[t] <= 0,
           NEW b \in Sessions, IsOpen(b), TriesOf(b), RecordFailure(t, b),
           inputs' \in 0 .. MaxInputs
    PROVE  IInv'
<1>1. TypeOK /\ posts[t] \in Nat
  BY Types DEF IInv
<1>2. /\ Put(t, Failed(b)) /\ Back(t) /\ UNCHANGED <<rows, posts>> /\ LoopLeaves
      /\ undone' = undone \/ undone' = undone \cup {t}
      /\ t \notin undone' => t \notin undone /\ posts[t] = 0
  BY <1>1 DEF RecordFailure
<1>3. Failed(b) \in Sessions /\ TriesOf(Failed(b)) /\ Failed(b).status # "none"
  BY FailedFacts
<1>4. /\ rows' \in [Tweets -> SUBSET Rows] /\ posts' \in [Tweets -> Nat]
  BY <1>1, <1>2, Unwritten
<1>5. NoSession \in Sessions /\ TriesOf(NoSession) /\ "loop" \notin HandPcs
  BY NoSessionFacts DEF HandPcs, WritePcs
<1>6. t \notin undone' => cards'[t] <= 0 /\ cards'[t] \in Int /\ posts'[t] = 0
  BY <1>2
<1> QED
  BY <1>1, <1>2, <1>3, <1>4, <1>5, <1>6, LoopKeeps DEF Back, HandPcs, WritePcs

LEMMA CardFailsKeeps ==
    ASSUME IInv, NEW t \in Tweets,
           (pc = "loop" /\ t \in todo) \/ (pc \in HandPcs /\ t = hand),
           t \notin undone => cards[t] <= 0,
           NEW b \in Sessions, IsOpen(b), TriesOf(b), CardFails(t, b)
    PROVE  IInv'
<1>1. TypeOK
  BY DEF IInv
<1>2. /\ RecordFailure(t, b) /\ UNCHANGED <<cards, inputs>>
      /\ cards' \in [Tweets -> Int] /\ inputs' \in 0 .. MaxInputs
  BY <1>1, Types DEF CardFails
<1> QED
  BY <1>2, RecordKeeps

LEMMA TooSoonKeeps ==
    ASSUME IInv, NEW t \in Tweets,
           (pc = "loop" /\ t \in todo) \/ (pc \in HandPcs /\ t = hand),
           t \notin undone => cards[t] <= 0, TooSoon(t)
    PROVE  IInv'
<1>1. TypeOK
  BY DEF IInv
<1>2. /\ Back(t) /\ UNCHANGED <<sessions, rows, posts, cards, undone>> /\ LoopLeaves
      /\ cards' \in [Tweets -> Int] /\ inputs' \in 0 .. MaxInputs /\ cards[t] \in Int
  BY <1>1, Types, Unwritten DEF TooSoon
<1> QED
  BY <1>2, LeaveKeeps

LEMMA LikeCardKeeps ==
    ASSUME IInv, NEW t \in Tweets, LikeCard(t)
    PROVE  IInv'
<1> DEFINE s == [open[t] EXCEPT !.status = "posted"]
<1>1. Take(t) /\ (Card(t, "like", "carded", s) \/ CardFails(t, open[t]) \/ TooSoon(t))
  BY DEF LikeCard
<1>2. /\ s \in Sessions /\ s.status = "posted" /\ s.phase = "open" /\ "like" \in Rows
      /\ "carded" \in CardPcs
  BY <1>1, VisitFacts DEF Sessions, Statuses, Rows, CardPcs
<1> HIDE DEF s
<1>3. CASE Card(t, "like", "carded", s)
  BY <1>1, <1>2, <1>3, VisitFacts, CardKeeps
<1>4. CASE CardFails(t, open[t])
  BY <1>1, <1>4, VisitFacts, CardFailsKeeps
<1>5. CASE TooSoon(t)
  BY <1>1, <1>5, VisitFacts, TooSoonKeeps
<1> QED
  BY <1>1, <1>3, <1>4, <1>5

LEMMA EnsureDraftKeeps ==
    ASSUME IInv, NEW t \in Tweets, EnsureDraft(t)
    PROVE  IInv'
<1> DEFINE s == [open[t] EXCEPT !.phase = "pending"]
<1>1. /\ Take(t) /\ Put(t, s) /\ Hold("judging", t, NoSession) /\ UNCHANGED <<rows, posts, cards>>
      /\ LoopUnchanged
  BY DEF EnsureDraft
<1>2. s \in Sessions /\ s.status = "open" /\ s.phase = "pending"
  BY <1>1, VisitFacts DEF Sessions, Phases
<1> HIDE DEF s
<1>3. TriesOf(s) /\ Settled(s)
  BY <1>2 DEF TriesOf, IsOpen, Settled
<1>4. /\ TypeOK /\ LoopLeaves /\ undone' = undone /\ inputs' \in 0 .. MaxInputs
      /\ rows' \in [Tweets -> SUBSET Rows] /\ posts' \in [Tweets -> Nat]
      /\ cards' \in [Tweets -> Int]
  BY <1>1, VisitFacts, Unwritten
<1> QED
  BY <1>1, <1>2, <1>3, <1>4, VisitFacts, LoopKeeps DEF Hold, HandPcs, WritePcs

LEMMA AskDraftKeeps ==
    ASSUME IInv, NEW t \in Tweets, AskDraft(t) \/ AskMissing(t)
    PROVE  IInv'
<1>1. /\ Take(t) /\ UNCHANGED <<sessions, rows, posts, cards>> /\ LoopUnchanged
      /\ \/ Hold("asking", t, sessions[t]) /\ sessions[t].status # "none"
         \/ Hold("fallback", t, open[t])
  BY DEF AskDraft, AskMissing
<1>2. /\ undone' = undone /\ LoopLeaves /\ inputs' \in 0 .. MaxInputs
      /\ {"asking", "fallback"} \subseteq HandPcs \ CardPcs
  BY <1>1, VisitFacts, Unwritten DEF HandPcs, CardPcs
<1>3. CASE Hold("asking", t, sessions[t]) /\ sessions[t].status # "none"
  BY <1>1, <1>2, <1>3, VisitFacts, MoveKeeps DEF WritePcs
<1>4. CASE Hold("fallback", t, open[t])
  BY <1>1, <1>2, <1>4, VisitFacts, MoveKeeps DEF WritePcs
<1> QED
  BY <1>1, <1>3, <1>4

LEMMA AskSucceedsKeeps ==
    ASSUME IInv, AskSucceeds
    PROVE  IInv'
<1> DEFINE s == [copy EXCEPT !.action = "draft", !.phase = "pending", !.text = TRUE]
<1>1. /\ pc = "asking" /\ pc \in HandPcs /\ Put(hand, s) /\ Hold("judging", hand, NoSession)
      /\ UNCHANGED <<rows, posts, cards>> /\ LoopUnchanged
  BY DEF AskSucceeds, HandPcs
<1>2. s \in Sessions /\ s.status # "none" /\ s.phase = "pending"
  BY <1>1, HandFacts DEF Sessions, Phases, Actions, IInv, PlaceInv
<1> HIDE DEF s
<1>3. TriesOf(s) /\ Settled(s)
  BY <1>2 DEF TriesOf, IsOpen, Settled
<1>4. /\ TypeOK /\ LoopLeaves /\ undone' = undone /\ inputs' \in 0 .. MaxInputs
      /\ rows' \in [Tweets -> SUBSET Rows] /\ posts' \in [Tweets -> Nat]
      /\ cards' \in [Tweets -> Int]
  BY <1>1, HandFacts, Unwritten
<1>5. pc \notin CardPcs
  BY <1>1 DEF CardPcs
<1> QED
  BY <1>1, <1>2, <1>3, <1>4, <1>5, HandFacts, LoopKeeps DEF Hold, HandPcs, WritePcs

LEMMA AskFailsKeeps ==
    ASSUME IInv, AskFails
    PROVE  IInv'
<1> DEFINE s == [copy EXCEPT !.phase = "error", !.status = "error"]
<1>1. /\ pc = "asking" /\ pc \in HandPcs /\ Put(hand, s) /\ Hold("fallback", hand, open[hand])
      /\ UNCHANGED <<rows, posts, cards>> /\ LoopUnchanged
  BY DEF AskFails, HandPcs
<1>2. s \in Sessions /\ s.status = "error" /\ s.phase = "error"
  BY <1>1, HandFacts DEF Sessions, Phases, Statuses
<1> HIDE DEF s
<1>3. TriesOf(s) /\ Settled(s)
  BY <1>2 DEF TriesOf, IsOpen, Settled
<1>4. /\ TypeOK /\ LoopLeaves /\ undone' = undone /\ inputs' \in 0 .. MaxInputs
      /\ rows' \in [Tweets -> SUBSET Rows] /\ posts' \in [Tweets -> Nat]
      /\ cards' \in [Tweets -> Int]
  BY <1>1, HandFacts, Unwritten
<1>5. pc \notin CardPcs
  BY <1>1 DEF CardPcs
<1> QED
  BY <1>1, <1>2, <1>3, <1>4, <1>5, HandFacts, LoopKeeps DEF Hold, HandPcs, WritePcs

LEMMA PostOnXKeeps ==
    ASSUME IInv, PostOnX
    PROVE  IInv'
<1> DEFINE c == [WithDraft(open[hand]) EXCEPT !.status = "posted", !.phase = "scheduled"]
<1>1. /\ pc = "judging" /\ pc \in HandPcs /\ Hold("posted", hand, c)
      /\ posts' = [posts EXCEPT ![hand] = @ + 1]
      /\ UNCHANGED <<sessions, rows, cards>> /\ LoopUnchanged
  BY DEF PostOnX, HandPcs
<1>2. c \in Sessions /\ c.status = "posted" /\ c.phase = "scheduled"
  BY <1>1, HandFacts DEF Sessions, Phases, Statuses, WithDraft
<1> HIDE DEF c
<1>3. TriesOf(c)
  BY <1>2 DEF TriesOf, IsOpen
<1>4. /\ posts' \in [Tweets -> Nat] /\ \A u \in Tweets \ {hand} : posts'[u] = posts[u]
      /\ hand \notin undone => posts'[hand] = 1
  BY <1>1, HandFacts, Types
<1>5. /\ TypeOK /\ LoopLeaves /\ undone' = undone /\ inputs' \in 0 .. MaxInputs
      /\ rows' \in [Tweets -> SUBSET Rows] /\ cards' \in [Tweets -> Int]
      /\ Put(hand, sessions[hand])
  BY <1>1, HandFacts, Unwritten
<1>6. hand \notin undone => Settled(sessions[hand])
  BY <1>1 DEF IInv, PlaceInv
<1>7. pc \notin CardPcs
  BY <1>1 DEF CardPcs
<1> QED
  BY <1>1, <1>2, <1>3, <1>4, <1>5, <1>6, <1>7, HandFacts, LoopKeeps DEF Hold, HandPcs, WritePcs

LEMMA DraftFacts ==
    ASSUME NEW s \in Sessions, IsOpen(s), TriesOf(s), NEW b \in BOOLEAN
    PROVE  /\ WithDraft(s) \in Sessions /\ IsOpen(WithDraft(s)) /\ TriesOf(WithDraft(s))
           /\ [s EXCEPT !.text = b] \in Sessions /\ IsOpen([s EXCEPT !.text = b])
           /\ TriesOf([s EXCEPT !.text = b])
<1> DEFINE c(x) == [s EXCEPT !.text = x]
<1>1. ASSUME NEW x \in BOOLEAN
      PROVE  /\ c(x) \in Sessions /\ c(x).status = s.status /\ c(x).phase = s.phase
             /\ c(x).fails = s.fails
  BY DEF Sessions
<1>2. WithDraft(s) = c(TRUE) /\ [s EXCEPT !.text = b] = c(b)
  BY DEF WithDraft
<1> HIDE DEF c
<1> QED
  BY <1>1, <1>2 DEF IsOpen, TriesOf

LEMMA JudgedKeeps ==
    ASSUME IInv, Judged
    PROVE  IInv'
<1> DEFINE c == WithDraft(open[hand])
<1>1. /\ pc = "judging" /\ pc \in HandPcs /\ pc \notin CardPcs
      /\ UNCHANGED <<sessions, rows, posts, cards>> /\ LoopUnchanged
  BY DEF Judged, HandPcs, CardPcs
<1>2. PICK at \in {"card", "fallback"} : Hold(at, hand, c)
  BY DEF Judged
<1>3. c \in Sessions /\ TriesOf(c) /\ IsOpen(c)
  BY <1>1, HandFacts, DraftFacts
<1> HIDE DEF c
<1>4. /\ undone' = undone /\ LoopLeaves /\ inputs' \in 0 .. MaxInputs
      /\ at \in HandPcs \ CardPcs /\ at \notin WritePcs /\ at # "asking" /\ at # "judging"
  BY <1>1, HandFacts, Unwritten DEF HandPcs, CardPcs, WritePcs
<1> QED
  BY <1>1, <1>2, <1>3, <1>4, HandFacts, MoveKeeps

LEMMA DraftCardKeeps ==
    ASSUME IInv, DraftCard
    PROVE  IInv'
<1> DEFINE s == [copy EXCEPT !.status = "posted", !.phase = "pending"]
<1>1. /\ pc \in {"card", "fallback"} /\ pc \in HandPcs /\ pc \notin CardPcs
      /\ \/ Card(hand, "draft", "carded", s) \/ Card(hand, "draft", "fallen", s)
         \/ CardFails(hand, copy) \/ CardFails(hand, open[hand]) \/ TooSoon(hand)
  BY DEF DraftCard, HandPcs, CardPcs
<1>2. /\ s \in Sessions /\ s.status = "posted" /\ s.phase = "pending" /\ "draft" \in Rows
      /\ {"carded", "fallen"} \subseteq CardPcs
  BY <1>1, HandFacts DEF Sessions, Statuses, Phases, Rows, CardPcs
<1> HIDE DEF s
<1>3. IsOpen(copy)
  BY <1>1 DEF IInv, PlaceInv
<1>4. ASSUME NEW at \in CardPcs, Card(hand, "draft", at, s)
      PROVE  IInv'
  BY <1>1, <1>2, <1>4, HandFacts, CardKeeps
<1>5. CASE CardFails(hand, copy)
  BY <1>1, <1>3, <1>5, HandFacts, CardFailsKeeps
<1>6. CASE CardFails(hand, open[hand])
  BY <1>1, <1>6, HandFacts, CardFailsKeeps
<1>7. CASE TooSoon(hand)
  BY <1>1, <1>7, HandFacts, TooSoonKeeps
<1> QED
  BY <1>1, <1>2, <1>4, <1>5, <1>6, <1>7

LEMMA WriteSessionKeeps ==
    ASSUME IInv, WriteSession
    PROVE  IInv'
<1>1. /\ pc \in WritePcs /\ pc \in HandPcs /\ Put(hand, copy) /\ Back(hand)
      /\ UNCHANGED <<rows, posts, cards>> /\ LoopUnchanged
  BY DEF WriteSession, HandPcs, WritePcs
<1>2. copy.status = "posted"
  BY <1>1 DEF IInv, PlaceInv
<1>3. Settled(copy)
  BY <1>2 DEF IsOpen, Settled
<1>4. /\ TypeOK /\ LoopLeaves /\ undone' = undone /\ inputs' \in 0 .. MaxInputs
      /\ rows' \in [Tweets -> SUBSET Rows] /\ posts' \in [Tweets -> Nat]
      /\ cards' \in [Tweets -> Int]
  BY <1>1, HandFacts, Unwritten
<1> QED
  BY <1>1, <1>2, <1>3, <1>4, HandFacts, LoopKeeps DEF Back, HandPcs, WritePcs

-----------------------------------------------------------------------------
(* Writes that throw.                                                       *)

LEMMA CaughtKeeps ==
    ASSUME IInv, NEW t \in Tweets, (pc = "loop" /\ t \in todo) \/ (pc \in HandPcs \ CardPcs /\ t = hand),
           NEW c \in Sessions, IsOpen(c), TriesOf(c), Caught(t, c),
           UNCHANGED <<sessions, rows, posts, cards, undone>>, LoopLeaves,
           inputs' \in 0 .. MaxInputs
    PROVE  IInv'
<1>1. TypeOK
  BY DEF IInv
<1>2. t \notin undone => posts[t] <= 1 /\ cards[t] <= 0 /\ cards[t] \in Int
  <2>1. posts[t] \in Nat /\ cards[t] \in Int
    BY <1>1, Types
  <2>2. t \notin undone => OnceOf(t)
    BY DEF IInv, OnceInv
  <2>3. t \notin undone => cards[t] <= 0
    BY <2>1, <2>2 DEF IInv, OnceInv, OnceOf
  <2> QED
    BY <2>1, <2>2, <2>3 DEF OnceOf
<1>3. CASE Back(t)
  BY <1>1, <1>2, <1>3, Types, LeaveKeeps
<1>4. CASE Hold("fallback", t, c)
  <2>1. "fallback" \in HandPcs \ CardPcs
    BY DEF HandPcs, CardPcs
  <2> QED
    BY <1>2, <1>4, <2>1, MoveKeeps DEF WritePcs
<1> QED
  BY <1>3, <1>4 DEF Caught

LEMMA InputBound ==
    ASSUME TypeOK, Input
    PROVE  inputs' \in 0 .. MaxInputs
BY Bounds DEF TypeOK, Input, Left

LEMMA WriteThrowsKeeps ==
    ASSUME IInv, WriteThrows
    PROVE  IInv'
<1>1. /\ TypeOK /\ inputs' \in 0 .. MaxInputs
      /\ UNCHANGED <<sessions, rows, posts, cards, undone>> /\ LoopLeaves
  BY InputBound DEF WriteThrows, IInv
<1>2. ASSUME pc \in HandPcs \ CardPcs, NEW c \in {open[hand], WithDraft(open[hand]), copy},
             c = copy => pc = "card" \/ c \in {open[hand], WithDraft(open[hand])},
             Caught(hand, c)
      PROVE  IInv'
  <2>1. pc = "card" => IsOpen(copy)
    BY DEF IInv, PlaceInv
  <2>2. c \in Sessions /\ IsOpen(c) /\ TriesOf(c)
    BY <1>2, <2>1, HandFacts, DraftFacts
  <2> QED
    BY <1>1, <1>2, <2>2, HandFacts, CaughtKeeps
<1>3. ASSUME NEW t \in Tweets, Take(t), Caught(t, open[t])
      PROVE  IInv'
  BY <1>1, <1>3, VisitFacts, CaughtKeeps
<1>4. {"liked", "asking", "posted", "card"} \subseteq HandPcs \ CardPcs
  BY DEF HandPcs, CardPcs, WritePcs
<1> QED
  BY <1>2, <1>3, <1>4 DEF WriteThrows

LEMMA CardForgottenKeeps ==
    ASSUME IInv, CardForgotten
    PROVE  IInv'
<1> DEFINE read == IF pc = "fallen" THEN open[hand] ELSE [open[hand] EXCEPT !.text = copy.text]
<1>1. /\ TypeOK /\ inputs' \in 0 .. MaxInputs /\ pc \in CardPcs /\ pc \in HandPcs
      /\ cards' = [cards EXCEPT ![hand] = @ - 1]
      /\ \/ RecordFailure(hand, read)
         \/ /\ Caught(hand, read)
            /\ UNCHANGED <<sessions, rows, posts, undone>> /\ LoopLeaves
  BY InputBound DEF CardForgotten, IInv, CardPcs, HandPcs, WritePcs
<1>2. read \in Sessions /\ IsOpen(read) /\ TriesOf(read)
  <2>1. copy.text \in BOOLEAN
    BY <1>1, HandFacts, FieldTypes
  <2> QED
    BY <1>1, <2>1, HandFacts, DraftFacts
<1> HIDE DEF read
<1>3. /\ cards' \in [Tweets -> Int] /\ \A u \in Tweets \ {hand} : cards'[u] = cards[u]
      /\ cards'[hand] = cards[hand] - 1 /\ cards[hand] \in Int
      /\ hand \notin undone => cards'[hand] <= 0
  BY <1>1, HandFacts, Types
<1>4. CASE RecordFailure(hand, read)
  BY <1>1, <1>2, <1>3, <1>4, HandFacts, RecordKeeps
<1>5. CASE /\ Caught(hand, read)
           /\ UNCHANGED <<sessions, rows, posts, undone>> /\ LoopLeaves
  <2>1. CASE Back(hand)
    BY <1>1, <1>3, <1>5, <2>1, HandFacts, LeaveKeeps
  <2>2. CASE Hold("fallback", hand, read)
    <3>1. /\ TypeOK /\ Put(hand, sessions[hand]) /\ rows' \in [Tweets -> SUBSET Rows]
          /\ posts' \in [Tweets -> Nat]
      BY <1>1, <1>5, HandFacts, Unwritten
    <3>2. hand \notin undone => (posts[hand] > 0 => Settled(sessions[hand]))
      BY <1>1, HandFacts DEF IInv, OnceInv, OnceOf
    <3> QED
      BY <1>1, <1>2, <1>3, <1>5, <2>2, <3>1, <3>2, HandFacts, LoopKeeps DEF Hold, HandPcs, WritePcs
  <2> QED
    BY <1>5, <2>1, <2>2 DEF Caught
<1> QED
  BY <1>1, <1>4, <1>5

-----------------------------------------------------------------------------
(* The buttons.                                                             *)

\* A press writes a session that is not open: whatever copy it read, the cron
\* does not visit the tweet again.
LEMMA PressKeeps ==
    ASSUME IInv, NEW t \in Tweets,
           NEW s \in Sessions, TriesOf(s), Settled(s), Put(t, s),
           BotUnchanged, inputs' \in 0 .. MaxInputs,
           rows' \in [Tweets -> SUBSET Rows],
           press' \in [Presses -> [pc : PressPcs, tweet : Tweets \cup {NoTweet}, read : Sessions]],
           \A p \in Presses : press'[p] \in {press[p], Free}
    PROVE  IInv'
<1>1. TypeOK
  BY DEF IInv
<1>2. /\ \A u \in Tweets : sessions'[u] = IF u = t THEN s ELSE sessions[u]
      /\ sessions' \in [Tweets -> Sessions]
  BY <1>1, PutSets
<1>3. UNCHANGED <<cursor, older, pc, mode, found, high, open, todo, hand, copy, level, tweeted,
                  posts, cards, undone, passed, lost>>
  BY DEF BotUnchanged, cron
<1>4. \A p \in Presses : press'[p] = press[p] \/ press'[p] = Free
  OBVIOUS
<1>5. Free.pc = "free" /\ Free.read = NoSession
  BY DEF Free
<1>6. TypeOK'
  BY <1>1, <1>2, <1>3 DEF TypeOK
<1>7. TriesInv'
  BY <1>2, <1>3, <1>4, <1>5, NoSessionFacts DEF IInv, TriesInv
<1>8. PlaceInv'
  <2>1. pc = "judging" => Settled(sessions'[hand]) \/ hand \in undone
    BY <1>2 DEF IInv, PlaceInv, HandPcs
  <2> QED
    BY <1>3, <2>1 DEF IInv, PlaceInv
<1>9. PressInv'
  BY <1>4, <1>5 DEF IInv, PressInv
<1>10. OnceInv'
  <2>1. ASSUME NEW u \in Tweets \ undone
        PROVE  OnceOf(u)'
    <3>1. OnceOf(u)
      BY DEF IInv, OnceInv
    <3>2. Settled(sessions[u]) => Settled(sessions'[u])
      BY <1>2
    <3> QED
      BY <1>3, <3>1, <3>2 DEF OnceOf, Shown
  <2> QED
    BY <1>3, <2>1 DEF IInv, OnceInv
<1>11. ComingInv'
  BY <1>3 DEF IInv, ComingInv
<1>12. CursorPassesOnlyKept'
  <2>1. 1 .. cursor \subseteq Tweets
    BY <1>1, Bounds DEF TypeOK, Tweets
  <2>2. \A u \in Tweets : sessions[u].status # "none" => sessions'[u].status # "none"
    BY <1>2 DEF Settled
  <2> QED
    BY <2>1, <2>2, <1>3 DEF IInv, CursorPassesOnlyKept
<1> QED
  BY <1>6, <1>7, <1>8, <1>9, <1>10, <1>11, <1>12 DEF IInv

LEMMA ReadFacts ==
    ASSUME IInv, NEW p \in Presses, press[p].pc # "free"
    PROVE  /\ TypeOK /\ press[p].tweet \in Tweets
           /\ press[p].read \in Sessions /\ press[p].read.status # "none"
           /\ inputs \in 0 .. MaxInputs
           /\ rows \in [Tweets -> SUBSET Rows]
BY Types DEF IInv, PressInv, TypeOK

LEMMA FreeTyped ==
    ASSUME TypeOK, NEW p \in Presses, press' = [press EXCEPT ![p] = Free]
    PROVE  /\ press' \in [Presses -> [pc : PressPcs, tweet : Tweets \cup {NoTweet},
                                      read : Sessions]]
           /\ \A q \in Presses : press'[q] \in {press[q], Free}
<1>1. Free \in [pc : PressPcs, tweet : Tweets \cup {NoTweet}, read : Sessions]
  BY NoSessionFacts DEF Free, PressPcs
<1> QED
  BY <1>1, Types

\* The four ends of a press differ in what they write.
LEMMA FinishKeeps ==
    ASSUME IInv, NEW p \in Presses, press[p].pc # "free",
           NEW s \in Sessions, s.phase \notin {"open", "operator_escalated"}, s.status # "none",
           Finish(p, s),
           rows' = rows \/ rows' = [rows EXCEPT ![press[p].tweet] = @ \cup {"draft"}]
    PROVE  IInv'
<1>1. TriesOf(s) /\ Settled(s)
  BY DEF TriesOf, IsOpen, Settled
<1>2. /\ press' = [press EXCEPT ![p] = Free] /\ Put(press[p].tweet, s)
      /\ inputs' = inputs /\ BotUnchanged
  BY DEF Finish
<1>3. "draft" \in Rows
  BY DEF Rows
<1>4. rows' \in [Tweets -> SUBSET Rows]
  BY <1>3, ReadFacts
<1> QED
  BY <1>1, <1>2, <1>4, ReadFacts, FreeTyped, PressKeeps

LEMMA LikedKeeps ==
    ASSUME IInv, NEW p \in Presses, Liked(p)
    PROVE  IInv'
<1> DEFINE s == [press[p].read EXCEPT !.action = "like", !.phase = "posted_like",
                                      !.status = "posted"]
<1>1. press[p].pc # "free" /\ Finish(p, s) /\ rows' = rows
  BY DEF Liked
<1>2. s \in Sessions /\ s.phase = "posted_like" /\ s.status = "posted"
  BY <1>1, ReadFacts DEF Sessions, Actions, Phases, Statuses
<1> HIDE DEF s
<1> QED
  BY <1>1, <1>2, FinishKeeps

LEMMA SuggestedKeeps ==
    ASSUME IInv, NEW p \in Presses, Suggested(p)
    PROVE  IInv'
<1> DEFINE s == [press[p].read EXCEPT !.action = "draft", !.phase = "pending", !.text = TRUE]
<1>1. /\ press[p].pc # "free" /\ Finish(p, s)
      /\ rows' = [rows EXCEPT ![press[p].tweet] = @ \cup {"draft"}]
  BY DEF Suggested
<1>2. s \in Sessions /\ s.phase = "pending" /\ s.status # "none"
  BY <1>1, ReadFacts DEF Sessions, Actions, Phases
<1> HIDE DEF s
<1> QED
  BY <1>1, <1>2, FinishKeeps

LEMMA SuggestFailsKeeps ==
    ASSUME IInv, NEW p \in Presses, SuggestFails(p)
    PROVE  IInv'
<1> DEFINE s == [press[p].read EXCEPT !.phase = "error", !.status = "error"]
<1>1. press[p].pc # "free" /\ Finish(p, s) /\ rows' = rows
  BY DEF SuggestFails
<1>2. s \in Sessions /\ s.phase = "error" /\ s.status = "error"
  BY <1>1, ReadFacts DEF Sessions, Phases, Statuses
<1> HIDE DEF s
<1> QED
  BY <1>1, <1>2, FinishKeeps

LEMMA ScheduledKeeps ==
    ASSUME IInv, NEW p \in Presses, Scheduled(p)
    PROVE  IInv'
<1> DEFINE s == [press[p].read EXCEPT !.action = "draft", !.phase = "scheduled", !.text = TRUE]
<1>1. press[p].pc # "free" /\ Finish(p, s) /\ rows' = rows
  BY DEF Scheduled
<1>2. s \in Sessions /\ s.phase = "scheduled" /\ s.status # "none"
  BY <1>1, ReadFacts DEF Sessions, Actions, Phases
<1> HIDE DEF s
<1> QED
  BY <1>1, <1>2, FinishKeeps

LEMMA PressSkipKeeps ==
    ASSUME IInv, NEW t \in Tweets, PressSkip(t)
    PROVE  IInv'
<1> DEFINE s == [sessions[t] EXCEPT !.action = "skip", !.phase = "skipped", !.status = "skipped"]
<1>1. /\ Input /\ Put(t, s) /\ BotUnchanged /\ press' = press /\ rows' = rows /\ TypeOK
  BY DEF PressSkip, IInv
<1>0. sessions[t] \in Sessions
  BY <1>1, Types
<1>2. s \in Sessions /\ s.phase = "skipped" /\ s.status = "skipped"
  BY <1>0 DEF Sessions, Actions, Phases, Statuses
<1> HIDE DEF s
<1>3. TriesOf(s) /\ Settled(s)
  BY <1>2 DEF TriesOf, IsOpen, Settled
<1>4. /\ inputs' \in 0 .. MaxInputs /\ rows \in [Tweets -> SUBSET Rows]
      /\ press \in [Presses -> [pc : PressPcs, tweet : Tweets \cup {NoTweet}, read : Sessions]]
  BY <1>1, InputBound, Types
<1> QED
  BY <1>1, <1>2, <1>3, <1>4, PressKeeps

\* A step of the surroundings, or a press that only begins or ends: cron, file and
\* channel stay.
LEMMA AroundKeeps ==
    ASSUME IInv, UNCHANGED <<sessions, cursor, older, rows, cron, posts, cards, undone, passed, lost>>,
           inputs' \in 0 .. MaxInputs, level' \in Levels, tweeted' \in 0 .. MaxTweets,
           press' \in [Presses -> [pc : PressPcs, tweet : Tweets \cup {NoTweet}, read : Sessions]],
           \A p \in Presses :
              /\ TriesOf(press'[p].read)
              /\ press'[p].pc # "free" => press'[p].tweet \in Tweets /\ press'[p].read.status # "none"
    PROVE  IInv'
<1>1. UNCHANGED <<pc, mode, found, high, open, todo, hand, copy>>
  BY DEF cron
<1>2. TypeOK'
  BY <1>1 DEF IInv, TypeOK
<1>3. TriesInv' /\ PlaceInv' /\ PressInv'
  BY <1>1 DEF IInv, TriesInv, PlaceInv, PressInv
<1>4. OnceInv'
  BY <1>1 DEF IInv, OnceInv, OnceOf, Shown
<1>5. ComingInv' /\ CursorPassesOnlyKept'
  BY <1>1 DEF IInv, ComingInv, CursorPassesOnlyKept
<1> QED
  BY <1>2, <1>3, <1>4, <1>5 DEF IInv

LEMMA PressTypes ==
    ASSUME IInv
    PROVE  /\ TypeOK /\ level \in Levels /\ tweeted \in 0 .. MaxTweets /\ inputs \in 0 .. MaxInputs
           /\ press \in [Presses -> [pc : PressPcs, tweet : Tweets \cup {NoTweet}, read : Sessions]]
           /\ \A p \in Presses :
                 /\ TriesOf(press[p].read)
                 /\ press[p].pc # "free" => press[p].tweet \in Tweets /\ press[p].read.status # "none"
BY DEF IInv, TypeOK, TriesInv, PressInv

LEMMA PressBeginsKeeps ==
    ASSUME IInv, NEW p \in Presses, NEW t \in Tweets,
           PressLike(p, t) \/ PressSuggest(p, t) \/ PressSchedule(p, t)
    PROVE  IInv'
<1>1. PICK at \in PressPcs : Press(p, t, at)
  BY DEF PressLike, PressSuggest, PressSchedule, PressPcs
<1>2. UNCHANGED <<sessions, rows>> /\ BotUnchanged
  BY DEF PressLike, PressSuggest, PressSchedule
<1> DEFINE r == [pc |-> at, tweet |-> t, read |-> sessions[t]]
<1>3. press' = [press EXCEPT ![p] = r] /\ Input /\ sessions[t].status # "none"
  BY <1>1 DEF Press
<1>4. /\ r \in [pc : PressPcs, tweet : Tweets \cup {NoTweet}, read : Sessions]
      /\ r.read = sessions[t] /\ r.tweet = t /\ TriesOf(sessions[t])
  BY PressTypes, Types DEF IInv, TriesInv
<1> HIDE DEF r
<1>5. \A q \in Presses : press'[q] = IF q = p THEN r ELSE press[q]
  BY <1>3, PressTypes
<1>6. /\ press' \in [Presses -> [pc : PressPcs, tweet : Tweets \cup {NoTweet}, read : Sessions]]
      /\ inputs' \in 0 .. MaxInputs
  BY <1>3, <1>4, PressTypes, InputBound
<1>7. ASSUME NEW q \in Presses
      PROVE  /\ TriesOf(press'[q].read)
             /\ press'[q].pc # "free" => press'[q].tweet \in Tweets /\ press'[q].read.status # "none"
  BY <1>3, <1>4, <1>5, PressTypes
<1> QED
  BY <1>2, <1>6, <1>7, PressTypes, AroundKeeps DEF BotUnchanged

LEMMA PressLostKeeps ==
    ASSUME IInv, NEW p \in Presses, PressLost(p)
    PROVE  IInv'
<1>1. /\ press' = [press EXCEPT ![p] = Free] /\ (UNCHANGED inputs \/ Input)
      /\ UNCHANGED <<file, cron, world>>
  BY DEF PressLost
<1>2. inputs' \in 0 .. MaxInputs
  BY <1>1, PressTypes, InputBound
<1>3. Free.pc = "free" /\ Free.read = NoSession /\ TriesOf(NoSession)
  BY NoSessionFacts DEF Free
<1>4. /\ press' \in [Presses -> [pc : PressPcs, tweet : Tweets \cup {NoTweet}, read : Sessions]]
      /\ \A q \in Presses : press'[q] = press[q] \/ press'[q] = Free
  BY <1>1, FreeTyped, PressTypes
<1>5. ASSUME NEW q \in Presses
      PROVE  /\ TriesOf(press'[q].read)
             /\ press'[q].pc # "free" => press'[q].tweet \in Tweets /\ press'[q].read.status # "none"
  BY <1>3, <1>4, PressTypes
<1> QED
  BY <1>1, <1>2, <1>4, <1>5, PressTypes, AroundKeeps DEF file, world

-----------------------------------------------------------------------------
(* Surroundings.                                                            *)

LEMMA TweetKeeps ==
    ASSUME IInv, Tweet
    PROVE  IInv'
<1>1. /\ UNCHANGED <<sessions, cursor, older, rows, cron, posts, cards, undone, passed, lost>>
      /\ UNCHANGED <<press, inputs, level>>
      /\ tweeted < MaxTweets /\ tweeted' = tweeted + 1
  BY DEF Tweet, file, bot
<1>2. tweeted' \in 0 .. MaxTweets
  BY <1>1, PressTypes, Bounds
<1> QED
  BY <1>1, <1>2, PressTypes, AroundKeeps

LEMMA SetLevelKeeps ==
    ASSUME IInv, SetLevel
    PROVE  IInv'
<1>1. /\ UNCHANGED <<sessions, cursor, older, rows, cron, posts, cards, undone, passed, lost>>
      /\ UNCHANGED <<press, tweeted>> /\ level' \in Levels
  BY DEF SetLevel, file, bot
<1>2. inputs' \in 0 .. MaxInputs
  BY InputBound, PressTypes DEF SetLevel
<1> QED
  BY <1>1, <1>2, PressTypes, AroundKeeps

\* The writer reads what the invariant says of the file ...
LEMMA LoadAllKeeps ==
    ASSUME IInv, LoadAll
    PROVE  IInv'
<1>1. /\ TypeOK
      /\ UNCHANGED <<sessions, cursor, pc, mode, found, high, open, todo, hand, copy, press, level,
                     tweeted, rows, posts, cards, undone, passed, lost>>
      /\ older' = [held |-> TRUE, sessions |-> sessions, cursor |-> cursor]
  BY DEF LoadAll, cron, bot, world, IInv
<1>2. TypeOK'
  <2>1. inputs' \in 0 .. MaxInputs
    BY <1>1, InputBound DEF LoadAll
  <2> QED
    BY <1>1, <2>1 DEF TypeOK
<1>3. TriesInv' /\ PlaceInv' /\ PressInv'
  BY <1>1 DEF IInv, TriesInv, PlaceInv, PressInv
<1>4. OnceInv'
  BY <1>1 DEF IInv, OnceInv, OnceOf, Shown
<1>5. ComingInv' /\ CursorPassesOnlyKept'
  BY <1>1, Types DEF IInv, ComingInv, CursorPassesOnlyKept, TypeOK
<1> QED
  BY <1>2, <1>3, <1>4, <1>5 DEF IInv

\* ... and what it brings back is open, or misses a tweet, only where the mark is
\* undone or the tweet lost.
LEMMA OverwriteKeeps ==
    ASSUME IInv, Overwrite
    PROVE  IInv'
<1>1. /\ TypeOK
      /\ UNCHANGED <<pc, mode, found, high, open, todo, hand, copy, press, level, tweeted, rows,
                     posts, cards, passed, inputs>>
      /\ sessions' = older.sessions /\ cursor' = older.cursor /\ older' = NotHeld
      /\ undone' = undone \cup {t \in Tweets : Settled(sessions[t]) /\ ~Settled(older.sessions[t])}
      /\ lost' = lost \cup {t \in 1 .. older.cursor :
                               sessions[t].status # "none" /\ older.sessions[t].status = "none"}
  BY DEF Overwrite, cron, bot, IInv
<1>2. /\ NotHeld.sessions = Blank /\ NotHeld.cursor = 0 /\ 0 \in 0 .. MaxTweets
      /\ NotHeld \in [held : BOOLEAN, sessions : [Tweets -> Sessions], cursor : 0 .. MaxTweets]
  BY NoSessionFacts, Bounds DEF NotHeld
<1>3. /\ older.cursor \in 0 .. MaxTweets /\ cursor \in 0 .. MaxTweets
      /\ older.cursor <= cursor /\ 1 .. older.cursor \subseteq Tweets
  BY <1>1, Bounds DEF TypeOK, IInv, ComingInv, Tweets
<1>4. TypeOK'
  <2>1. lost' \subseteq Tweets /\ undone' \subseteq Tweets
    BY <1>1, <1>3 DEF TypeOK
  <2> QED
    BY <1>1, <1>2, <2>1, Types DEF TypeOK
<1>5. TriesInv' /\ PressInv'
  BY <1>1, <1>2, NoSessionFacts DEF IInv, TriesInv, PressInv
<1>6. \A t \in Tweets \ undone' : Settled(sessions[t]) => Settled(sessions'[t])
  BY <1>1
<1>7. undone \subseteq undone' /\ lost \subseteq lost'
  BY <1>1
<1>8. PlaceInv'
  <2>1. pc = "judging" => Settled(sessions'[hand]) \/ hand \in undone'
    BY <1>6, <1>7 DEF IInv, PlaceInv, HandPcs
  <2> QED
    BY <1>1, <2>1 DEF IInv, PlaceInv
<1>9. OnceInv'
  <2>1. ASSUME NEW u \in Tweets \ undone'
        PROVE  OnceOf(u)'
    <3>1. OnceOf(u)
      BY <1>7 DEF IInv, OnceInv
    <3> QED
      BY <1>1, <1>6, <3>1 DEF OnceOf, Shown
  <2> QED
    BY <1>1, <1>7, <2>1 DEF IInv, OnceInv
<1>10. ComingInv'
  <2>1. older'.cursor <= cursor' /\ cursor' <= cursor
    BY <1>1, <1>2, <1>3
  <2>2. pc \in FoundPcs => cursor' <= high
    <3>1. high \in 0 .. MaxTweets
      BY <1>1 DEF TypeOK
    <3> QED
      BY <1>1, <1>3, <3>1 DEF IInv, ComingInv
  <2> QED
    BY <1>1, <1>7, <2>1, <2>2 DEF IInv, ComingInv
<1>11. CursorPassesOnlyKept'
  <2>1. ASSUME NEW t \in 1 .. older.cursor
        PROVE  \/ sessions'[t].status # "none"
               \/ pc = "advanced" /\ found[t].status # "none"
               \/ t \in passed \/ t \in lost'
    <3>1. t \in 1 .. cursor
      BY <1>3
    <3> QED
      BY <1>1, <3>1 DEF IInv, CursorPassesOnlyKept
  <2> QED
    BY <1>1, <2>1 DEF CursorPassesOnlyKept
<1> QED
  BY <1>4, <1>5, <1>8, <1>9, <1>10, <1>11 DEF IInv

\* Time changes no field the invariant looks at.
LEMMA TickKeeps ==
    ASSUME IInv, Tick
    PROVE  IInv'
<1> DEFINE Alike(r, s) == r.status = s.status /\ r.phase = s.phase /\ r.fails = s.fails
<1>1. /\ TypeOK
      /\ UNCHANGED <<cursor, pc, mode, high, todo, hand, level, tweeted, rows, posts, cards,
                     undone, passed, lost, inputs>>
      /\ sessions' = Aged(sessions) /\ found' = Aged(found) /\ open' = Aged(open)
      /\ copy' = Older(copy)
      /\ older' = [older EXCEPT !.sessions = Aged(older.sessions)]
      /\ press' = [p \in Presses |-> [press[p] EXCEPT !.read = Older(@)]]
  BY DEF Tick, world, IInv
<1>2. /\ \A t \in Tweets : /\ sessions'[t] = Older(sessions[t]) /\ found'[t] = Older(found[t])
                           /\ open'[t] = Older(open[t])
      /\ sessions' \in [Tweets -> Sessions] /\ found' \in [Tweets -> Sessions]
      /\ open' \in [Tweets -> Sessions] /\ copy' \in Sessions
  BY <1>1, Types, OlderFacts DEF Aged
<1>o. /\ older' \in [held : BOOLEAN, sessions : [Tweets -> Sessions], cursor : 0 .. MaxTweets]
      /\ older'.cursor = older.cursor
      /\ \A t \in Tweets : older'.sessions[t] = Older(older.sessions[t])
  <2>1. older \in [held : BOOLEAN, sessions : [Tweets -> Sessions], cursor : 0 .. MaxTweets]
    BY <1>1 DEF TypeOK
  <2>2. Aged(older.sessions) \in [Tweets -> Sessions]
    BY <2>1, OlderFacts DEF Aged
  <2>3. \A t \in Tweets : Aged(older.sessions)[t] = Older(older.sessions[t])
    BY DEF Aged
  <2> QED
    BY <1>1, <2>1, <2>2, <2>3
<1>3. /\ \A t \in Tweets : /\ Alike(sessions'[t], sessions[t]) /\ Alike(found'[t], found[t])
                           /\ Alike(open'[t], open[t])
                           /\ Alike(older'.sessions[t], older.sessions[t])
      /\ Alike(copy', copy)
  BY <1>1, <1>2, <1>o, Types, OlderFacts
<1>4. ASSUME NEW p \in Presses
      PROVE  /\ press'[p] \in [pc : PressPcs, tweet : Tweets \cup {NoTweet}, read : Sessions]
             /\ press'[p].pc = press[p].pc /\ press'[p].tweet = press[p].tweet
             /\ Alike(press'[p].read, press[p].read)
  <2>1. press[p].read \in Sessions
    BY <1>1, Types
  <2>2. press'[p] = [press[p] EXCEPT !.read = Older(press[p].read)]
    BY <1>1
  <2> QED
    BY <1>1, <2>1, <2>2, Types, OlderFacts
<1>5. press' \in [Presses -> [pc : PressPcs, tweet : Tweets \cup {NoTweet}, read : Sessions]]
  BY <1>1, <1>4
<1>6. TypeOK'
  BY <1>1, <1>2, <1>5, <1>o DEF TypeOK
<1>7. TriesInv'
  BY <1>3, <1>4 DEF IInv, TriesInv, TriesOf, IsOpen
<1>8. found = Blank => found' = Blank
  <2>1. Older(NoSession) = NoSession
    BY DEF Older, NoSession
  <2> QED
    BY <1>1, <2>1 DEF Aged, Blank
<1>9. todo \subseteq Tweets /\ (pc \in HandPcs => hand \in Tweets)
  BY <1>1, Types DEF IInv, PlaceInv
<1> HIDE DEF Alike
<1>10. /\ \A t \in Tweets : /\ Settled(sessions'[t]) <=> Settled(sessions[t])
                            /\ Settled(found'[t]) <=> Settled(found[t])
                            /\ IsOpen(open'[t]) <=> IsOpen(open[t])
                            /\ sessions'[t].status = sessions[t].status
                            /\ found'[t].status = found[t].status
       /\ IsOpen(copy') <=> IsOpen(copy)
       /\ copy'.status = copy.status
       /\ \A p \in Presses : press'[p].read.status = press[p].read.status
  BY <1>3, <1>4 DEF Alike, IsOpen, Settled
<1>11. PlaceInv'
  BY <1>1, <1>8, <1>9, <1>10 DEF IInv, PlaceInv, HandPcs
<1>12. PressInv'
  BY <1>4, <1>10 DEF IInv, PressInv
<1>13. OnceInv'
  <2>1. ASSUME NEW u \in Tweets \ undone
        PROVE  OnceOf(u)'
    <3>1. OnceOf(u)
      BY DEF IInv, OnceInv
    <3> QED
      BY <1>1, <1>10, <3>1 DEF OnceOf, Shown
  <2> QED
    BY <1>1, <2>1 DEF IInv, OnceInv
<1>14. ComingInv' /\ CursorPassesOnlyKept'
  <2>1. 1 .. cursor \subseteq Tweets /\ 1 .. high \subseteq Tweets
    BY <1>1, Bounds DEF TypeOK, Tweets
  <2> QED
    BY <1>1, <1>10, <1>o, <2>1 DEF IInv, ComingInv, CursorPassesOnlyKept
<1> QED
  BY <1>6, <1>7, <1>11, <1>12, <1>13, <1>14 DEF IInv

-----------------------------------------------------------------------------
(* Discovery.                                                               *)

\* A set of tweets that is not empty has a newest one.
LEMMA MaxIn ==
    ASSUME NEW n \in Nat, NEW S \in SUBSET (1 .. n), S # {}
    PROVE  Max(S) \in S /\ \A x \in S : x <= Max(S)
<1> DEFINE T == {n - x : x \in S}
<1>0. \A x \in S : x \in 1 .. n /\ n - x \in Nat
  OBVIOUS
<1>1. T \subseteq Nat /\ T # {}
  BY <1>0
<1>2. \E m \in T : \A y \in T : ~(<<y, m>> \in OpToRel(<, Nat))
  <2> HIDE DEF T
  <2> QED
    BY <1>1, WFMin, NatLessThanWellFounded
<1>3. PICK m \in T : \A y \in T : ~(y < m)
  BY <1>1, <1>2 DEF OpToRel
<1>4. PICK x \in S : m = n - x
  OBVIOUS
<1>5. ASSUME NEW y \in S
      PROVE  x >= y
  <2>1. n - y \in T
    OBVIOUS
  <2>2. ~(n - y < n - x)
    BY <2>1, <1>3, <1>4
  <2> QED
    BY <2>2
<1> QED
  BY <1>5 DEF Max

LEMMA OutcomeFacts ==
    ASSUME NEW s \in Outcomes
    PROVE  s \in Sessions /\ s.status # "none" /\ TriesOf(s)
<1>1. /\ 0 \in 0 .. MaxAttempts /\ 0 \in 0 .. Cooldown /\ 0 < MaxAttempts
  BY Bounds
<1> DEFINE fresh == [NoSession EXCEPT !.status = "open"]
           failed == [NoSession EXCEPT !.status = "error", !.phase = "error"]
           skip == [NoSession EXCEPT !.status = "skipped", !.phase = "skipped"]
           like == [NoSession EXCEPT !.status = "open", !.action = "like"]
           Fit(r) == /\ r \in Sessions /\ r.status # "none" /\ r.fails = 0
                     /\ r.phase # "operator_escalated"
<1>2. NoSession \in Sessions /\ NoSession.phase = "open" /\ NoSession.fails = 0
  BY NoSessionFacts DEF NoSession
<1>3. Fit(fresh) /\ Fit(like)
  BY <1>2 DEF Sessions, Statuses, Actions
<1>4. Fit(failed) /\ Fit(skip)
  BY <1>2 DEF Sessions, Statuses, Phases
<1>5. ASSUME NEW r \in [status : {"open"}, phase : {"open"}, action : {"draft"}, text : BOOLEAN,
                        fails : {0}, wait : {0}, noted : {FALSE}]
      PROVE  Fit(r)
  BY <1>1 DEF Sessions, Statuses, Phases, Actions
<1> HIDE DEF Fit
<1>6. Fit(s)
  BY <1>3, <1>4, <1>5 DEF Outcomes
<1> QED
  BY <1>1, <1>6 DEF Fit, TriesOf

LEMMA DiscoverKeeps ==
    ASSUME IInv, Discover
    PROVE  IInv'
<1>1. /\ TypeOK /\ pc = "idle" /\ pc' = "found"
      /\ UNCHANGED <<mode, sessions, cursor, older, open, todo, hand, copy, press, inputs, level,
                     tweeted, rows, posts, cards, undone, lost>>
  BY DEF Discover, IInv, file, bot
<1>0. PICK chosen \in SUBSET (NewTweets \cap Page) :
         /\ \E new \in [chosen -> Outcomes] :
               LET moving == {t \in chosen : new[t].status # "error"} IN
               /\ found' = Found(new)
               /\ high' = IF moving = {} THEN cursor ELSE Max(moving)
         /\ passed' = passed \cup (NewTweets \ chosen)
  BY DEF Discover
<1>2. PICK new \in [chosen -> Outcomes] :
         /\ found' = [t \in Tweets |-> IF t \in chosen THEN new[t] ELSE sessions[t]]
         /\ high' = IF {t \in chosen : new[t].status # "error"} = {} THEN cursor
                    ELSE Max({t \in chosen : new[t].status # "error"})
  BY <1>0 DEF Found
<1>3. /\ chosen \subseteq NewTweets /\ NewTweets \subseteq cursor + 1 .. tweeted /\ tweeted \in Nat
      /\ cursor \in 0 .. MaxTweets /\ tweeted <= MaxTweets /\ NewTweets \subseteq Tweets
      /\ \A t \in NewTweets : sessions[t].status = "none"
  BY <1>1, Bounds DEF TypeOK, NewTweets, Tweets
<1>4. \A t \in chosen : new[t] \in Sessions /\ new[t].status # "none" /\ TriesOf(new[t])
  BY OutcomeFacts
<1>5. \A t \in Tweets : found'[t] = IF t \in chosen THEN new[t] ELSE sessions[t]
  BY <1>2
<1>6. found' \in [Tweets -> Sessions]
  BY <1>1, <1>2, <1>4, Types
<1>7. high' \in 0 .. MaxTweets /\ cursor <= high' /\ (high' = cursor \/ high' <= tweeted)
  <2> DEFINE moving == {t \in chosen : new[t].status # "error"}
  <2>1. moving \in SUBSET (1 .. tweeted) /\ \A t \in moving : cursor <= t
    <3>1. moving \subseteq chosen
      OBVIOUS
    <3>2. \A t \in chosen : t \in 1 .. tweeted /\ cursor <= t
      BY <1>3
    <3> QED
      BY <3>1, <3>2
  <2>2. high' = IF moving = {} THEN cursor ELSE Max(moving)
    BY <1>2
  <2> HIDE DEF moving
  <2>3. moving # {} => Max(moving) \in 1 .. tweeted /\ cursor <= Max(moving)
    BY <1>3, <2>1, MaxIn
  <2> QED
    BY <1>3, <2>2, <2>3, Bounds
<1>8. passed' \subseteq Tweets
  BY <1>0, <1>1, <1>3 DEF TypeOK
<1>9. TypeOK'
  BY <1>1, <1>6, <1>7, <1>8 DEF TypeOK, CronPcs
<1>10. TriesInv'
  BY <1>1, <1>4, <1>5 DEF IInv, TriesInv
<1>11. PlaceInv' /\ PressInv'
  BY <1>1 DEF IInv, PlaceInv, PressInv, HandPcs, WritePcs, FoundPcs
<1>12. OnceInv'
  <2>1. ASSUME NEW u \in Tweets \ undone
        PROVE  OnceOf(u)'
    <3>1. OnceOf(u) /\ ~Shown(u)
      BY <1>1 DEF IInv, OnceInv, Shown, CardPcs
    <3>2. posts[u] > 0 \/ cards[u] > 0 => Settled(found'[u])
      BY <1>3, <1>5, <3>1 DEF OnceOf, Settled
    <3> QED
      BY <1>1, <3>1, <3>2 DEF OnceOf
  <2> QED
    BY <1>1, <2>1 DEF OnceInv, HandPcs, WritePcs
<1>13. ComingInv'
  <2>1. ASSUME NEW t \in 1 .. high'
        PROVE  found'[t].status # "none" \/ t \in passed' \/ t \in lost
    <3>1. t \in Tweets /\ t \in Nat
      BY <1>7, Bounds DEF Tweets
    <3>2. CASE t \in chosen
      BY <3>1, <3>2, <1>4, <1>5
    <3>3. CASE t \in NewTweets \ chosen
      BY <3>3, <1>0
    <3>4. CASE t \notin NewTweets /\ t \in 1 .. cursor
      <4>1. sessions[t].status # "none" \/ t \in passed \/ t \in lost
        BY <1>1, <3>4 DEF IInv, CursorPassesOnlyKept
      <4>2. t \notin chosen
        BY <1>3, <3>4
      <4> QED
        BY <1>0, <1>5, <3>1, <4>1, <4>2
    <3>5. CASE t \notin NewTweets /\ t \notin 1 .. cursor
      <4>1. t \in cursor + 1 .. tweeted
        BY <1>3, <1>7, <3>1, <3>5
      <4>2. sessions[t].status # "none" /\ t \notin chosen
        BY <1>3, <3>5, <4>1 DEF NewTweets
      <4> QED
        BY <1>5, <3>1, <4>2
    <3> QED
      BY <3>2, <3>3, <3>4, <3>5
  <2> QED
    BY <1>1, <1>7, <2>1 DEF IInv, ComingInv
<1>14. CursorPassesOnlyKept'
  BY <1>0, <1>1 DEF IInv, CursorPassesOnlyKept
<1> QED
  BY <1>9, <1>10, <1>11, <1>12, <1>13, <1>14 DEF IInv

LEMMA DiscoverFailsKeeps ==
    ASSUME IInv, DiscoverFails
    PROVE  IInv'
<1>1. /\ TypeOK /\ pc = "idle"
      /\ UNCHANGED <<mode, sessions, cursor, older, open, todo, hand, copy, press, inputs,
                     level, tweeted, rows, posts, cards, undone, passed, lost>>
      /\ \/ pc' \in FoundPcs /\ found' = sessions /\ high' = cursor
         \/ pc' = "stored" /\ UNCHANGED <<found, high>>
  BY DEF DiscoverFails, file, bot, world, IInv, FoundPcs
<1>2. found' \in [Tweets -> Sessions] /\ high' \in 0 .. MaxTweets /\ pc' \in CronPcs
  BY <1>1 DEF TypeOK, CronPcs, FoundPcs
<1>3. TypeOK'
  BY <1>1, <1>2 DEF TypeOK
<1>4. TriesInv' /\ PressInv'
  BY <1>1 DEF IInv, TriesInv, PressInv
<1>5. PlaceInv'
  BY <1>1 DEF IInv, PlaceInv, HandPcs, WritePcs, FoundPcs
<1>6. OnceInv'
  <2>1. ASSUME NEW u \in Tweets \ undone
        PROVE  OnceOf(u)'
    <3>1. OnceOf(u) /\ ~Shown(u)
      BY <1>1 DEF IInv, OnceInv, Shown, CardPcs
    <3> QED
      BY <1>1, <3>1 DEF OnceOf, FoundPcs
  <2> QED
    BY <1>1, <2>1 DEF OnceInv, HandPcs, WritePcs, FoundPcs
<1>7. ComingInv' /\ CursorPassesOnlyKept'
  <2>1. cursor \in Nat
    BY <1>1 DEF TypeOK
  <2> QED
    BY <1>1, <2>1 DEF IInv, ComingInv, CursorPassesOnlyKept, FoundPcs
<1> QED
  BY <1>3, <1>4, <1>5, <1>6, <1>7 DEF IInv

LEMMA AdvanceCursorKeeps ==
    ASSUME IInv, AdvanceCursor
    PROVE  IInv'
<1>1. /\ TypeOK /\ pc = "found" /\ pc' = "advanced" /\ cursor' = high
      /\ UNCHANGED <<mode, sessions, older, found, high, open, todo, hand, copy, press, inputs,
                     level, tweeted, rows, posts, cards, undone, passed, lost>>
  BY DEF AdvanceCursor, bot, world, IInv
<1>2. TypeOK'
  BY <1>1 DEF TypeOK, CronPcs
<1>3. TriesInv' /\ PlaceInv' /\ PressInv'
  BY <1>1 DEF IInv, TriesInv, PlaceInv, PressInv, HandPcs, WritePcs, FoundPcs
<1>4. OnceInv'
  BY <1>1 DEF IInv, OnceInv, OnceOf, Shown, CardPcs, HandPcs, WritePcs, FoundPcs
<1>5. /\ older.cursor <= cursor /\ cursor <= high
      /\ older.cursor \in Nat /\ cursor \in Nat /\ high \in Nat
      /\ \A t \in 1 .. high : found[t].status # "none" \/ t \in passed \/ t \in lost
  BY <1>1, Types DEF IInv, ComingInv, FoundPcs, TypeOK
<1>6. ComingInv' /\ CursorPassesOnlyKept'
  BY <1>1, <1>5 DEF ComingInv, CursorPassesOnlyKept
<1> QED
  BY <1>2, <1>3, <1>4, <1>6 DEF IInv

LEMMA StoreSessionsKeeps ==
    ASSUME IInv, StoreSessions
    PROVE  IInv'
<1>1. /\ TypeOK /\ pc = "advanced" /\ pc' = "stored" /\ sessions' = found /\ found' = Blank
      /\ high' = 0
      /\ UNCHANGED <<mode, cursor, older, open, todo, hand, copy, press, inputs, level, tweeted,
                     rows, posts, cards, undone, passed, lost>>
  BY DEF StoreSessions, bot, world, IInv
<1>2. TypeOK'
  BY <1>1, NoSessionFacts, Bounds DEF TypeOK, CronPcs
<1>3. TriesInv' /\ PlaceInv' /\ PressInv'
  BY <1>1, NoSessionFacts DEF IInv, TriesInv, PlaceInv, PressInv, HandPcs, WritePcs, FoundPcs
<1>4. OnceInv'
  BY <1>1 DEF IInv, OnceInv, OnceOf, Shown, CardPcs, HandPcs, WritePcs, FoundPcs
<1>5. ComingInv'
  BY <1>1 DEF IInv, ComingInv, FoundPcs
<1>6. CursorPassesOnlyKept'
  <2>1. cursor \in Nat /\ high \in Nat
    BY <1>1 DEF TypeOK
  <2> QED
    BY <1>1, <2>1 DEF IInv, ComingInv, CursorPassesOnlyKept, FoundPcs
<1> QED
  BY <1>2, <1>3, <1>4, <1>5, <1>6 DEF IInv

LEMMA UnkeptFacts ==
    ASSUME TypeOK
    PROVE  Unkept \subseteq Tweets /\ \A t \in 1 .. cursor : sessions[t].status # "none" \/ t \in Unkept
BY Bounds DEF TypeOK, Unkept, Tweets

LEMMA StoreThrowsKeeps ==
    ASSUME IInv, StoreThrows
    PROVE  IInv'
<1>1. /\ TypeOK /\ pc \in FoundPcs /\ pc' = "stored" /\ found' = Blank /\ high' = 0
      /\ UNCHANGED <<mode, sessions, cursor, older, open, todo, hand, copy, press, level, tweeted,
                     rows, posts, cards, undone, passed>>
      /\ lost' = IF pc = "advanced" THEN lost \cup Unkept ELSE lost
      /\ inputs' \in 0 .. MaxInputs
  BY InputBound DEF StoreThrows, bot, file, IInv, FoundPcs
<1>2. TypeOK'
  <2>1. lost' \subseteq Tweets
    BY <1>1, UnkeptFacts DEF TypeOK
  <2>2. found' \in [Tweets -> Sessions] /\ high' \in 0 .. MaxTweets /\ pc' \in CronPcs
    BY <1>1, NoSessionFacts, Bounds DEF CronPcs
  <2> QED
    BY <1>1, <2>1, <2>2 DEF TypeOK
<1>3. TriesInv' /\ PlaceInv' /\ PressInv'
  BY <1>1, NoSessionFacts DEF IInv, TriesInv, PlaceInv, PressInv, HandPcs, WritePcs, FoundPcs
<1>4. OnceInv'
  BY <1>1 DEF IInv, OnceInv, OnceOf, Shown, CardPcs, HandPcs, WritePcs, FoundPcs
<1>5. ComingInv'
  BY <1>1 DEF IInv, ComingInv, FoundPcs
<1>6. CursorPassesOnlyKept'
  BY <1>1, UnkeptFacts DEF IInv, CursorPassesOnlyKept
<1> QED
  BY <1>2, <1>3, <1>4, <1>5, <1>6 DEF IInv

-----------------------------------------------------------------------------
(* The ends of the loop.                                                    *)

LEMMA LoadOpenKeeps ==
    ASSUME IInv, LoadOpen
    PROVE  IInv'
<1>1. /\ TypeOK /\ pc = "stored" /\ pc' = "loop" /\ mode' = level /\ open' = sessions
      /\ todo' = {t \in Tweets : IsOpen(sessions[t])}
      /\ UNCHANGED <<sessions, cursor, older, found, high, hand, copy, press, inputs, level, tweeted,
                     rows, posts, cards, undone, passed, lost>>
  BY DEF LoadOpen, bot, world, file, IInv
<1>2. TypeOK'
  BY <1>1 DEF TypeOK, CronPcs
<1>3. TriesInv' /\ PlaceInv' /\ PressInv'
  BY <1>1 DEF IInv, TriesInv, PlaceInv, PressInv, HandPcs, WritePcs, FoundPcs
<1>4. OnceInv'
  <2>1. ASSUME NEW u \in Tweets \ undone
        PROVE  OnceOf(u)'
    <3>1. OnceOf(u) /\ ~Shown(u)
      BY <1>1 DEF IInv, OnceInv, Shown, CardPcs
    <3> QED
      BY <1>1, <3>1 DEF OnceOf, FoundPcs, Settled
  <2> QED
    BY <1>1, <2>1 DEF OnceInv, HandPcs, WritePcs
<1>5. CursorPassesOnlyKept' /\ ComingInv'
  BY <1>1 DEF IInv, CursorPassesOnlyKept, ComingInv, FoundPcs
<1> QED
  BY <1>2, <1>3, <1>4, <1>5 DEF IInv

\* What every end of a run has in common: it forgets what it read.
LEMMA RestKeeps ==
    ASSUME IInv, Rest,
           UNCHANGED <<cursor, older, press, level, tweeted, rows, posts, undone, passed>>,
           inputs' \in 0 .. MaxInputs, lost' \subseteq Tweets, lost \subseteq lost',
           cards' \in [Tweets -> Int], sessions' \in [Tweets -> Sessions],
           \A t \in Tweets : /\ TriesOf(sessions'[t])
                             /\ sessions[t].status # "none" => sessions'[t].status # "none",
           \A t \in Tweets \ undone : /\ cards'[t] <= 1
                                      /\ cards'[t] > 0 => Settled(sessions'[t])
                                      /\ posts[t] > 0 => Settled(sessions'[t]),
           pc = "advanced" => \A t \in 1 .. cursor : sessions[t].status # "none" \/ t \in lost'
    PROVE  IInv'
<1>1. /\ TypeOK /\ pc' = "idle" /\ mode' = "manual" /\ found' = Blank /\ open' = Blank
      /\ high' = 0 /\ todo' = {} /\ hand' = NoTweet /\ copy' = NoSession
  BY DEF Rest, IInv
<1>2. TypeOK'
  BY <1>1, NoSessionFacts, Bounds DEF TypeOK, CronPcs, Levels
<1>3. TriesInv' /\ PlaceInv' /\ PressInv'
  BY <1>1, NoSessionFacts DEF IInv, TriesInv, PlaceInv, PressInv, HandPcs, WritePcs, FoundPcs
<1>4. OnceInv'
  <2>1. ASSUME NEW u \in Tweets \ undone
        PROVE  OnceOf(u)'
    <3>1. posts'[u] <= 1
      BY <1>1 DEF IInv, OnceInv, OnceOf
    <3> QED
      BY <1>1, <3>1 DEF OnceOf, FoundPcs
  <2> QED
    BY <1>1, <2>1 DEF OnceInv, HandPcs, WritePcs
<1>5. CursorPassesOnlyKept'
  <2>1. 1 .. cursor \subseteq Tweets
    BY <1>1, Bounds DEF TypeOK, Tweets
  <2> QED
    BY <1>1, <2>1 DEF IInv, CursorPassesOnlyKept
<1>6. ComingInv'
  BY <1>1 DEF IInv, ComingInv, FoundPcs
<1> QED
  BY <1>2, <1>3, <1>4, <1>5, <1>6 DEF IInv

\* Where no card waits for its record.
LEMMA AtRest ==
    ASSUME IInv, pc \notin CardPcs
    PROVE  /\ TypeOK /\ \A t \in Tweets : TriesOf(sessions[t])
           /\ \A t \in Tweets \ undone : /\ cards[t] <= 1
                                         /\ cards[t] > 0 => Settled(sessions[t])
                                         /\ posts[t] > 0 => Settled(sessions[t])
BY DEF IInv, TriesInv, OnceInv, OnceOf, Shown

LEMMA LoopEndsKeeps ==
    ASSUME IInv, LoopEnds
    PROVE  IInv'
<1>1. /\ TypeOK /\ pc = "loop" /\ Rest
      /\ UNCHANGED <<sessions, cursor, older, press, inputs, level, tweeted, rows, posts, cards,
                     undone, passed, lost>>
  BY DEF LoopEnds, file, bot, world, IInv
<1>2. inputs \in 0 .. MaxInputs /\ lost \subseteq Tweets /\ pc \notin CardPcs /\ pc # "advanced"
  BY <1>1 DEF TypeOK, CardPcs
<1> QED
  BY <1>1, <1>2, AtRest, Types, RestKeeps

LEMMA NotifyManualKeeps ==
    ASSUME IInv, NotifyManual
    PROVE  IInv'
<1> DEFINE new == {t \in todo : ~open[t].noted}
           noted(t) == [open[t] EXCEPT !.noted = TRUE]
<1>1. /\ TypeOK /\ pc = "loop" /\ Rest
      /\ UNCHANGED <<cursor, older, press, inputs, level, tweeted, rows, posts, cards, undone,
                     passed, lost>>
  BY DEF NotifyManual, bot, world, IInv
<1>2. PICK n \in 0 .. MaxTweets :
         sessions' = [t \in Tweets |-> IF t \in new /\ t <= n THEN noted(t) ELSE sessions[t]]
  BY DEF NotifyManual
<1>3. inputs \in 0 .. MaxInputs /\ lost \subseteq Tweets /\ pc \notin CardPcs /\ pc # "advanced"
  BY <1>1 DEF TypeOK, CardPcs
<1>4. \A t \in todo : /\ noted(t) \in Sessions /\ noted(t).status = open[t].status
                      /\ noted(t).phase = open[t].phase /\ noted(t).fails = open[t].fails
  BY <1>1, Types DEF Sessions
<1> HIDE DEF noted
<1>5. ASSUME NEW t \in todo
      PROVE  /\ TriesOf(noted(t)) /\ noted(t).status # "none"
             /\ t \notin undone => posts[t] = 0 /\ cards[t] <= 0
  <2>1. t \in Tweets /\ posts[t] \in Nat /\ cards[t] \in Int
    BY <1>1, Types
  <2>2. t \notin undone => ~(posts[t] > 0) /\ ~(cards[t] > 0)
    BY <2>1 DEF IInv, OnceInv, OnceOf
  <2>3. IsOpen(open[t]) /\ TriesOf(open[t])
    BY <2>1 DEF IInv, PlaceInv, TriesInv
  <2> QED
    BY <1>4, <2>1, <2>2, <2>3 DEF TriesOf, IsOpen
<1>6. \A t \in Tweets : noted(t) = noted(t) /\ sessions[t] \in Sessions
  BY <1>1, Types
<1>7. sessions' \in [Tweets -> Sessions]
  BY <1>2, <1>4, <1>6
<1>8. \A t \in Tweets : sessions'[t] = IF t \in new /\ t <= n THEN noted(t) ELSE sessions[t]
  BY <1>2
<1>9. ASSUME NEW t \in Tweets
      PROVE  /\ TriesOf(sessions'[t])
             /\ sessions[t].status # "none" => sessions'[t].status # "none"
             /\ t \notin undone => /\ cards[t] <= 1
                                   /\ cards[t] > 0 => Settled(sessions'[t])
                                   /\ posts[t] > 0 => Settled(sessions'[t])
  <2>1. CASE t \in new /\ t <= n
    <3>1. sessions'[t] = noted(t) /\ t \in todo
      BY <1>8, <2>1
    <3>2. posts[t] \in Nat /\ cards[t] \in Int
      BY <1>1, Types
    <3> QED
      BY <1>5, <3>1, <3>2
  <2>2. CASE ~(t \in new /\ t <= n)
    BY <1>3, <1>8, <2>2, AtRest
  <2> QED
    BY <2>1, <2>2
<1>10. cards' \in [Tweets -> Int] /\ cards' = cards
  BY <1>1, Types
<1> QED
  BY <1>1, <1>3, <1>7, <1>9, <1>10, RestKeeps

LEMMA CronDiesKeeps ==
    ASSUME IInv, CronDies
    PROVE  IInv'
<1>1. /\ TypeOK /\ Input /\ Rest
      /\ UNCHANGED <<sessions, cursor, older, press, level, tweeted, rows, posts, undone, passed>>
      /\ lost' = IF pc = "advanced" THEN lost \cup Unkept ELSE lost
      /\ cards' = IF pc \in CardPcs THEN [cards EXCEPT ![hand] = @ - 1] ELSE cards
  BY DEF CronDies, file, bot, IInv, CardPcs
<1>2. inputs' \in 0 .. MaxInputs /\ lost' \subseteq Tweets /\ lost \subseteq lost'
  BY <1>1, InputBound, UnkeptFacts DEF TypeOK
<1>3. pc = "advanced" => \A t \in 1 .. cursor : sessions[t].status # "none" \/ t \in lost'
  BY <1>1, UnkeptFacts
<1>4. cards' \in [Tweets -> Int]
  <2>1. pc \in CardPcs => hand \in Tweets /\ cards[hand] - 1 \in Int
    BY <1>1, Types DEF IInv, PlaceInv, HandPcs, WritePcs, CardPcs
  <2> QED
    BY <1>1, <2>1, Types
<1>5. ASSUME NEW t \in Tweets \ undone
      PROVE  /\ cards'[t] <= 1 /\ (cards'[t] > 0 => Settled(sessions'[t]))
             /\ posts[t] > 0 => Settled(sessions'[t])
  <2>1. cards \in [Tweets -> Int] /\ cards[t] \in Int
    BY <1>1, Types
  <2>2. OnceOf(t) /\ cards[t] <= 1
    BY DEF IInv, OnceInv, OnceOf
  <2>3. CASE Shown(t)
    BY <1>1, <2>1, <2>2, <2>3 DEF Shown, OnceOf
  <2>4. CASE ~Shown(t)
    BY <1>1, <2>1, <2>2, <2>4 DEF OnceOf, Shown
  <2> QED
    BY <2>3, <2>4
<1>6. \A t \in Tweets : TriesOf(sessions'[t])
  BY <1>1 DEF IInv, TriesInv
<1>7. sessions' \in [Tweets -> Sessions]
  BY <1>1, Types
<1> QED
  BY <1>1, <1>2, <1>3, <1>4, <1>5, <1>6, <1>7, RestKeeps

-----------------------------------------------------------------------------

LEMMA InitHolds == Init => IInv
<1> SUFFICES ASSUME Init PROVE IInv
  OBVIOUS
<1>1. TypeOK
  <2>1. older \in [held : BOOLEAN, sessions : [Tweets -> Sessions], cursor : 0 .. MaxTweets]
    BY NoSessionFacts, Bounds DEF Init, NotHeld
  <2> QED
    BY <2>1, NoSessionFacts, Bounds DEF Init, TypeOK, Levels, CronPcs, Free, PressPcs, Rows
<1>2. \A t \in Tweets : /\ sessions[t] = NoSession /\ found[t] = NoSession /\ open[t] = NoSession
                        /\ older.sessions[t] = NoSession /\ posts[t] = 0 /\ cards[t] = 0
  BY NoSessionFacts DEF Init, NotHeld
<1>3. \A p \in Presses : press[p].read = NoSession /\ press[p].pc = "free"
  BY DEF Init, Free
<1>4. /\ pc = "idle" /\ todo = {} /\ found = Blank /\ copy = NoSession /\ cursor = 0
      /\ older.cursor = 0
  BY DEF Init, NotHeld
<1>5. TriesInv /\ PlaceInv /\ PressInv
  BY <1>2, <1>3, <1>4, NoSessionFacts DEF TriesInv, PlaceInv, PressInv, HandPcs, WritePcs
<1>6. OnceInv
  BY <1>2, <1>4 DEF OnceInv, OnceOf, HandPcs, WritePcs
<1>7. ComingInv /\ CursorPassesOnlyKept
  BY <1>4 DEF ComingInv, CursorPassesOnlyKept, FoundPcs
<1> QED
  BY <1>1, <1>5, <1>6, <1>7 DEF IInv

LEMMA StutterKeeps ==
    ASSUME IInv, UNCHANGED vars
    PROVE  IInv'
<1>1. UNCHANGED <<sessions, cursor, older, pc, mode, found, high, open, todo, hand, copy, press,
                  inputs, level, tweeted, rows, posts, cards, undone, passed, lost>>
  BY DEF vars, file, cron, bot, world
<1>2. TypeOK'
  BY <1>1 DEF IInv, TypeOK
<1>3. TriesInv' /\ PlaceInv' /\ PressInv'
  BY <1>1 DEF IInv, TriesInv, PlaceInv, PressInv
<1>4. OnceInv' /\ ComingInv' /\ CursorPassesOnlyKept'
  BY <1>1 DEF IInv, OnceInv, OnceOf, Shown, ComingInv, CursorPassesOnlyKept
<1> QED
  BY <1>2, <1>3, <1>4 DEF IInv

LEMMA CronStepKeeps ==
    ASSUME IInv, CronStep
    PROVE  IInv'
<1>1. CASE Discover
  BY <1>1, DiscoverKeeps
<1>2. CASE DiscoverFails
  BY <1>2, DiscoverFailsKeeps
<1>3. CASE AdvanceCursor
  BY <1>3, AdvanceCursorKeeps
<1>4. CASE StoreSessions
  BY <1>4, StoreSessionsKeeps
<1>5. CASE LoadOpen \/ LoopEnds \/ NotifyManual
  BY <1>5, LoadOpenKeeps, LoopEndsKeeps, NotifyManualKeeps
<1>6. CASE AskSucceeds \/ AskFails \/ PostOnX
  BY <1>6, AskSucceedsKeeps, AskFailsKeeps, PostOnXKeeps
<1>7. CASE Judged \/ DraftCard \/ WriteSession
  BY <1>7, JudgedKeeps, DraftCardKeeps, WriteSessionKeeps
<1>8. ASSUME NEW t \in Tweets, AutoSkip(t) \/ AutoLike(t) \/ AutoLikeFails(t)
      PROVE  IInv'
  BY <1>8, AutoSkipKeeps, AutoLikeKeeps, AutoLikeFailsKeeps
<1>9. ASSUME NEW t \in Tweets, LikeCard(t) \/ EnsureDraft(t)
      PROVE  IInv'
  BY <1>9, LikeCardKeeps, EnsureDraftKeeps
<1>10. ASSUME NEW t \in Tweets, AskDraft(t) \/ AskMissing(t)
       PROVE  IInv'
  BY <1>10, AskDraftKeeps
<1> QED
  BY <1>1, <1>2, <1>3, <1>4, <1>5, <1>6, <1>7, <1>8, <1>9, <1>10 DEF CronStep, LoopStep

LEMMA NextKeeps ==
    ASSUME IInv, [Next]_vars
    PROVE  IInv'
<1>1. CASE Tweet \/ SetLevel \/ Tick
  BY <1>1, TweetKeeps, SetLevelKeeps, TickKeeps
<1>2. CASE LoadAll \/ Overwrite
  BY <1>2, LoadAllKeeps, OverwriteKeeps
<1>3. CASE CronStep
  BY <1>3, CronStepKeeps
<1>4. CASE CronFaults
  BY <1>4, StoreThrowsKeeps, WriteThrowsKeeps, CardForgottenKeeps, CronDiesKeeps DEF CronFaults
<1>5. ASSUME NEW t \in Tweets, PressSkip(t)
      PROVE  IInv'
  BY <1>5, PressSkipKeeps
<1>6. ASSUME NEW p \in Presses, PressEnds(p) \/ PressLost(p)
      PROVE  IInv'
  BY <1>6, LikedKeeps, SuggestedKeeps, SuggestFailsKeeps, ScheduledKeeps, PressLostKeeps
     DEF PressEnds
<1>7. ASSUME NEW p \in Presses, NEW t \in Tweets,
             PressLike(p, t) \/ PressSuggest(p, t) \/ PressSchedule(p, t)
      PROVE  IInv'
  BY <1>7, PressBeginsKeeps
<1>8. CASE UNCHANGED vars
  BY <1>8, StutterKeeps
<1> QED
  BY <1>1, <1>2, <1>3, <1>4, <1>5, <1>6, <1>7, <1>8 DEF Next

LEMMA Inductive == Spec => []IInv
<1>1. Init => IInv
  BY InitHolds
<1>2. IInv /\ [Next]_vars => IInv'
  BY NextKeeps
<1> QED
  BY <1>1, <1>2, PTL DEF Spec

\* full_auto posts a draft at most once though the process may die between the
\* post and its record or that write throw, a tweet is shown at most once but for
\* a card whose record was lost, and a session is given up after exactly
\* MaxAttempts failures: the cron (cron-reactions-poll.ts) and the buttons
\* (target-button-handler.ts) write back old copies of a session in any order.
\* It says nothing of the tweets a fault reopened (undone).
THEOREM TargetInvHolds == Spec => []TargetInv
<1>1. IInv => TargetInv
  BY DEF IInv, TargetInv, OnceInv, OnceOf, PostedOnce, CardShownOnce, TriesInv, TriesOf,
         TriesCounted
<1> QED
  BY <1>1, Inductive, PTL

\* lastSinceId passes a tweet only when it has a session, discovery saw it and left
\* it (off its one page, or not among the best), or a fault between or after its two
\* writes took the session (target-discovery.ts moves the cursor first and stores
\* the sessions afterwards).
THEOREM CursorPassesOnlyKeptHolds == Spec => []CursorPassesOnlyKept
<1>1. IInv => CursorPassesOnlyKept
  BY DEF IInv
<1> QED
  BY <1>1, Inductive, PTL
-----------------------------------------------------------------------------
(* The reminders: the inductive invariant.  What a submission carries is    *)
(* what its form keeps, a digest's copy of state.json has ids and marks     *)
(* that were out when it was read, and a kind said today and not marked     *)
(* has lost its mark or is about to be marked.                              *)

Has(list, f) == \E i \in DOMAIN list : list[i].id = f

\* A list of forms has one record of an id.
Distinct(list) == \A i, j \in DOMAIN list : list[i].id = list[j].id => i = j

Lists == Seq(FormRecords)
MarkMaps == [Kinds -> {None} \cup Nat]

OpenJobs == [at : {"open", "keep"}, form : Forms, cadence : Cadences, chain : BOOLEAN]
ReadJobs == [at : {"synthesize"}, form : Forms, answers : SUBSET Questions]
MadeJobs == [at : {"settle"}, form : Forms, made : {None} \cup SUBSET Questions]
NudgeJobs == [at : {"say", "mark"}, kind : Kinds]
DigestJobs == [at : {"digest"}, date : Nat]
RecordJobs == [at : {"record"}, date : Nat, forms : Lists, marks : MarkMaps, digests : Seq(Nat)]
Jobs == {Idle} \cup OpenJobs \cup ReadJobs \cup MadeJobs \cup NudgeJobs \cup DigestJobs \cup RecordJobs

\* What every variable holds: a digest's copy as well has one form of an id.
DayShape ==
  /\ forms \in Lists /\ Distinct(forms)
  /\ threads \subseteq Forms /\ used \subseteq Forms /\ dead \subseteq Forms /\ joint \subseteq Forms
  /\ day \in Nat
  /\ job \in [Workers -> Jobs]
  /\ marks \in MarkMaps
  /\ digests \in Seq(Nat) /\ Len(digests) <= Kept
  /\ twice \subseteq Kinds /\ unmarked \subseteq Kinds
  /\ said \subseteq [kind : Kinds, day : Nat]
  /\ \A w \in Workers : At(w, "record") => Distinct(job[w].forms)

\* A call holds a form (On, for a call that is where calls can be).
Holds(j, f) == j.at \in {"open", "keep", "synthesize", "settle"} /\ j.form = f

Opens(w) == job[w].at \in {"open", "keep"}

\* An id that is out is used; one a call is opening is that call's alone.
FreshInv ==
  /\ \A f \in Forms : Has(forms, f) => f \in used
  /\ \A w \in Workers, f \in Forms : Holds(job[w], f) => f \in used
  /\ \A w \in Workers, f \in Forms : At(w, "record") /\ Has(job[w].forms, f) => f \in used
  /\ \A w \in Workers : Opens(w) => ~ Has(forms, job[w].form)
  /\ \A v, w \in Workers : Opens(w) /\ v # w => ~ Holds(job[v], job[w].form)
  /\ \A v, w \in Workers : Opens(w) /\ At(v, "record") => ~ Has(job[v].forms, job[w].form)

\* What a submission carries is what the form keeps, unless another overlapped
\* or died.
Carries(answers, f) ==
  /\ Has(forms, f)
  /\ f \in joint \cup dead \/ \A i \in DOMAIN forms : forms[i].id = f => forms[i].answers = answers

CarryInv ==
  \A w \in Workers :
    /\ At(w, "synthesize") => Carries(job[w].answers, job[w].form)
    /\ At(w, "settle") => /\ Has(forms, job[w].form)
                          /\ job[w].made # None => Carries(job[w].made, job[w].form)

ThreadInv == \A f \in threads : Has(forms, f) \/ f \in dead \/ \E w \in Workers : Holds(job[w], f)

GoesOnInv ==
  \A i \in DOMAIN forms : forms[i].status = "synthesizing" =>
    forms[i].id \in dead \/ \E w \in Workers : Holds(job[w], forms[i].id)

FormsGood == CarryInv /\ ThreadInv /\ GoesOnInv /\ SynthesisIsCurrent
FormsInv == reverted \/ FormsGood

Today(k) == [kind |-> k, day |-> day]
SaidLately(k) == \E n \in said : n.kind = k /\ n.day \in {day, day - 1}

\* Nothing is marked or said of a day to come, and what is marked today, in the
\* state or in a digest's copy, or is about to be, was said.
MarksInv ==
  /\ \A k \in Kinds : marks[k] \in Nat => marks[k] <= day
  /\ \A k \in Kinds : marks[k] = day => SaidLately(k)
  /\ \A n \in said : n.day <= day
  /\ \A w \in Workers : At(w, "mark") => SaidLately(job[w].kind)
  /\ \A w \in Workers, k \in Kinds : At(w, "record") =>
        /\ job[w].marks[k] \in Nat => job[w].marks[k] <= day
        /\ job[w].marks[k] = day => SaidLately(k)

\* A kind said today is marked, or being marked, or its mark was lost; and who
\* is about to say it again, or to say it beside another, is behind a lost mark.
NudgeInv ==
  /\ \A k \in Kinds : Today(k) \in said =>
        \/ marks[k] = day
        \/ k \in unmarked
        \/ \E v \in Workers : At(v, "mark") /\ job[v].kind = k
  /\ \A v, w \in Workers, k \in Kinds : v # w /\ Nudging(v, k) /\ Nudging(w, k) => k \in unmarked
  /\ \A w \in Workers : At(w, "say") /\ Today(job[w].kind) \in said => job[w].kind \in unmarked
  /\ twice \subseteq unmarked

RIInv == DayShape /\ FreshInv /\ FormsInv /\ MarksInv /\ NudgeInv
-----------------------------------------------------------------------------
(* The operators of the model.                                              *)

LEMMA HoldsIs ==
  ASSUME NEW j \in Jobs, NEW f
  PROVE  (j.at # "idle" /\ "form" \in DOMAIN j /\ j.form = f) <=> Holds(j, f)
BY DEF Jobs, Idle, OpenJobs, ReadJobs, MadeJobs, NudgeJobs, DigestJobs, RecordJobs, Holds

\* The new list is the old one with the record of that id, or one more.
Upserted(new, old, r) ==
  /\ \A i \in DOMAIN new :
        new[i] = r \/ (i \in DOMAIN old /\ new[i] = old[i] /\ old[i].id # r.id)
  /\ \A i \in DOMAIN old : old[i].id # r.id => i \in DOMAIN new /\ new[i] = old[i]
  /\ \E i \in DOMAIN new : new[i] = r

LEMMA UpsertIs ==
  ASSUME NEW list \in Lists, Distinct(list), NEW r \in FormRecords
  PROVE  /\ Upsert(list, r) \in Lists
         /\ Distinct(Upsert(list, r))
         /\ Upserted(Upsert(list, r), list, r)
<1>1. CASE \E i \in DOMAIN list : list[i].id = r.id
  <2> DEFINE new == [i \in DOMAIN list |-> IF list[i].id = r.id THEN r ELSE list[i]]
  <2>1. Upsert(list, r) = new
    BY <1>1 DEF Upsert
  <2>2. new \in Lists
    BY DEF Lists
  <2>3. Distinct(new)
    BY DEF Distinct
  <2>4. Upserted(new, list, r)
    BY <1>1 DEF Upserted
  <2> QED
    BY <2>1, <2>2, <2>3, <2>4
<1>2. CASE ~ \E i \in DOMAIN list : list[i].id = r.id
  <2> DEFINE new == Append(list, r)
  <2>1. Upsert(list, r) = new
    BY <1>2 DEF Upsert
  <2>2. new \in Lists /\ Len(new) = Len(list) + 1 /\ new[Len(list) + 1] = r
        /\ \A i \in 1 .. Len(list) : new[i] = list[i]
    BY DEF Lists
  <2>3. DOMAIN list = 1 .. Len(list) /\ DOMAIN new = 1 .. (Len(list) + 1) /\ Len(list) \in Nat
    BY <2>2 DEF Lists
  <2> HIDE DEF new
  <2>4. \A i \in DOMAIN new : (i \in DOMAIN list /\ new[i] = list[i]) \/ (i = Len(list) + 1 /\ new[i] = r)
    BY <2>2, <2>3
  <2>5. Distinct(new)
    BY <1>2, <2>4 DEF Distinct
  <2>6. Upserted(new, list, r)
    BY <1>2, <2>2, <2>3, <2>4 DEF Upserted
  <2> QED
    BY <2>1, <2>2, <2>5, <2>6
<1> QED
  BY <1>1, <1>2

FormIn(list, f) == list[CHOOSE i \in DOMAIN list : list[i].id = f]

LEMMA FormIs ==
  ASSUME NEW list, Distinct(list), NEW f, Has(list, f)
  PROVE  \E i \in DOMAIN list : list[i].id = f /\ FormIn(list, f) = list[i]
BY DEF Has, FormIn

LEMMA OneForm ==
  ASSUME NEW list, Distinct(list), NEW f, NEW i \in DOMAIN list, list[i].id = f
  PROVE  FormIn(list, f) = list[i]
BY DEF Distinct, FormIn

LEMMA ListsHold ==
  ASSUME NEW list \in Lists, NEW i \in DOMAIN list
  PROVE  list[i] \in FormRecords
BY DEF Lists

FormStatuses == {"awaiting", "synthesizing", "completed", "failed"}
Syntheses == {None} \cup SUBSET Questions

LEMMA KeptIs ==
  ASSUME NEW f \in Forms, NEW c \in Cadences, NEW ch \in BOOLEAN, NEW d \in Nat, NEW s \in FormStatuses
  PROVE  [id |-> f, cadence |-> c, chain |-> ch, started |-> d, status |-> s,
          answers |-> {}, synthesis |-> None] \in FormRecords
BY DEF FormRecords, FormStatuses

LEMMA MarkedIs ==
  ASSUME NEW r \in FormRecords, NEW a \in SUBSET Questions
  PROVE  LET m == [r EXCEPT !.answers = a, !.status = "synthesizing"] IN
           /\ m \in FormRecords
           /\ m.id = r.id /\ m.answers = a /\ m.status = "synthesizing"
BY DEF FormRecords

IsSettled(m, r, s, y) ==
  /\ m \in FormRecords
  /\ m.id = r.id /\ m.answers = r.answers /\ m.status = s /\ m.synthesis = y
  /\ m.cadence = r.cadence

LEMMA SettledIs ==
  ASSUME NEW r \in FormRecords, NEW s \in FormStatuses, NEW y \in Syntheses
  PROVE  IsSettled([r EXCEPT !.status = s, !.synthesis = y], r, s, y)
BY DEF FormRecords, FormStatuses, Syntheses, IsSettled

LEMMA CadencesFollow ==
  ASSUME NEW c \in Cadences, NextCadence[c] # None
  PROVE  NextCadence[c] \in Cadences
BY DEF NextCadence, Cadences

LEMMA NewestIs ==
  ASSUME NEW list \in Seq(Nat), NEW d \in Nat
  PROVE  Newest(Append(list, d)) \in Seq(Nat) /\ Len(Newest(Append(list, d))) <= Kept
<1> DEFINE all == Append(list, d)
           first == IF Len(all) > Kept THEN Len(all) - Kept + 1 ELSE 1
<1>1. all \in Seq(Nat) /\ Len(all) \in Nat /\ Kept \in Nat \ {0}
  BY NudgesAssumption
<1> HIDE DEF all
<1>2. first \in 1 .. Len(all) + 1 /\ (Len(all) - first + 1 <= Kept)
  BY <1>1
<1>3. SubSeq(all, first, Len(all)) \in Seq(Nat)
      /\ Len(SubSeq(all, first, Len(all))) <= Kept
  BY <1>1, <1>2
<1> QED
  BY <1>3 DEF all, Newest
-----------------------------------------------------------------------------
(* Types.                                                                   *)

LEMMA PlacesHold ==
  ASSUME NEW j \in Jobs
  PROVE  /\ j.at \in {"open", "keep"} => j \in OpenJobs
         /\ j.at = "synthesize" => j \in ReadJobs
         /\ j.at = "settle" => j \in MadeJobs
         /\ j.at \in {"say", "mark"} => j \in NudgeJobs
         /\ j.at = "digest" => j \in DigestJobs
         /\ j.at = "record" => j \in RecordJobs
BY DEF Jobs, Idle, OpenJobs, ReadJobs, MadeJobs, NudgeJobs, DigestJobs, RecordJobs

\* The jobs the actions give.
LEMMA JobsAre ==
  /\ Idle \in Jobs /\ Idle.at = "idle"
  /\ \A f \in Forms, c \in Cadences, b \in BOOLEAN :
        Opening(f, c, b) \in Jobs /\ Opening(f, c, b).at = "open" /\ Opening(f, c, b).form = f
  /\ \A j \in OpenJobs : LET k == [j EXCEPT !.at = "keep"] IN
        k \in Jobs /\ k.at = "keep" /\ k.form = j.form
  /\ \A f \in Forms, a \in SUBSET Questions :
        [at |-> "synthesize", form |-> f, answers |-> a] \in Jobs
  /\ \A f \in Forms, m \in Syntheses : [at |-> "settle", form |-> f, made |-> m] \in Jobs
  /\ \A k \in Kinds : [at |-> "say", kind |-> k] \in Jobs
  /\ \A j \in NudgeJobs : LET k == [j EXCEPT !.at = "mark"] IN
        k \in Jobs /\ k.at = "mark" /\ k.kind = j.kind
  /\ \A d \in Nat : [at |-> "digest", date |-> d] \in Jobs
  /\ \A d \in Nat, l \in Lists, m \in MarkMaps, s \in Seq(Nat) :
        [at |-> "record", date |-> d, forms |-> l, marks |-> m, digests |-> s] \in Jobs
BY DEF Jobs, Idle, Opening, OpenJobs, ReadJobs, MadeJobs, NudgeJobs, DigestJobs, RecordJobs, Syntheses

\* A call goes on to a job.
Moves(w, j) ==
  /\ job' \in [Workers -> Jobs]
  /\ job'[w] = j
  /\ \A v \in Workers : v # w => job'[v] = job[v]

LEMMA GoesMoves ==
  ASSUME job \in [Workers -> Jobs], NEW w \in Workers, NEW j \in Jobs, Goes(w, j)
  PROVE  Moves(w, j)
BY DEF Goes, Moves

\* What holds of every copy in a call's hands.
LEMMA CopiesHold ==
  ASSUME DayShape, NEW w \in Workers, NEW j \in Jobs, Moves(w, j),
         j.at = "record" => Distinct(j.forms)
  PROVE  \A v \in Workers : At(v, "record")' => Distinct(job'[v].forms)
BY DEF DayShape, Moves, At

LEMMA SubmitShape ==
  ASSUME DayShape, NEW w \in Workers, NEW f \in Forms, NEW given \in SUBSET Questions, Known(f)
  PROVE  LET marked == [Form(f) EXCEPT !.answers = Merged(Form(f), given), !.status = "synthesizing"] IN
           /\ marked \in FormRecords
           /\ marked.id = f /\ marked.status = "synthesizing"
           /\ marked.answers = Form(f).answers \cup given
           /\ Seen(marked, given) = marked.answers
           /\ Form(f) \in FormRecords
<1>1. Has(forms, f) /\ Form(f) = FormIn(forms, f)
  BY DEF Known, Has, Form, FormIn
<1>2. PICK i \in DOMAIN forms : forms[i].id = f /\ FormIn(forms, f) = forms[i]
  BY <1>1, FormIs DEF DayShape
<1>3. Form(f) \in FormRecords /\ Form(f).id = f
  BY <1>1, <1>2, ListsHold DEF DayShape
<1>4. Merged(Form(f), given) \in SUBSET Questions
  BY <1>3 DEF Merged, FormRecords
<1> QED
  BY <1>3, <1>4, MarkedIs DEF Merged, Seen

LEMMA SettleShape ==
  ASSUME DayShape, NEW w \in Workers, At(w, "settle"), Known(job[w].form)
  PROVE  LET f == job[w].form
             done == job[w].made # None
             settled == [Form(f) EXCEPT !.status = IF done THEN "completed" ELSE "failed",
                                        !.synthesis = job[w].made]
         IN /\ settled \in FormRecords
            /\ settled.id = f /\ settled.synthesis = job[w].made
            /\ settled.answers = Form(f).answers
            /\ settled.status = IF done THEN "completed" ELSE "failed"
            /\ settled.cadence \in Cadences
            /\ Form(f) \in FormRecords
            /\ f \in Forms
<1> DEFINE f == job[w].form
<1>1. job[w] \in MadeJobs
  BY PlacesHold DEF DayShape, At
<1>2. f \in Forms /\ job[w].made \in Syntheses
  BY <1>1 DEF MadeJobs, Syntheses
<1>3. Has(forms, f) /\ Form(f) = FormIn(forms, f)
  BY DEF Known, Has, Form, FormIn
<1>4. PICK i \in DOMAIN forms : forms[i].id = f /\ FormIn(forms, f) = forms[i]
  BY <1>3, FormIs DEF DayShape
<1>5. Form(f) \in FormRecords /\ Form(f).id = f
  BY <1>3, <1>4, ListsHold DEF DayShape
<1>6. (IF job[w].made # None THEN "completed" ELSE "failed") \in FormStatuses
  BY DEF FormStatuses
<1>7. Form(f).cadence \in Cadences
  BY <1>5 DEF FormRecords
<1> DEFINE status == IF job[w].made # None THEN "completed" ELSE "failed"
           settled == [Form(f) EXCEPT !.status = status, !.synthesis = job[w].made]
<1>8. /\ settled \in FormRecords
      /\ settled.id = f /\ settled.synthesis = job[w].made
      /\ settled.answers = Form(f).answers
      /\ settled.status = status
      /\ settled.cadence \in Cadences
  <2> HIDE DEF status, f
  <2>1. status \in FormStatuses
    BY <1>6 DEF status
  <2>2. IsSettled(settled, Form(f), status, job[w].made)
    BY <1>2, <1>5, <2>1, SettledIs
  <2> QED
    BY <1>5, <1>7, <2>2 DEF IsSettled
<1> QED
  BY <1>2, <1>5, <1>8

\* Who opens a form, and who settles one, as steps of two kinds each.
LEMMA StartShape ==
  ASSUME DayShape, NEW w \in Workers, Start(w)
  PROVE  \E f \in Forms, c \in Cadences, b \in BOOLEAN :
           /\ New(f) /\ used' = used \cup {f}
           /\ Opening(f, c, b) \in Jobs
           /\ Moves(w, Opening(f, c, b))
<1>1. PICK f \in Forms : /\ New(f)
                         /\ used' = used \cup {f}
                         /\ \/ \E c \in Asked : Goes(w, Opening(f, c, FALSE))
                            \/ Goes(w, Opening(f, "quarterly", TRUE))
  BY DEF Start
<1>2. Asked \subseteq Cadences /\ "quarterly" \in Cadences
  BY FormsAssumption DEF Cadences
<1>3. PICK c \in Cadences, b \in BOOLEAN : Goes(w, Opening(f, c, b))
  BY <1>1, <1>2
<1>4. Opening(f, c, b) \in Jobs
  BY JobsAre
<1> QED
  BY <1>1, <1>3, <1>4, GoesMoves DEF DayShape

LEMMA SettleMoves ==
  ASSUME DayShape, NEW w \in Workers, Settle(w)
  PROVE  \/ used' = used /\ Moves(w, Idle)
         \/ \E f \in Forms, c \in Cadences, b \in BOOLEAN :
              /\ New(f) /\ used' = used \cup {f}
              /\ Opening(f, c, b) \in Jobs
              /\ Moves(w, Opening(f, c, b))
<1>1. CASE used' = used /\ Goes(w, Idle)
  BY <1>1, JobsAre, GoesMoves DEF DayShape
<1>2. CASE ~ (used' = used /\ Goes(w, Idle))
  <2> DEFINE settled == [Form(job[w].form) EXCEPT
                !.status = IF job[w].made # None THEN "completed" ELSE "failed",
                !.synthesis = job[w].made]
  <2>1. /\ At(w, "settle") /\ Known(job[w].form) /\ NextCadence[settled.cadence] # None
        /\ \E g \in Forms : /\ New(g)
                            /\ used' = used \cup {g}
                            /\ Goes(w, Opening(g, NextCadence[settled.cadence], TRUE))
    BY <1>2 DEF Settle
  <2>2. settled.cadence \in Cadences
    BY <2>1, SettleShape
  <2>3. NextCadence[settled.cadence] \in Cadences
    BY <2>1, <2>2, CadencesFollow
  <2> HIDE DEF settled
  <2>4. PICK g \in Forms : /\ New(g)
                           /\ used' = used \cup {g}
                           /\ Goes(w, Opening(g, NextCadence[settled.cadence], TRUE))
    BY <2>1
  <2>5. Opening(g, NextCadence[settled.cadence], TRUE) \in Jobs
    BY <2>3, JobsAre
  <2> QED
    BY <2>3, <2>4, <2>5, GoesMoves DEF DayShape
<1> QED
  BY <1>1, <1>2

\* Submissions, settlements and the calls that keep a form write one record.
LEMMA WriteShape ==
  ASSUME DayShape, NEW r \in FormRecords, forms' = Upsert(forms, r)
  PROVE  forms' \in Lists /\ Distinct(forms') /\ Upserted(forms', forms, r)
BY UpsertIs DEF DayShape

LEMMA SubmitMoves ==
  ASSUME DayShape, NEW w \in Workers, Submit(w)
  PROVE  \E f \in Forms, given \in SUBSET Questions, r \in FormRecords :
           /\ Known(f)
           /\ r.id = f /\ r.status = "synthesizing" /\ r.answers = Form(f).answers \cup given
           /\ forms' = Upsert(forms, r)
           /\ Moves(w, [at |-> "synthesize", form |-> f, answers |-> r.answers])
           /\ joint' = IF \E v \in Workers : On(v, f) THEN joint \cup {f} ELSE joint
<1> DEFINE Marked(f, given) == [Form(f) EXCEPT !.answers = Merged(Form(f), given), !.status = "synthesizing"]
<1>1. PICK f \in Forms, given \in SUBSET Questions :
        /\ Known(f)
        /\ forms' = Upsert(forms, Marked(f, given))
        /\ Goes(w, [at |-> "synthesize", form |-> f, answers |-> Seen(Marked(f, given), given)])
        /\ joint' = IF \E v \in Workers : On(v, f) THEN joint \cup {f} ELSE joint
  BY DEF Submit
<1>2. /\ Marked(f, given) \in FormRecords
      /\ Marked(f, given).id = f /\ Marked(f, given).status = "synthesizing"
      /\ Marked(f, given).answers = Form(f).answers \cup given
      /\ Seen(Marked(f, given), given) = Marked(f, given).answers
  BY <1>1, SubmitShape
<1> HIDE DEF Marked
<1>3. Marked(f, given).answers \in SUBSET Questions
  BY <1>2 DEF FormRecords
<1>4. Moves(w, [at |-> "synthesize", form |-> f, answers |-> Marked(f, given).answers])
  BY <1>1, <1>2, <1>3, JobsAre, GoesMoves DEF DayShape
<1> QED
  BY <1>1, <1>2, <1>4

LEMMA KeepMoves ==
  ASSUME DayShape, NEW w \in Workers, KeepForm(w)
  PROVE  /\ \E r \in FormRecords :
              /\ r.id = job[w].form /\ r.status \in {"awaiting", "failed"}
              /\ forms' = Upsert(forms, r)
         /\ Moves(w, Idle)
         /\ job[w].form \in Forms
<1>1. job[w] \in OpenJobs
  BY PlacesHold DEF DayShape, KeepForm, At
<1> DEFINE f == job[w].form
           status == IF f \in threads THEN "awaiting" ELSE "failed"
           r == [id |-> f, cadence |-> job[w].cadence, chain |-> job[w].chain, started |-> day,
                 status |-> status, answers |-> {}, synthesis |-> None]
<1>2. r \in FormRecords
  <2>1. f \in Forms /\ job[w].cadence \in Cadences /\ job[w].chain \in BOOLEAN
    BY <1>1 DEF OpenJobs
  <2>2. status \in FormStatuses /\ day \in Nat
    BY DEF FormStatuses, DayShape
  <2> QED
    BY <2>1, <2>2, KeptIs
<1>3. r.id = f /\ r.status \in {"awaiting", "failed"}
  OBVIOUS
<1>4. forms' = Upsert(forms, r) /\ Goes(w, Idle)
  BY DEF KeepForm
<1>5. f \in Forms
  BY <1>1 DEF OpenJobs
<1> HIDE DEF r
<1> QED
  BY <1>2, <1>3, <1>4, <1>5, JobsAre, GoesMoves DEF DayShape

LEMMA SettleWrites ==
  ASSUME DayShape, NEW w \in Workers, Settle(w)
  PROVE  LET f == job[w].form IN
           \/ ~ Known(f) /\ forms' = forms
           \/ \E r \in FormRecords :
                /\ Known(f) /\ f \in Forms
                /\ r.id = f /\ r.synthesis = job[w].made /\ r.answers = Form(f).answers
                /\ r.status = IF job[w].made # None THEN "completed" ELSE "failed"
                /\ forms' = Upsert(forms, r)
<1>1. At(w, "settle")
  BY DEF Settle
<1>2. CASE ~ Known(job[w].form)
  BY <1>2 DEF Settle
<1>3. CASE Known(job[w].form)
  <2> DEFINE r == [Form(job[w].form) EXCEPT
                !.status = IF job[w].made # None THEN "completed" ELSE "failed",
                !.synthesis = job[w].made]
  <2>1. forms' = Upsert(forms, r)
    BY <1>3 DEF Settle
  <2>2. /\ r \in FormRecords
        /\ r.id = job[w].form /\ r.synthesis = job[w].made /\ r.answers = Form(job[w].form).answers
        /\ r.status = IF job[w].made # None THEN "completed" ELSE "failed"
        /\ job[w].form \in Forms
    BY <1>1, <1>3, SettleShape
  <2> HIDE DEF r
  <2> QED
    BY <1>3, <2>1, <2>2
<1> QED
  BY <1>2, <1>3

LEMMA OtherMoves ==
  ASSUME DayShape, NEW w \in Workers
  PROVE  /\ PostThread(w) \/ PostFails(w) =>
              \E j \in Jobs : Moves(w, j) /\ j.at = "keep" /\ j.form = job[w].form /\ j.form \in Forms
         /\ Synthesize(w) => \E m \in {None, job[w].answers} :
              /\ job[w].answers \in SUBSET Questions
              /\ job[w].form \in Forms
              /\ Moves(w, [at |-> "settle", form |-> job[w].form, made |-> m])
         /\ Say(w) => \E j \in Jobs : /\ Moves(w, j) /\ j.at = "mark" /\ j.kind = job[w].kind
                                      /\ job[w].kind \in Kinds
         /\ At(w, "mark") => job[w].kind \in Kinds
         /\ KeepForm(w) \/ NotSaid(w) \/ Mark(w) \/ Record(w) \/ DieUnmarked(w) => Moves(w, Idle)
         /\ \A k \in Kinds : Nudge(w, k) => Moves(w, [at |-> "say", kind |-> k])
         /\ Digest(w) => Moves(w, [at |-> "digest", date |-> day])
         /\ PostDigest(w) =>
              \/ Moves(w, Idle)
              \/ Moves(w, [at |-> "record", date |-> job[w].date,
                           forms |-> forms, marks |-> marks, digests |-> digests])
<1>1. job \in [Workers -> Jobs] /\ job[w] \in Jobs /\ day \in Nat
  BY DEF DayShape
<1>2. ASSUME PostThread(w) \/ PostFails(w)
      PROVE  \E j \in Jobs : Moves(w, j) /\ j.at = "keep" /\ j.form = job[w].form /\ j.form \in Forms
  <2>1. job[w] \in OpenJobs /\ Goes(w, [job[w] EXCEPT !.at = "keep"])
    BY <1>1, <1>2, PlacesHold DEF PostThread, PostFails, At
  <2>2. job[w].form \in Forms
    BY <2>1 DEF OpenJobs
  <2> DEFINE j == [job[w] EXCEPT !.at = "keep"]
  <2>3. j \in Jobs /\ j.at = "keep" /\ j.form = job[w].form
    BY <2>1, JobsAre
  <2> HIDE DEF j
  <2> QED
    BY <1>1, <2>1, <2>2, <2>3, GoesMoves DEF j
<1>3. ASSUME Synthesize(w)
      PROVE  \E m \in {None, job[w].answers} :
              /\ job[w].answers \in SUBSET Questions
              /\ job[w].form \in Forms
              /\ Moves(w, [at |-> "settle", form |-> job[w].form, made |-> m])
  <2>1. job[w] \in ReadJobs
    BY <1>1, <1>3, PlacesHold DEF Synthesize, At
  <2>2. job[w].answers \in SUBSET Questions /\ job[w].form \in Forms
    BY <2>1 DEF ReadJobs
  <2>3. PICK m \in {None, job[w].answers} : Goes(w, [at |-> "settle", form |-> job[w].form, made |-> m])
    BY <1>3 DEF Synthesize
  <2>4. m \in Syntheses
    BY <2>2 DEF Syntheses
  <2>5. [at |-> "settle", form |-> job[w].form, made |-> m] \in Jobs
    BY <2>2, <2>4, JobsAre
  <2> QED
    BY <1>1, <2>2, <2>3, <2>5, GoesMoves
<1>4. ASSUME Say(w)
      PROVE  \E j \in Jobs : /\ Moves(w, j) /\ j.at = "mark" /\ j.kind = job[w].kind
                             /\ job[w].kind \in Kinds
  <2>1. job[w] \in NudgeJobs /\ Goes(w, [job[w] EXCEPT !.at = "mark"])
    BY <1>1, <1>4, PlacesHold DEF Say, At
  <2>2. job[w].kind \in Kinds
    BY <2>1 DEF NudgeJobs
  <2> DEFINE j == [job[w] EXCEPT !.at = "mark"]
  <2>3. j \in Jobs /\ j.at = "mark" /\ j.kind = job[w].kind
    BY <2>1, JobsAre
  <2> HIDE DEF j
  <2> QED
    BY <1>1, <2>1, <2>2, <2>3, GoesMoves DEF j
<1>5. At(w, "mark") => job[w].kind \in Kinds
  BY <1>1, PlacesHold DEF At, NudgeJobs
<1>6. KeepForm(w) \/ NotSaid(w) \/ Mark(w) \/ Record(w) \/ DieUnmarked(w) => Moves(w, Idle)
  <2>1. KeepForm(w) \/ NotSaid(w) \/ Mark(w) \/ Record(w) \/ DieUnmarked(w) => Goes(w, Idle)
    BY DEF KeepForm, NotSaid, Mark, Record, DieUnmarked, Die
  <2> QED
    BY <1>1, <2>1, JobsAre, GoesMoves
<1>7. \A k \in Kinds : Nudge(w, k) => Moves(w, [at |-> "say", kind |-> k])
  BY <1>1, JobsAre, GoesMoves DEF Nudge
<1>8. Digest(w) => Moves(w, [at |-> "digest", date |-> day])
  BY <1>1, JobsAre, GoesMoves DEF Digest
<1>9. ASSUME PostDigest(w)
      PROVE  \/ Moves(w, Idle)
             \/ Moves(w, [at |-> "record", date |-> job[w].date,
                          forms |-> forms, marks |-> marks, digests |-> digests])
  <2>1. job[w].date \in Nat
    BY <1>1, <1>9, PlacesHold DEF PostDigest, At, DigestJobs
  <2>2. [at |-> "record", date |-> job[w].date, forms |-> forms, marks |-> marks,
         digests |-> digests] \in Jobs
    BY <2>1, JobsAre DEF DayShape
  <2>3. \/ Goes(w, Idle)
        \/ Goes(w, [at |-> "record", date |-> job[w].date,
                    forms |-> forms, marks |-> marks, digests |-> digests])
    BY <1>9 DEF PostDigest
  <2> QED
    BY <1>1, <2>2, <2>3, JobsAre, GoesMoves
<1> QED
  BY <1>2, <1>3, <1>4, <1>5, <1>6, <1>7, <1>8, <1>9

\* The steps, each by itself.
LEMMA DaySteps ==
  ASSUME DayNext
  PROVE  \/ \E w \in Workers :
              \/ Start(w) /\ UNCHANGED rvars
              \/ Submit(w) /\ UNCHANGED rvars
              \/ (PostThread(w) \/ PostFails(w)) /\ UNCHANGED rvars
              \/ KeepForm(w) /\ UNCHANGED rvars
              \/ Synthesize(w) /\ UNCHANGED rvars
              \/ Settle(w) /\ UNCHANGED rvars
              \/ DieUnmarked(w) \/ Say(w) \/ NotSaid(w) \/ Mark(w)
              \/ Digest(w) \/ PostDigest(w) \/ Record(w)
              \/ \E k \in Kinds : Nudge(w, k)
         \/ NextDay
BY DEF DayNext, FormsGoOn, FormSteps, NudgeSteps

LEMMA DayShapeKept ==
  ASSUME DayShape, [DayNext]_dayVars
  PROVE  DayShape'
<1> DEFINE TheRest ==
                   /\ threads' \subseteq Forms /\ used' \subseteq Forms /\ dead' \subseteq Forms
                   /\ joint' \subseteq Forms /\ day' \in Nat
                   /\ marks' \in MarkMaps
                   /\ digests' \in Seq(Nat) /\ Len(digests') <= Kept
                   /\ twice' \subseteq Kinds /\ unmarked' \subseteq Kinds
                   /\ said' \subseteq [kind : Kinds, day : Nat]
<1>1. ASSUME NEW w \in Workers, NEW j \in Jobs, Moves(w, j), j.at = "record" => Distinct(j.forms),
             forms' \in Lists /\ Distinct(forms'), TheRest
      PROVE  DayShape'
  BY <1>1, CopiesHold DEF DayShape, Moves
<1>2. UNCHANGED rvars /\ threads' \subseteq Forms /\ used' \subseteq Forms /\ dead' \subseteq Forms
      /\ joint' \subseteq Forms /\ day' \in Nat => TheRest
  BY DEF DayShape, rvars
<1>3. FormsStay => forms' \in Lists /\ Distinct(forms')
      /\ threads' \subseteq Forms /\ used' \subseteq Forms /\ dead' \subseteq Forms
      /\ joint' \subseteq Forms /\ day' \in Nat
  BY DEF DayShape, FormsStay
<1>4. Idle.at # "record"
  BY DEF Idle
<1>5. ASSUME NEW w \in Workers, Start(w), UNCHANGED rvars PROVE DayShape'
  <2>1. PICK f \in Forms, c \in Cadences, b \in BOOLEAN :
           /\ used' = used \cup {f}
           /\ Opening(f, c, b) \in Jobs /\ Moves(w, Opening(f, c, b))
    BY <1>5, StartShape
  <2>2. UNCHANGED <<forms, threads, day, dead, joint>>
    BY <1>5 DEF Start
  <2> QED
    BY <1>1, <1>2, <1>5, <2>1, <2>2 DEF DayShape, Opening
<1>6. ASSUME NEW w \in Workers, Submit(w), UNCHANGED rvars PROVE DayShape'
  <2>1. PICK f \in Forms, given \in SUBSET Questions, r \in FormRecords :
           /\ forms' = Upsert(forms, r)
           /\ Moves(w, [at |-> "synthesize", form |-> f, answers |-> r.answers])
           /\ joint' = IF \E v \in Workers : On(v, f) THEN joint \cup {f} ELSE joint
    BY <1>6, SubmitMoves
  <2>2. UNCHANGED <<threads, day, used, dead>>
    BY <1>6 DEF Submit
  <2>3. forms' \in Lists /\ Distinct(forms')
    BY <2>1, WriteShape
  <2>4. r.answers \in SUBSET Questions
    BY DEF FormRecords
  <2>5. [at |-> "synthesize", form |-> f, answers |-> r.answers] \in Jobs
    BY <2>4, JobsAre
  <2>6. TheRest
    BY <1>2, <1>6, <2>1, <2>2 DEF DayShape
  <2> QED
    BY <1>1, <2>1, <2>3, <2>5, <2>6
<1>7. ASSUME NEW w \in Workers, PostThread(w) \/ PostFails(w), UNCHANGED rvars PROVE DayShape'
  <2>1. PICK j \in Jobs : Moves(w, j) /\ j.at = "keep" /\ j.form = job[w].form /\ j.form \in Forms
    BY <1>7, OtherMoves
  <2>2. UNCHANGED <<forms, day, used, dead, joint>> /\ threads' \subseteq threads \cup {job[w].form}
    BY <1>7 DEF PostThread, PostFails
  <2> QED
    BY <1>1, <1>2, <1>7, <2>1, <2>2 DEF DayShape
<1>8. ASSUME NEW w \in Workers, KeepForm(w), UNCHANGED rvars PROVE DayShape'
  <2>1. PICK r \in FormRecords : forms' = Upsert(forms, r)
    BY <1>8, KeepMoves
  <2>2. forms' \in Lists /\ Distinct(forms') /\ Moves(w, Idle)
    BY <1>8, <2>1, WriteShape, KeepMoves
  <2>3. UNCHANGED <<threads, day, used, dead, joint>>
    BY <1>8 DEF KeepForm
  <2> QED
    BY <1>1, <1>2, <1>4, <1>8, <2>2, <2>3, JobsAre DEF DayShape
<1>9. ASSUME NEW w \in Workers, Synthesize(w), UNCHANGED rvars PROVE DayShape'
  <2>1. PICK m \in {None, job[w].answers} :
           /\ job[w].answers \in SUBSET Questions /\ job[w].form \in Forms
           /\ Moves(w, [at |-> "settle", form |-> job[w].form, made |-> m])
    BY <1>9, OtherMoves
  <2>2. m \in Syntheses
    BY <2>1 DEF Syntheses
  <2>3. [at |-> "settle", form |-> job[w].form, made |-> m] \in Jobs
    BY <2>1, <2>2, JobsAre
  <2>4. UNCHANGED <<forms, threads, day, used, dead, joint>>
    BY <1>9 DEF Synthesize
  <2> QED
    BY <1>1, <1>2, <1>9, <2>1, <2>3, <2>4 DEF DayShape
<1>10. ASSUME NEW w \in Workers, Settle(w), UNCHANGED rvars PROVE DayShape'
  <2>1. UNCHANGED <<threads, day, dead, joint>>
    BY <1>10 DEF Settle
  <2>2. forms' \in Lists /\ Distinct(forms')
    <3>1. forms' = forms \/ \E r \in FormRecords : forms' = Upsert(forms, r)
      BY <1>10, SettleWrites
    <3> QED
      BY <3>1, WriteShape DEF DayShape
  <2>3. CASE used' = used /\ Moves(w, Idle)
    BY <1>1, <1>2, <1>4, <1>10, <2>1, <2>2, <2>3, JobsAre DEF DayShape
  <2>4. CASE \E f \in Forms, c \in Cadences, b \in BOOLEAN :
               /\ used' = used \cup {f}
               /\ Opening(f, c, b) \in Jobs /\ Moves(w, Opening(f, c, b))
    BY <1>1, <1>2, <1>10, <2>1, <2>2, <2>4 DEF DayShape, Opening
  <2> QED
    BY <1>10, <2>3, <2>4, SettleMoves
<1>11. ASSUME NEW w \in Workers, DieUnmarked(w) PROVE DayShape'
  <2>1. Moves(w, Idle)
    BY <1>11, OtherMoves
  <2>2. UNCHANGED <<forms, threads, day, used, joint, marks, digests, said, twice, reverted>>
    BY <1>11 DEF DieUnmarked, Die
  <2>3. unmarked' \subseteq Kinds
    BY <1>11, OtherMoves DEF DieUnmarked, DayShape
  <2>4. dead' \subseteq Forms
    <3>1. dead' = dead \/ (dead' = dead \cup {job[w].form} /\ On(w, job[w].form))
      BY <1>11 DEF DieUnmarked, Die, On
    <3>2. ASSUME On(w, job[w].form) PROVE job[w].form \in Forms
      <4>1. job[w] \in Jobs
        BY DEF DayShape
      <4>2. Holds(job[w], job[w].form)
        BY <3>2, <4>1, HoldsIs DEF On, At
      <4>3. job[w] \in OpenJobs \cup ReadJobs \cup MadeJobs
        BY <4>1, <4>2, PlacesHold DEF Holds
      <4> QED
        BY <4>3 DEF OpenJobs, ReadJobs, MadeJobs
    <3> QED
      BY <3>1, <3>2 DEF DayShape
  <2> QED
    BY <1>1, <1>4, <2>1, <2>2, <2>3, <2>4, JobsAre DEF DayShape
<1>12. ASSUME NEW w \in Workers, Say(w) PROVE DayShape'
  <2>1. PICK j \in Jobs : Moves(w, j) /\ j.at = "mark" /\ job[w].kind \in Kinds
    BY <1>12, OtherMoves
  <2>2. /\ said' = said \cup {[kind |-> job[w].kind, day |-> day]}
        /\ twice' \subseteq twice \cup {job[w].kind}
        /\ FormsStay /\ UNCHANGED <<marks, digests, unmarked, reverted>>
    BY <1>12 DEF Say
  <2> QED
    BY <1>1, <1>3, <2>1, <2>2 DEF DayShape
<1>13. ASSUME NEW w \in Workers, NotSaid(w) PROVE DayShape'
  <2>1. Moves(w, Idle) /\ FormsStay /\ UNCHANGED rvars
    BY <1>13, OtherMoves DEF NotSaid
  <2> QED
    BY <1>1, <1>2, <1>3, <1>4, <2>1, JobsAre
<1>14. ASSUME NEW w \in Workers, Mark(w) PROVE DayShape'
  <2>1. Moves(w, Idle) /\ FormsStay /\ UNCHANGED <<digests, said, twice, unmarked, reverted>>
    BY <1>14, OtherMoves DEF Mark
  <2>2. marks' \in MarkMaps
    BY <1>14 DEF Mark, DayShape, MarkMaps
  <2> QED
    BY <1>1, <1>3, <1>4, <2>1, <2>2, JobsAre DEF DayShape
<1>15. ASSUME NEW w \in Workers, Digest(w) PROVE DayShape'
  <2>1. Moves(w, [at |-> "digest", date |-> day]) /\ FormsStay /\ UNCHANGED rvars
    BY <1>15, OtherMoves DEF Digest
  <2>2. [at |-> "digest", date |-> day] \in Jobs
    BY JobsAre DEF DayShape
  <2> QED
    BY <1>1, <1>2, <1>3, <2>1, <2>2
<1>16. ASSUME NEW w \in Workers, PostDigest(w) PROVE DayShape'
  <2>1. FormsStay /\ UNCHANGED rvars
    BY <1>16 DEF PostDigest
  <2>2. CASE Moves(w, Idle)
    BY <1>1, <1>2, <1>3, <1>4, <2>1, <2>2, JobsAre
  <2>3. CASE Moves(w, [at |-> "record", date |-> job[w].date,
                       forms |-> forms, marks |-> marks, digests |-> digests])
    <3> DEFINE j == [at |-> "record", date |-> job[w].date,
                     forms |-> forms, marks |-> marks, digests |-> digests]
    <3>1. job[w].date \in Nat
      BY <1>16, PlacesHold DEF PostDigest, At, DigestJobs, DayShape
    <3>2. j \in Jobs /\ j.forms = forms
      BY <3>1, JobsAre DEF DayShape
    <3>3. Distinct(j.forms)
      BY <3>2 DEF DayShape
    <3> QED
      BY <1>1, <1>2, <1>3, <2>1, <2>3, <3>2, <3>3
  <2> QED
    BY <1>16, <2>2, <2>3, OtherMoves
<1>17. ASSUME NEW w \in Workers, Record(w) PROVE DayShape'
  <2>1. job[w] \in RecordJobs /\ Distinct(job[w].forms)
    BY <1>17, PlacesHold DEF Record, At, DayShape
  <2>2. forms' \in Lists /\ Distinct(forms') /\ marks' \in MarkMaps
    BY <1>17, <2>1 DEF Record, RecordJobs
  <2>3. job[w].digests \in Seq(Nat) /\ job[w].date \in Nat
    BY <2>1 DEF RecordJobs
  <2>4. digests' \in Seq(Nat) /\ Len(digests') <= Kept
    BY <1>17, <2>3, NewestIs DEF Record
  <2>5. Moves(w, Idle) /\ UNCHANGED <<threads, day, used, dead, joint, said, twice>>
        /\ unmarked' = unmarked \cup {k \in Kinds : job[w].marks[k] # marks[k]}
    BY <1>17, OtherMoves DEF Record
  <2> QED
    BY <1>1, <1>4, <2>2, <2>4, <2>5, JobsAre DEF DayShape
<1>18. ASSUME NEW w \in Workers, NEW k \in Kinds, Nudge(w, k) PROVE DayShape'
  <2>1. /\ Moves(w, [at |-> "say", kind |-> k]) /\ FormsStay
        /\ unmarked' \subseteq unmarked \cup {k} /\ UNCHANGED <<marks, digests, said, twice>>
    BY <1>18, OtherMoves DEF Nudge
  <2>2. [at |-> "say", kind |-> k] \in Jobs
    BY JobsAre
  <2> QED
    BY <1>1, <1>3, <2>1, <2>2 DEF DayShape
<1>19. ASSUME NextDay PROVE DayShape'
  BY <1>19 DEF NextDay, DayPasses, DayShape, At
<1>20. CASE UNCHANGED dayVars
  BY <1>20 DEF dayVars, fvars, rvars, DayShape, At
<1> QED
  BY <1>5, <1>6, <1>7, <1>8, <1>9, <1>10, <1>11, <1>12, <1>13, <1>14, <1>15, <1>16, <1>17,
     <1>18, <1>19, <1>20, DaySteps
-----------------------------------------------------------------------------
(* Ids.                                                                     *)

LEMMA KnownIds ==
  ASSUME NEW new, NEW old, NEW r, Upserted(new, old, r), NEW f
  PROVE  /\ Has(old, f) => Has(new, f)
         /\ Has(new, f) => Has(old, f) \/ f = r.id
         /\ Has(new, r.id)
<1>1. ASSUME Has(old, f) PROVE Has(new, f)
  <2>1. PICK i \in DOMAIN old : old[i].id = f
    BY <1>1 DEF Has
  <2>2. PICK k \in DOMAIN new : new[k] = r
    BY DEF Upserted
  <2>3. CASE f = r.id
    BY <2>2, <2>3 DEF Has
  <2>4. CASE f # r.id
    <3>1. i \in DOMAIN new /\ new[i] = old[i]
      BY <2>1, <2>4 DEF Upserted
    <3> QED
      BY <2>1, <3>1 DEF Has
  <2> QED
    BY <2>3, <2>4
<1>2. ASSUME Has(new, f) PROVE Has(old, f) \/ f = r.id
  BY <1>2 DEF Has, Upserted
<1>3. Has(new, r.id)
  BY DEF Has, Upserted
<1> QED
  BY <1>1, <1>2, <1>3

\* A step that brings no id but those that are out, in the state, in a copy or in
\* the call's hands, and takes only a new one to open, keeps the ids apart.
LEMMA FreshKept ==
  ASSUME DayShape, FreshInv, NEW w \in Workers, NEW j \in Jobs, Moves(w, j), used \subseteq used',
         \A f \in Forms : Has(forms, f)' =>
            \/ Has(forms, f)
            \/ Holds(job[w], f)
            \/ At(w, "record") /\ Has(job[w].forms, f),
         \A f \in Forms : Holds(j, f) => Holds(job[w], f) \/ Has(forms, f) \/ f \in used' \ used,
         j.at \in {"open", "keep"} =>
            /\ j.form \in Forms
            /\ j.form \in used' \ used \/ (Opens(w) /\ job[w].form = j.form /\ forms' = forms),
         j.at = "record" => j.forms = forms
  PROVE  FreshInv'
<1>1. \A v \in Workers : v # w => job'[v] = job[v]
  BY DEF Moves
<1>2. job'[w] = j
  BY DEF Moves
<1>3. \A v \in Workers : job[v] \in Jobs
  BY DEF DayShape
<1>4. \A v \in Workers : Opens(v) => job[v].form \in Forms /\ Holds(job[v], job[v].form)
  BY <1>3, PlacesHold DEF Opens, OpenJobs, Holds
<1>5. \A f \in Forms : Has(forms, f)' => f \in used
  BY DEF FreshInv, At
<1>6. \A v \in Workers, f \in Forms : Holds(job'[v], f) => f \in used'
  BY <1>1, <1>2 DEF FreshInv
<1>7. \A v \in Workers, f \in Forms : At(v, "record")' /\ Has(job[v].forms, f)' => f \in used'
  <2> SUFFICES ASSUME NEW v \in Workers, NEW f \in Forms, At(v, "record")', Has(job'[v].forms, f)
               PROVE  f \in used'
    BY DEF Has
  <2>1. CASE v = w
    BY <1>2, <2>1 DEF FreshInv, At
  <2>2. CASE v # w
    BY <1>1, <2>2 DEF FreshInv, At
  <2> QED
    BY <2>1, <2>2
<1>8. \A v \in Workers : Opens(v)' => ~ Has(forms, job[v].form)'
  <2> SUFFICES ASSUME NEW v \in Workers, job'[v].at \in {"open", "keep"}, Has(forms', job'[v].form)
               PROVE  FALSE
    BY DEF Opens, Has
  <2>1. CASE v = w
    <3>1. j.form \in Forms /\ j.form \in used
      BY <1>2, <1>5, <2>1 DEF Has
    <3>2. Opens(w) /\ job[w].form = j.form /\ forms' = forms
      BY <1>2, <2>1, <3>1
    <3> QED
      BY <1>2, <2>1, <3>2 DEF FreshInv
  <2>2. CASE v # w
    <3>1. job'[v] = job[v] /\ Opens(v) /\ job[v].form \in Forms
      BY <1>1, <1>4, <2>2 DEF Opens
    <3>2. Has(forms, job[v].form) \/ Holds(job[w], job[v].form)
          \/ (At(w, "record") /\ Has(job[w].forms, job[v].form))
      BY <3>1 DEF Has
    <3> QED
      BY <2>2, <3>1, <3>2 DEF FreshInv
  <2> QED
    BY <2>1, <2>2
<1>9. \A u, v \in Workers : Opens(v)' /\ u # v => ~ Holds(job'[u], job'[v].form)
  <2> SUFFICES ASSUME NEW u \in Workers, NEW v \in Workers, u # v, job'[v].at \in {"open", "keep"},
                      Holds(job'[u], job'[v].form)
               PROVE  FALSE
    BY DEF Opens
  <2>1. CASE v = w
    <3>1. job'[u] = job[u] /\ j.form \in Forms /\ Holds(job[u], j.form)
      BY <1>1, <1>2, <2>1
    <3>2. j.form \in used
      BY <3>1 DEF FreshInv
    <3> QED
      BY <1>2, <2>1, <3>1, <3>2 DEF FreshInv
  <2>2. CASE v # w /\ u = w
    <3>1. job'[v] = job[v] /\ Opens(v) /\ job[v].form \in Forms /\ job[v].form \in used
      BY <1>1, <1>4, <2>2 DEF Opens, FreshInv
    <3>2. Holds(job[w], job[v].form) \/ Has(forms, job[v].form)
      BY <1>2, <2>2, <3>1
    <3> QED
      BY <2>2, <3>1, <3>2 DEF FreshInv
  <2>3. CASE v # w /\ u # w
    BY <1>1, <2>3 DEF FreshInv, Opens
  <2> QED
    BY <2>1, <2>2, <2>3
<1>10. \A u, v \in Workers : Opens(v)' /\ At(u, "record")' => ~ Has(job'[u].forms, job'[v].form)
  <2> SUFFICES ASSUME NEW u \in Workers, NEW v \in Workers, job'[v].at \in {"open", "keep"},
                      job'[u].at = "record", Has(job'[u].forms, job'[v].form)
               PROVE  FALSE
    BY DEF Opens, At
  <2>1. CASE v = w
    <3>1. job'[u] = job[u] /\ j.form \in Forms /\ At(u, "record") /\ Has(job[u].forms, j.form)
      BY <1>1, <1>2, <2>1 DEF At
    <3>2. j.form \in used
      BY <3>1 DEF FreshInv
    <3> QED
      BY <1>2, <2>1, <3>1, <3>2 DEF FreshInv
  <2>2. CASE v # w /\ u = w
    <3>1. job'[v] = job[v] /\ Opens(v) /\ Has(forms, job[v].form)
      BY <1>1, <1>2, <2>2 DEF Opens
    <3> QED
      BY <3>1 DEF FreshInv
  <2>3. CASE v # w /\ u # w
    BY <1>1, <2>3 DEF FreshInv, Opens, At
  <2> QED
    BY <2>1, <2>2, <2>3
<1>11. \A f \in Forms : Has(forms, f)' => f \in used'
  BY <1>5
<1> QED
  BY <1>6, <1>7, <1>8, <1>9, <1>10, <1>11 DEF FreshInv, Has

LEMMA FreshStep ==
  ASSUME DayShape, FreshInv, [DayNext]_dayVars
  PROVE  FreshInv'
<1>1. Idle \in Jobs /\ Idle.at = "idle" /\ \A f : ~ Holds(Idle, f)
  BY DEF Jobs, Idle, Holds
<1>2. \A w \in Workers : job[w] \in Jobs
  BY DEF DayShape
<1>3. ASSUME NEW w \in Workers, Moves(w, Idle), forms' = forms, used' = used PROVE FreshInv'
  BY <1>1, <1>3, FreshKept DEF Has
<1>4. ASSUME NEW w \in Workers, NEW j \in Jobs, Moves(w, j), forms' = forms, used' = used,
             \A f : ~ Holds(j, f), j.at = "record" => j.forms = forms
      PROVE  FreshInv'
  BY <1>4, FreshKept DEF Has, Holds
<1>5. ASSUME NEW w \in Workers, NEW f \in Forms, NEW c \in Cadences, NEW b \in BOOLEAN, New(f),
             used' = used \cup {f}, Opening(f, c, b) \in Jobs, Moves(w, Opening(f, c, b)),
             \A g \in Forms : Has(forms, g)' => Has(forms, g)
      PROVE  FreshInv'
  <2> DEFINE j == Opening(f, c, b)
  <2>1. j.at = "open" /\ j.form = f /\ \A g : Holds(j, g) => g = f
    BY DEF Opening, Holds
  <2>2. f \in used' \ used
    BY <1>5 DEF New
  <2> HIDE DEF j
  <2> QED
    BY <1>5, <2>1, <2>2, FreshKept DEF j
<1>6. ASSUME NEW w \in Workers, Start(w) PROVE FreshInv'
  <2>1. PICK f \in Forms, c \in Cadences, b \in BOOLEAN :
           /\ New(f) /\ used' = used \cup {f}
           /\ Opening(f, c, b) \in Jobs /\ Moves(w, Opening(f, c, b))
    BY <1>6, StartShape
  <2>2. forms' = forms
    BY <1>6 DEF Start
  <2> QED
    BY <1>5, <2>1, <2>2 DEF Has
<1>7. ASSUME NEW w \in Workers, Submit(w) PROVE FreshInv'
  <2>1. PICK f \in Forms, given \in SUBSET Questions, r \in FormRecords :
           /\ Known(f) /\ r.id = f
           /\ forms' = Upsert(forms, r)
           /\ Moves(w, [at |-> "synthesize", form |-> f, answers |-> r.answers])
    BY <1>7, SubmitMoves
  <2>2. Upserted(forms', forms, r) /\ Has(forms, f) /\ used' = used
    BY <1>7, <2>1, WriteShape DEF Submit, Known, Has
  <2> DEFINE j == [at |-> "synthesize", form |-> f, answers |-> r.answers]
  <2>3. r.answers \in SUBSET Questions
    BY DEF FormRecords
  <2>4. j \in Jobs /\ j.at = "synthesize" /\ \A g : Holds(j, g) => g = f
    BY <2>3, JobsAre DEF Holds
  <2>5. \A g \in Forms : Has(forms, g)' => Has(forms, g)
    BY <2>1, <2>2, KnownIds DEF Has
  <2> HIDE DEF j
  <2> QED
    BY <2>1, <2>2, <2>4, <2>5, FreshKept DEF j
<1>8. ASSUME NEW w \in Workers, PostThread(w) \/ PostFails(w) PROVE FreshInv'
  <2>1. PICK j \in Jobs : Moves(w, j) /\ j.at = "keep" /\ j.form = job[w].form /\ j.form \in Forms
    BY <1>8, OtherMoves
  <2>2. forms' = forms /\ used' = used /\ job[w].at = "open"
    BY <1>8 DEF PostThread, PostFails, At
  <2>3. \A g : Holds(j, g) => Holds(job[w], g)
    BY <2>1, <2>2 DEF Holds
  <2> QED
    BY <2>1, <2>2, <2>3, FreshKept DEF Has, Opens
<1>9. ASSUME NEW w \in Workers, KeepForm(w) PROVE FreshInv'
  <2>1. PICK r \in FormRecords : r.id = job[w].form /\ forms' = Upsert(forms, r)
    BY <1>9, KeepMoves
  <2>2. Moves(w, Idle) /\ Upserted(forms', forms, r) /\ used' = used
    BY <1>9, <2>1, KeepMoves, WriteShape DEF KeepForm
  <2>3. Holds(job[w], job[w].form)
    BY <1>9 DEF KeepForm, At, Holds
  <2>4. \A g \in Forms : Has(forms, g)' => Has(forms, g) \/ Holds(job[w], g)
    BY <2>1, <2>2, <2>3, KnownIds DEF Has
  <2> QED
    BY <1>1, <2>2, <2>4, FreshKept
<1>10. ASSUME NEW w \in Workers, Synthesize(w) PROVE FreshInv'
  <2>1. PICK m \in {None, job[w].answers} :
           /\ job[w].answers \in SUBSET Questions /\ job[w].form \in Forms
           /\ Moves(w, [at |-> "settle", form |-> job[w].form, made |-> m])
    BY <1>10, OtherMoves
  <2> DEFINE j == [at |-> "settle", form |-> job[w].form, made |-> m]
  <2>2. m \in Syntheses
    BY <2>1 DEF Syntheses
  <2>3. j \in Jobs /\ j.at = "settle" /\ j.form = job[w].form
    BY <2>1, <2>2, JobsAre
  <2>4. \A g : Holds(j, g) => Holds(job[w], g)
    BY <1>10, <2>3 DEF Holds, Synthesize, At
  <2>5. forms' = forms /\ used' = used
    BY <1>10 DEF Synthesize
  <2> HIDE DEF j
  <2> QED
    BY <2>1, <2>3, <2>4, <2>5, FreshKept DEF Has, j
<1>11. ASSUME NEW w \in Workers, Settle(w) PROVE FreshInv'
  <2>1. \A g \in Forms : Has(forms, g)' => Has(forms, g)
    <3>1. CASE forms' = forms
      BY <3>1 DEF Has
    <3>2. CASE \E r \in FormRecords : /\ Known(job[w].form) /\ r.id = job[w].form
                                      /\ forms' = Upsert(forms, r)
      <4>1. PICK r \in FormRecords : /\ Known(job[w].form) /\ r.id = job[w].form
                                     /\ forms' = Upsert(forms, r)
        BY <3>2
      <4>2. Upserted(forms', forms, r) /\ Has(forms, r.id)
        BY <4>1, WriteShape DEF Known, Has
      <4> QED
        BY <4>2, KnownIds DEF Has
    <3> QED
      BY <1>11, <3>1, <3>2, SettleWrites
  <2>2. CASE used' = used /\ Moves(w, Idle)
    BY <1>1, <2>1, <2>2, FreshKept
  <2>3. CASE \E f \in Forms, c \in Cadences, b \in BOOLEAN :
              /\ New(f) /\ used' = used \cup {f}
              /\ Opening(f, c, b) \in Jobs /\ Moves(w, Opening(f, c, b))
    BY <1>5, <2>1, <2>3
  <2> QED
    BY <1>11, <2>2, <2>3, SettleMoves
<1>12. ASSUME NEW w \in Workers, DieUnmarked(w) \/ NotSaid(w) \/ Mark(w) PROVE FreshInv'
  <2>1. Moves(w, Idle) /\ forms' = forms /\ used' = used
    BY <1>12, OtherMoves DEF DieUnmarked, Die, NotSaid, Mark, FormsStay
  <2> QED
    BY <1>3, <2>1
<1>13. ASSUME NEW w \in Workers, Record(w) PROVE FreshInv'
  <2>1. Moves(w, Idle) /\ forms' = job[w].forms /\ used' = used /\ At(w, "record")
    BY <1>13, OtherMoves DEF Record
  <2>2. \A g \in Forms : Has(forms, g)' => Has(job[w].forms, g)
    BY <2>1 DEF Has
  <2> QED
    BY <1>1, <2>1, <2>2, FreshKept
<1>14. ASSUME NEW w \in Workers, Say(w) PROVE FreshInv'
  <2>1. PICK j \in Jobs : Moves(w, j) /\ j.at = "mark"
    BY <1>14, OtherMoves
  <2>2. forms' = forms /\ used' = used
    BY <1>14 DEF Say, FormsStay
  <2> QED
    BY <1>4, <2>1, <2>2 DEF Holds
<1>15. ASSUME NEW w \in Workers, NEW k \in Kinds, Nudge(w, k) PROVE FreshInv'
  <2> DEFINE j == [at |-> "say", kind |-> k]
  <2>1. Moves(w, j) /\ forms' = forms /\ used' = used
    BY <1>15, OtherMoves DEF Nudge, FormsStay
  <2>2. j \in Jobs /\ j.at = "say"
    BY JobsAre
  <2> HIDE DEF j
  <2> QED
    BY <1>4, <2>1, <2>2 DEF Holds
<1>16. ASSUME NEW w \in Workers, Digest(w) PROVE FreshInv'
  <2> DEFINE j == [at |-> "digest", date |-> day]
  <2>1. Moves(w, j) /\ forms' = forms /\ used' = used
    BY <1>16, OtherMoves DEF Digest, FormsStay
  <2>2. j \in Jobs /\ j.at = "digest"
    BY JobsAre DEF DayShape
  <2> HIDE DEF j
  <2> QED
    BY <1>4, <2>1, <2>2 DEF Holds
<1>17. ASSUME NEW w \in Workers, PostDigest(w) PROVE FreshInv'
  <2> DEFINE j == [at |-> "record", date |-> job[w].date,
                   forms |-> forms, marks |-> marks, digests |-> digests]
  <2>1. (Moves(w, Idle) \/ Moves(w, j)) /\ forms' = forms /\ used' = used
    BY <1>17, OtherMoves DEF PostDigest, FormsStay
  <2>2. job[w].date \in Nat
    BY <1>17, PlacesHold DEF PostDigest, At, DigestJobs, DayShape
  <2>3. j \in Jobs /\ j.at = "record" /\ j.forms = forms
    BY <2>2, JobsAre DEF DayShape
  <2> HIDE DEF j
  <2> QED
    BY <1>3, <1>4, <2>1, <2>3 DEF Holds
<1>18. ASSUME NextDay \/ UNCHANGED dayVars PROVE FreshInv'
  <2>1. UNCHANGED <<forms, used, job>>
    BY <1>18 DEF NextDay, DayPasses, dayVars, fvars
  <2> QED
    BY <2>1 DEF FreshInv, Has, At, Opens
<1> QED
  BY <1>6, <1>7, <1>8, <1>9, <1>10, <1>11, <1>12, <1>13, <1>14, <1>15, <1>16, <1>17, <1>18, DaySteps
-----------------------------------------------------------------------------
(* Forms, while no digest wrote back older ones.                            *)

\* What a record that is written has to respect: who synthesizes it is the call
\* that writes it, a synthesis is of its answers, and no other submission of it
\* goes by answers it does not keep.
WritesWell(w, j, r) ==
  /\ Upserted(forms', forms, r)
  /\ r.status = "synthesizing" => Holds(j, r.id)
  /\ r.status = "completed" => r.synthesis = r.answers \/ r.id \in joint' \cup dead'
  /\ \A v \in Workers : v # w /\ job[v].at \in {"synthesize", "settle"} /\ job[v].form = r.id =>
        \/ r.id \in joint' \cup dead'
        \/ \A i \in DOMAIN forms : forms[i].id = r.id => r.answers = forms[i].answers

LEMMA CarriesOn ==
  ASSUME dead \subseteq dead', joint \subseteq joint', NEW a, NEW f, Carries(a, f),
         NEW r,
         \/ forms' = forms
         \/ /\ Upserted(forms', forms, r)
            /\ \/ f # r.id
               \/ f \in joint' \cup dead'
               \/ \A i \in DOMAIN forms : forms[i].id = f => r.answers = forms[i].answers
  PROVE  Has(forms', f) /\ (f \in joint' \cup dead' \/
            \A i \in DOMAIN forms' : forms'[i].id = f => forms'[i].answers = a)
<1>1. CASE forms' = forms
  BY <1>1 DEF Carries, Has
<1>2. CASE forms' # forms
  <2>1. Upserted(forms', forms, r)
    BY <1>2
  <2>2. Has(forms', f)
    BY <2>1, KnownIds DEF Carries
  <2>3. ASSUME f \notin joint' \cup dead', NEW i \in DOMAIN forms', forms'[i].id = f
        PROVE  forms'[i].answers = a
    <3>1. \A k \in DOMAIN forms : forms[k].id = f => forms[k].answers = a
      BY <2>3 DEF Carries
    <3>2. CASE forms'[i] = r
      <4>1. \A k \in DOMAIN forms : forms[k].id = f => r.answers = forms[k].answers
        BY <1>2, <2>3, <3>2
      <4>2. PICK k \in DOMAIN forms : forms[k].id = f
        BY DEF Carries, Has
      <4> QED
        BY <3>1, <3>2, <4>1, <4>2
    <3>3. CASE forms'[i] # r
      BY <2>1, <2>3, <3>1, <3>3 DEF Upserted
    <3> QED
      BY <3>2, <3>3
  <2> QED
    BY <2>2, <2>3
<1> QED
  BY <1>1, <1>2

LEMMA FormsKept ==
  ASSUME DayShape, FormsGood, NEW w \in Workers, NEW j \in Jobs, Moves(w, j),
         dead \subseteq dead', joint \subseteq joint',
         NEW r, forms' = forms \/ WritesWell(w, j, r),
         \A f \in threads' : f \in threads \/ Holds(j, f),
         \A f : Holds(job[w], f) =>
            \/ Holds(j, f)
            \/ f \in dead'
            \/ Has(forms', f) /\ \A i \in DOMAIN forms' : forms'[i].id = f => forms'[i].status # "synthesizing",
         j.at = "synthesize" => Carries(j.answers, j.form)',
         j.at = "settle" => /\ Has(forms', j.form)
                            /\ j.made # None => Carries(j.made, j.form)'
  PROVE  FormsGood'
<1>1. \A v \in Workers : v # w => job'[v] = job[v]
  BY DEF Moves
<1>2. job'[w] = j
  BY DEF Moves
<1>3. \A f : Has(forms, f) => Has(forms', f)
  BY KnownIds DEF WritesWell
<1>4. \A v \in Workers : v # w /\ job[v].at \in {"synthesize", "settle"} => Has(forms, job[v].form)
  BY DEF FormsGood, CarryInv, At, Carries
<1>5. CarryInv'
  <2>1. ASSUME NEW v \in Workers, NEW a, v # w, job[v].at \in {"synthesize", "settle"},
               Carries(a, job[v].form)
        PROVE  Has(forms', job[v].form) /\ (job[v].form \in joint' \cup dead' \/
                 \A i \in DOMAIN forms' : forms'[i].id = job[v].form => forms'[i].answers = a)
    <3>1. \/ forms' = forms
          \/ /\ Upserted(forms', forms, r)
             /\ \/ job[v].form # r.id
                \/ job[v].form \in joint' \cup dead'
                \/ \A i \in DOMAIN forms : forms[i].id = job[v].form => r.answers = forms[i].answers
      BY <2>1 DEF WritesWell
    <3> QED
      BY <2>1, <3>1, CarriesOn
  <2>2. ASSUME NEW v \in Workers, At(v, "synthesize")'
        PROVE  Carries(job[v].answers, job[v].form)'
    <3>1. CASE v = w
      BY <1>2, <2>2, <3>1 DEF At
    <3>2. CASE v # w
      <4>1. job'[v] = job[v] /\ job[v].at = "synthesize"
        BY <1>1, <2>2, <3>2 DEF At
      <4>2. Carries(job[v].answers, job[v].form)
        BY <4>1 DEF FormsGood, CarryInv, At
      <4> QED
        BY <2>1, <3>2, <4>1, <4>2 DEF Carries
    <3> QED
      BY <3>1, <3>2
  <2>3. ASSUME NEW v \in Workers, At(v, "settle")'
        PROVE  /\ Has(forms, job[v].form)'
               /\ (job[v].made # None)' => Carries(job[v].made, job[v].form)'
    <3>1. CASE v = w
      BY <1>2, <2>3, <3>1 DEF At
    <3>2. CASE v # w
      <4>1. job'[v] = job[v] /\ job[v].at = "settle"
        BY <1>1, <2>3, <3>2 DEF At
      <4>2. job[v].made # None => Carries(job[v].made, job[v].form)
        BY <4>1 DEF FormsGood, CarryInv, At
      <4>3. Has(forms', job[v].form)
        BY <1>3, <1>4, <3>2, <4>1
      <4> QED
        BY <2>1, <3>2, <4>1, <4>2, <4>3 DEF Carries
    <3> QED
      BY <3>1, <3>2
  <2> QED
    BY <2>2, <2>3 DEF CarryInv
<1>6. ThreadInv'
  <2> SUFFICES ASSUME NEW f \in threads'
               PROVE  Has(forms', f) \/ f \in dead' \/ \E v \in Workers : Holds(job'[v], f)
    BY DEF ThreadInv, Has
  <2>1. CASE Holds(j, f)
    BY <1>2, <2>1
  <2>2. CASE ~ Holds(j, f)
    <3>1. Has(forms, f) \/ f \in dead \/ \E v \in Workers : Holds(job[v], f)
      BY <2>2 DEF FormsGood, ThreadInv
    <3>2. CASE \E v \in Workers : Holds(job[v], f)
      BY <1>1, <1>2, <2>2, <3>2
    <3> QED
      BY <1>3, <3>1, <3>2
  <2> QED
    BY <2>1, <2>2
<1>7. GoesOnInv'
  <2> SUFFICES ASSUME NEW i \in DOMAIN forms', forms'[i].status = "synthesizing"
               PROVE  forms'[i].id \in dead' \/ \E v \in Workers : Holds(job'[v], forms'[i].id)
    BY DEF GoesOnInv
  <2> DEFINE f == forms'[i].id
  <2>1. CASE forms' # forms /\ forms'[i] = r
    BY <1>2, <2>1 DEF WritesWell
  <2>2. CASE forms' = forms \/ forms'[i] # r
    <3>1. i \in DOMAIN forms /\ forms'[i] = forms[i]
      BY <2>2 DEF WritesWell, Upserted
    <3>2. f \in dead \/ \E v \in Workers : Holds(job[v], f)
      BY <3>1 DEF FormsGood, GoesOnInv
    <3>3. ASSUME NEW v \in Workers, Holds(job[v], f)
          PROVE  f \in dead' \/ \E u \in Workers : Holds(job'[u], f)
      BY <1>1, <1>2, <3>3
    <3> QED
      BY <3>2, <3>3
  <2> QED
    BY <2>1, <2>2
<1>8. SynthesisIsCurrent'
  <2> SUFFICES ASSUME NEW i \in DOMAIN forms', forms'[i].status = "completed"
               PROVE  forms'[i].synthesis = forms'[i].answers \/ forms'[i].id \in joint' \cup dead'
    BY DEF SynthesisIsCurrent
  <2>1. CASE forms' # forms /\ forms'[i] = r
    BY <2>1 DEF WritesWell
  <2>2. CASE forms' = forms \/ forms'[i] # r
    <3>1. i \in DOMAIN forms /\ forms'[i] = forms[i]
      BY <2>2 DEF WritesWell, Upserted
    <3> QED
      BY <3>1 DEF FormsGood, SynthesisIsCurrent
  <2> QED
    BY <2>1, <2>2
<1> QED
  BY <1>5, <1>6, <1>7, <1>8 DEF FormsGood

LEMMA FormsStep ==
  ASSUME DayShape, FreshInv, FormsInv, [DayNext]_dayVars
  PROVE  FormsInv'
<1> SUFFICES ASSUME ~ reverted' PROVE FormsGood'
  BY DEF FormsInv
<1>1. Idle \in Jobs /\ Idle.at = "idle" /\ \A f : ~ Holds(Idle, f)
  BY DEF Jobs, Idle, Holds
<1>2. UNCHANGED rvars \/ reverted' = reverted \/ ~ reverted => FormsGood
  BY DEF rvars, FormsInv
<1>3. ASSUME FormsGood, NEW w \in Workers, NEW j \in Jobs, Moves(w, j), forms' = forms,
             threads' = threads, dead' = dead, joint' = joint,
             \A f : ~ Holds(job[w], f), j.at \notin {"synthesize", "settle"}
      PROVE  FormsGood'
  BY <1>3, FormsKept
<1>4. ASSUME NEW w \in Workers, Start(w), UNCHANGED rvars PROVE FormsGood'
  <2>1. PICK f \in Forms, c \in Cadences, b \in BOOLEAN :
           Opening(f, c, b) \in Jobs /\ Moves(w, Opening(f, c, b))
    BY <1>4, StartShape
  <2>2. Opening(f, c, b).at = "open"
    BY DEF Opening
  <2>3. UNCHANGED <<forms, threads, dead, joint>> /\ \A g : ~ Holds(job[w], g)
    BY <1>4 DEF Start, At, Holds
  <2> QED
    BY <1>2, <1>3, <1>4, <2>1, <2>2, <2>3
<1>5. ASSUME NEW w \in Workers, Submit(w), UNCHANGED rvars PROVE FormsGood'
  <2>1. PICK f \in Forms, given \in SUBSET Questions, r \in FormRecords :
           /\ Known(f)
           /\ r.id = f /\ r.status = "synthesizing"
           /\ forms' = Upsert(forms, r)
           /\ Moves(w, [at |-> "synthesize", form |-> f, answers |-> r.answers])
           /\ joint' = IF \E v \in Workers : On(v, f) THEN joint \cup {f} ELSE joint
    BY <1>5, SubmitMoves
  <2>2. Upserted(forms', forms, r) /\ Distinct(forms') /\ Has(forms', r.id)
    BY <2>1, WriteShape, KnownIds
  <2> DEFINE j == [at |-> "synthesize", form |-> f, answers |-> r.answers]
  <2>3. r.answers \in SUBSET Questions
    BY DEF FormRecords
  <2>4. j \in Jobs /\ j.at = "synthesize" /\ j.form = f /\ j.answers = r.answers
    BY <2>3, JobsAre
  <2>5. UNCHANGED <<threads, dead>> /\ \A g : ~ Holds(job[w], g)
    BY <1>5 DEF Submit, At, Holds
  <2>6. Carries(j.answers, j.form)'
    <3>1. PICK k \in DOMAIN forms' : forms'[k] = r
      BY <2>2 DEF Upserted
    <3>2. \A i \in DOMAIN forms' : forms'[i].id = f => forms'[i] = r
      BY <2>1, <2>2, <3>1 DEF Distinct
    <3> QED
      BY <2>1, <2>2, <2>4, <3>2 DEF Carries, Has
  <2>7. WritesWell(w, j, r)
    <3>1. \A v \in Workers : job[v].at \in {"synthesize", "settle"} /\ job[v].form = f => On(v, f)
      <4> SUFFICES ASSUME NEW v \in Workers, job[v].at \in {"synthesize", "settle"}, job[v].form = f
                   PROVE  On(v, f)
        OBVIOUS
      <4>1. job[v] \in Jobs /\ Holds(job[v], f)
        BY DEF DayShape, Holds
      <4> QED
        BY <4>1, HoldsIs DEF On, At
    <3>2. \A v \in Workers : job[v].at \in {"synthesize", "settle"} /\ job[v].form = f => f \in joint'
      BY <2>1, <3>1
    <3> QED
      BY <2>1, <2>2, <2>4, <3>2 DEF WritesWell, Holds
  <2>8. joint \subseteq joint'
    BY <2>1
  <2> HIDE DEF j
  <2> QED
    BY <1>2, <1>5, <2>1, <2>4, <2>5, <2>6, <2>7, <2>8, FormsKept DEF j
<1>6. ASSUME NEW w \in Workers, PostThread(w) \/ PostFails(w), UNCHANGED rvars PROVE FormsGood'
  <2>1. PICK j \in Jobs : Moves(w, j) /\ j.at = "keep" /\ j.form = job[w].form /\ j.form \in Forms
    BY <1>6, OtherMoves
  <2>2. /\ UNCHANGED <<forms, dead, joint>> /\ job[w].at = "open"
        /\ threads' \subseteq threads \cup {job[w].form}
    BY <1>6 DEF PostThread, PostFails, At
  <2>3. \A f : Holds(job[w], f) => Holds(j, f)
    BY <2>1, <2>2 DEF Holds
  <2>4. \A f \in threads' : f \in threads \/ Holds(j, f)
    BY <2>1, <2>2 DEF Holds
  <2>5. FormsGood
    BY <1>2, <1>6
  <2> QED
    BY <2>1, <2>2, <2>3, <2>4, <2>5, FormsKept
<1>7. ASSUME NEW w \in Workers, KeepForm(w), UNCHANGED rvars PROVE FormsGood'
  <2>1. PICK r \in FormRecords :
           /\ r.id = job[w].form /\ r.status \in {"awaiting", "failed"}
           /\ forms' = Upsert(forms, r)
    BY <1>7, KeepMoves
  <2>2. Upserted(forms', forms, r) /\ Distinct(forms') /\ Has(forms', r.id) /\ Moves(w, Idle)
    BY <1>7, <2>1, WriteShape, KnownIds, KeepMoves
  <2>3. UNCHANGED <<threads, dead, joint>> /\ Opens(w)
    BY <1>7 DEF KeepForm, At, Opens
  <2>4. WritesWell(w, Idle, r)
    <3>1. \A v \in Workers : v # w => ~ (job[v].at \in {"synthesize", "settle"} /\ job[v].form = r.id)
      BY <2>1, <2>3 DEF FreshInv, Holds
    <3> QED
      BY <2>1, <2>2, <3>1 DEF WritesWell
  <2>5. \A f : Holds(job[w], f) => Has(forms', f)
           /\ \A i \in DOMAIN forms' : forms'[i].id = f => forms'[i].status # "synthesizing"
    <3> SUFFICES ASSUME NEW f, Holds(job[w], f), NEW i \in DOMAIN forms', forms'[i].id = f
                 PROVE  forms'[i].status # "synthesizing"
      BY <2>1, <2>2 DEF Holds
    <3>1. f = r.id
      BY <2>1 DEF Holds
    <3>2. forms'[i] = r
      BY <2>2, <3>1 DEF Upserted
    <3> QED
      BY <2>1, <3>2
  <2>6. FormsGood
    BY <1>2, <1>7
  <2> QED
    BY <1>1, <2>2, <2>3, <2>4, <2>5, <2>6, FormsKept
<1>8. ASSUME NEW w \in Workers, Synthesize(w), UNCHANGED rvars PROVE FormsGood'
  <2>1. PICK m \in {None, job[w].answers} :
           /\ job[w].answers \in SUBSET Questions /\ job[w].form \in Forms
           /\ Moves(w, [at |-> "settle", form |-> job[w].form, made |-> m])
    BY <1>8, OtherMoves
  <2>2. m \in Syntheses
    BY <2>1 DEF Syntheses
  <2>3. PICK j \in Jobs : Moves(w, j) /\ j.at = "settle" /\ j.form = job[w].form /\ j.made = m
    BY <2>1, <2>2, JobsAre
  <2>4. UNCHANGED <<forms, threads, dead, joint>> /\ job[w].at = "synthesize"
    BY <1>8 DEF Synthesize, At
  <2>5. FormsGood
    BY <1>2, <1>8
  <2>6. Carries(job[w].answers, job[w].form)
    BY <2>4, <2>5 DEF FormsGood, CarryInv, At
  <2>7. Has(forms', j.form) /\ (j.made # None => Carries(j.made, j.form)')
    BY <2>1, <2>3, <2>4, <2>6 DEF Carries, Has
  <2>8. \A f : Holds(job[w], f) => Holds(j, f)
    BY <2>3, <2>4 DEF Holds
  <2> QED
    BY <2>3, <2>4, <2>5, <2>7, <2>8, FormsKept
<1>9. ASSUME NEW w \in Workers, Settle(w), UNCHANGED rvars PROVE FormsGood'
  <2> DEFINE f == job[w].form
  <2>1. FormsGood
    BY <1>2, <1>9
  <2>2. UNCHANGED <<threads, dead, joint>> /\ job[w].at = "settle"
    BY <1>9 DEF Settle, At
  <2>3. Known(f)
    BY <2>1, <2>2 DEF FormsGood, CarryInv, At, Known, Has
  <2>4. PICK r \in FormRecords :
           /\ f \in Forms
           /\ r.id = f /\ r.synthesis = job[w].made /\ r.answers = Form(f).answers
           /\ r.status = IF job[w].made # None THEN "completed" ELSE "failed"
           /\ forms' = Upsert(forms, r)
    BY <1>9, <2>3, SettleWrites
  <2>5. Upserted(forms', forms, r) /\ Has(forms', r.id)
    BY <2>4, WriteShape, KnownIds
  <2>6. \A i \in DOMAIN forms : forms[i].id = f => r.answers = forms[i].answers
    <3> SUFFICES ASSUME NEW i \in DOMAIN forms, forms[i].id = f PROVE r.answers = forms[i].answers
      OBVIOUS
    <3>1. FormIn(forms, f) = forms[i]
      BY OneForm DEF DayShape
    <3>2. Form(f) = FormIn(forms, f)
      BY DEF Form, FormIn
    <3> QED
      BY <2>4, <3>1, <3>2
  <2>7. r.status = "completed" => r.synthesis = r.answers \/ r.id \in joint' \cup dead'
    <3> SUFFICES ASSUME r.status = "completed", r.id \notin joint' \cup dead'
                 PROVE  r.synthesis = r.answers
      OBVIOUS
    <3>1. job[w].made # None
      BY <2>4
    <3>2. Carries(job[w].made, f)
      BY <2>1, <2>2, <3>1 DEF FormsGood, CarryInv, At
    <3>3. PICK i \in DOMAIN forms : forms[i].id = f /\ forms[i].answers = job[w].made
      BY <2>2, <2>4, <3>2 DEF Carries, Has
    <3> QED
      BY <2>4, <2>6, <3>3
  <2>8. \A j : WritesWell(w, j, r)
    BY <2>4, <2>5, <2>6, <2>7 DEF WritesWell
  <2>9. \A g : Holds(job[w], g) => Has(forms', g)
           /\ \A i \in DOMAIN forms' : forms'[i].id = g => forms'[i].status # "synthesizing"
    <3> SUFFICES ASSUME NEW g, Holds(job[w], g), NEW i \in DOMAIN forms', forms'[i].id = g
                 PROVE  forms'[i].status # "synthesizing"
      BY <2>4, <2>5 DEF Holds
    <3>1. g = r.id
      BY <2>4 DEF Holds
    <3>2. forms'[i] = r
      BY <2>5, <3>1 DEF Upserted
    <3> QED
      BY <2>4, <3>2
  <2>10. \E j \in Jobs : Moves(w, j) /\ j.at \in {"idle", "open"}
    BY <1>1, <1>9, SettleMoves DEF Opening
  <2> QED
    BY <2>1, <2>2, <2>8, <2>9, <2>10, FormsKept
<1>10. ASSUME NEW w \in Workers, DieUnmarked(w) PROVE FormsGood'
  <2>1. Moves(w, Idle) /\ UNCHANGED <<forms, threads, joint, reverted>>
    BY <1>10, OtherMoves DEF DieUnmarked, Die
  <2>2. job[w] \in Jobs
    BY DEF DayShape
  <2>3. dead \subseteq dead' /\ \A f : Holds(job[w], f) => f \in dead'
    BY <1>10, <2>2, HoldsIs DEF DieUnmarked, Die
  <2>4. FormsGood
    BY <1>2, <2>1
  <2> QED
    BY <1>1, <2>1, <2>3, <2>4, FormsKept
<1>11. ASSUME NEW w \in Workers, NotSaid(w) \/ Mark(w) \/ Record(w) PROVE FormsGood'
  <2>1. /\ Moves(w, Idle) /\ UNCHANGED <<forms, threads, dead, joint>>
        /\ reverted' = reverted \/ ~ reverted
    BY <1>11, OtherMoves DEF NotSaid, Mark, Record, FormsStay, rvars
  <2>2. \A f : ~ Holds(job[w], f)
    BY <1>11 DEF NotSaid, Mark, Record, At, Holds
  <2>3. FormsGood
    BY <1>2, <2>1
  <2> QED
    BY <1>1, <1>3, <2>1, <2>2, <2>3
<1>12. ASSUME NEW w \in Workers, Say(w) PROVE FormsGood'
  <2>1. PICK j \in Jobs : Moves(w, j) /\ j.at = "mark"
    BY <1>12, OtherMoves
  <2>2. UNCHANGED <<forms, threads, dead, joint, reverted>> /\ \A f : ~ Holds(job[w], f)
    BY <1>12 DEF Say, FormsStay, At, Holds
  <2>3. FormsGood
    BY <1>2, <2>2
  <2> QED
    BY <1>3, <2>1, <2>2, <2>3
<1>13. ASSUME NEW w \in Workers, NEW k \in Kinds, Nudge(w, k) PROVE FormsGood'
  <2> DEFINE j == [at |-> "say", kind |-> k]
  <2>1. Moves(w, j) /\ UNCHANGED <<forms, threads, dead, joint, reverted>> /\ \A f : ~ Holds(job[w], f)
    BY <1>13, OtherMoves DEF Nudge, FormsStay, At, Holds
  <2>2. j \in Jobs /\ j.at = "say"
    BY JobsAre
  <2>3. FormsGood
    BY <1>2, <2>1
  <2> HIDE DEF j
  <2> QED
    BY <1>3, <2>1, <2>2, <2>3
<1>14. ASSUME NEW w \in Workers, Digest(w) PROVE FormsGood'
  <2> DEFINE j == [at |-> "digest", date |-> day]
  <2>1. Moves(w, j) /\ UNCHANGED <<forms, threads, dead, joint>> /\ \A f : ~ Holds(job[w], f)
    BY <1>14, OtherMoves DEF Digest, FormsStay, At, Holds
  <2>2. j \in Jobs /\ j.at = "digest"
    BY JobsAre DEF DayShape
  <2>3. FormsGood
    BY <1>2, <1>14 DEF Digest
  <2> HIDE DEF j
  <2> QED
    BY <1>3, <2>1, <2>2, <2>3
<1>15. ASSUME NEW w \in Workers, PostDigest(w) PROVE FormsGood'
  <2> DEFINE j == [at |-> "record", date |-> job[w].date,
                   forms |-> forms, marks |-> marks, digests |-> digests]
  <2>1. /\ Moves(w, Idle) \/ Moves(w, j)
        /\ UNCHANGED <<forms, threads, dead, joint>> /\ \A f : ~ Holds(job[w], f)
    BY <1>15, OtherMoves DEF PostDigest, FormsStay, At, Holds
  <2>2. job[w].date \in Nat
    BY <1>15, PlacesHold DEF PostDigest, At, DigestJobs, DayShape
  <2>3. j \in Jobs /\ j.at = "record"
    BY <2>2, JobsAre DEF DayShape
  <2>4. FormsGood
    BY <1>2, <1>15 DEF PostDigest
  <2> HIDE DEF j
  <2> QED
    BY <1>1, <1>3, <2>1, <2>3, <2>4
<1>16. ASSUME NextDay \/ UNCHANGED dayVars PROVE FormsGood'
  <2>1. UNCHANGED <<forms, threads, dead, joint, job, reverted>>
    BY <1>16 DEF NextDay, DayPasses, dayVars, fvars, rvars
  <2>2. FormsGood
    BY <1>2, <2>1
  <2> QED
    BY <2>1, <2>2 DEF FormsGood, CarryInv, ThreadInv, GoesOnInv, SynthesisIsCurrent, Carries, Has, At
<1> QED
  BY <1>4, <1>5, <1>6, <1>7, <1>8, <1>9, <1>10, <1>11, <1>12, <1>13, <1>14, <1>15, <1>16, DaySteps
-----------------------------------------------------------------------------
(* Marks.                                                                   *)

\* A step within a day keeps MarksInv if what it marks, copies or is about to mark
\* was said, and what it says is of today.
LEMMA MarksKept ==
  ASSUME MarksInv, NEW w \in Workers, NEW j \in Jobs, Moves(w, j), day' = day, said \subseteq said',
         \A n \in said' : n \in said \/ n.day <= day,
         \A k \in Kinds : marks'[k] = marks[k] \/
            ((marks'[k] \in Nat => marks'[k] <= day) /\ (marks'[k] = day => SaidLately(k))),
         j.at = "mark" => \E n \in said' : n.kind = j.kind /\ n.day \in {day, day - 1},
         j.at = "record" => j.marks = marks
  PROVE  MarksInv'
<1>1. \A k : SaidLately(k) => SaidLately(k)'
  BY DEF SaidLately
<1>2. \A k \in Kinds : (marks'[k] \in Nat => marks'[k] <= day) /\ (marks'[k] = day => SaidLately(k))
  BY DEF MarksInv
<1>3. \A v \in Workers : At(v, "mark")' => SaidLately(job[v].kind)'
  <2> SUFFICES ASSUME NEW v \in Workers, At(v, "mark")' PROVE SaidLately(job[v].kind)'
    OBVIOUS
  <2>1. CASE v = w
    BY <2>1 DEF Moves, At, SaidLately
  <2>2. CASE v # w
    <3>1. job'[v] = job[v] /\ At(v, "mark")
      BY <2>2 DEF Moves, At
    <3>2. SaidLately(job[v].kind)
      BY <3>1 DEF MarksInv
    <3> QED
      BY <3>1, <3>2 DEF SaidLately
  <2> QED
    BY <2>1, <2>2
<1>4. \A v \in Workers, k \in Kinds : At(v, "record")' =>
        /\ job'[v].marks[k] \in Nat => job'[v].marks[k] <= day
        /\ job'[v].marks[k] = day => SaidLately(k)
  <2> SUFFICES ASSUME NEW v \in Workers, NEW k \in Kinds, At(v, "record")'
               PROVE  /\ job'[v].marks[k] \in Nat => job'[v].marks[k] <= day
                      /\ job'[v].marks[k] = day => SaidLately(k)
    OBVIOUS
  <2>1. CASE v = w
    BY <2>1 DEF Moves, At, MarksInv
  <2>2. CASE v # w
    BY <2>2 DEF Moves, At, MarksInv
  <2> QED
    BY <2>1, <2>2
<1>5. \A n \in said' : n.day <= day
  BY DEF MarksInv
<1> QED
  BY <1>1, <1>2, <1>3, <1>4, <1>5 DEF MarksInv

\* A step of the forms leaves the marks alone, and who takes it nudges nobody.
LEMMA MarksAside ==
  ASSUME DayShape, MarksInv, NudgeInv, NEW w \in Workers, NEW j \in Jobs, Moves(w, j),
         UNCHANGED rvars, day' = day,
         job[w].at \notin {"say", "mark"}, j.at \notin {"say", "mark"},
         j.at = "record" => j.marks = marks
  PROVE  MarksInv' /\ NudgeInv'
<1>1. marks' = marks /\ said' = said /\ twice' = twice /\ unmarked' = unmarked
  BY DEF rvars
<1>2. MarksInv'
  BY <1>1, MarksKept
<1>3. \A v \in Workers : \A k : Nudging(v, k)' <=> Nudging(v, k)
  BY DEF Moves, Nudging
<1>4. \A v \in Workers : (At(v, "mark")' <=> At(v, "mark")) /\ (At(v, "say")' <=> At(v, "say"))
  BY DEF Moves, At
<1>5. \A v \in Workers : At(v, "mark") \/ At(v, "say") => job'[v] = job[v]
  BY DEF Moves, At
<1>6. NudgeInv'
  <2>1. ASSUME NEW k \in Kinds, Today(k)' \in said'
        PROVE  marks'[k] = day' \/ k \in unmarked' \/ \E v \in Workers : At(v, "mark")' /\ job'[v].kind = k
    <3>1. marks[k] = day \/ k \in unmarked \/ \E v \in Workers : At(v, "mark") /\ job[v].kind = k
      BY <1>1, <2>1 DEF NudgeInv, Today
    <3> QED
      BY <1>1, <1>4, <1>5, <3>1
  <2>2. \A u, v \in Workers, k \in Kinds : u # v /\ Nudging(u, k)' /\ Nudging(v, k)' => k \in unmarked'
    BY <1>1, <1>3 DEF NudgeInv
  <2>3. \A v \in Workers : At(v, "say")' /\ Today(job[v].kind)' \in said' => job'[v].kind \in unmarked'
    BY <1>1, <1>4, <1>5 DEF NudgeInv, Today
  <2> QED
    BY <1>1, <2>1, <2>2, <2>3 DEF NudgeInv
<1> QED
  BY <1>2, <1>6

LEMMA NudgeStarts ==
  ASSUME DayShape, MarksInv, NudgeInv, NEW w \in Workers, NEW k \in Kinds, Nudge(w, k)
  PROVE  MarksInv' /\ NudgeInv'
<1> DEFINE j == [at |-> "say", kind |-> k]
<1>1. Moves(w, j) /\ j \in Jobs
  BY OtherMoves, JobsAre
<1>2. /\ UNCHANGED <<day, marks, said, twice>> /\ job[w].at = "idle" /\ marks[k] # day
      /\ unmarked' = IF \E v \in Workers : Nudging(v, k) THEN unmarked \cup {k} ELSE unmarked
  BY DEF Nudge, FormsStay, At
<1>3. job'[w].at = "say" /\ job'[w].kind = k /\ \A v \in Workers : v # w => job'[v] = job[v]
  BY <1>1 DEF Moves
<1>4. MarksInv'
  <2>1. j.at = "say"
    OBVIOUS
  <2> HIDE DEF j
  <2> QED
    BY <1>1, <1>2, <2>1, MarksKept
<1>5. \A i \in Kinds : Today(i)' \in said' =>
        marks'[i] = day' \/ i \in unmarked' \/ \E v \in Workers : At(v, "mark")' /\ job'[v].kind = i
  <2> SUFFICES ASSUME NEW i \in Kinds, Today(i) \in said
               PROVE  marks[i] = day \/ i \in unmarked' \/ \E v \in Workers : At(v, "mark")' /\ job'[v].kind = i
    BY <1>2 DEF Today
  <2>1. marks[i] = day \/ i \in unmarked \/ \E v \in Workers : At(v, "mark") /\ job[v].kind = i
    BY DEF NudgeInv
  <2>2. \A v \in Workers : At(v, "mark") => v # w /\ At(v, "mark")' /\ job'[v].kind = job[v].kind
    BY <1>2, <1>3 DEF At
  <2> QED
    BY <1>2, <2>1, <2>2
<1>6. \A u, v \in Workers, i \in Kinds : u # v /\ Nudging(u, i)' /\ Nudging(v, i)' => i \in unmarked'
  <2> SUFFICES ASSUME NEW u \in Workers, NEW v \in Workers, NEW i \in Kinds, u # v,
                      Nudging(u, i)', Nudging(v, i)'
               PROVE  i \in unmarked'
    OBVIOUS
  <2>1. CASE u = w \/ v = w
    <3>1. i = k /\ \E x \in Workers : Nudging(x, k)
      BY <1>3, <2>1 DEF Nudging
    <3> QED
      BY <1>2, <3>1
  <2>2. CASE u # w /\ v # w
    <3>1. Nudging(u, i) /\ Nudging(v, i)
      BY <1>3, <2>2 DEF Nudging
    <3> QED
      BY <1>2, <3>1 DEF NudgeInv
  <2> QED
    BY <2>1, <2>2
<1>7. \A v \in Workers : At(v, "say")' /\ Today(job[v].kind)' \in said' => job'[v].kind \in unmarked'
  <2> SUFFICES ASSUME NEW v \in Workers, At(v, "say")', Today(job'[v].kind) \in said
               PROVE  job'[v].kind \in unmarked'
    BY <1>2 DEF Today
  <2>1. CASE v = w
    <3>1. Today(k) \in said
      BY <1>3, <2>1
    <3>2. k \in unmarked \/ \E u \in Workers : At(u, "mark") /\ job[u].kind = k
      BY <1>2, <3>1 DEF NudgeInv
    <3> QED
      BY <1>2, <1>3, <2>1, <3>2 DEF Nudging, At
  <2>2. CASE v # w
    BY <1>2, <1>3, <2>2 DEF NudgeInv, At
  <2> QED
    BY <2>1, <2>2
<1>8. twice' \subseteq unmarked'
  BY <1>2 DEF NudgeInv
<1> QED
  BY <1>4, <1>5, <1>6, <1>7, <1>8 DEF NudgeInv

LEMMA NudgeSaid ==
  ASSUME DayShape, MarksInv, NudgeInv, NEW w \in Workers, Say(w)
  PROVE  MarksInv' /\ NudgeInv'
<1> DEFINE k == job[w].kind
<1>1. PICK j \in Jobs : Moves(w, j) /\ j.at = "mark" /\ j.kind = k /\ k \in Kinds
  BY OtherMoves
<1>2. /\ UNCHANGED <<day, marks, unmarked>> /\ job[w].at = "say"
      /\ said' = said \cup {Today(k)}
      /\ twice' = IF Today(k) \in said THEN twice \cup {k} ELSE twice
  BY DEF Say, FormsStay, At, Today
<1>3. Today(k).kind = k /\ Today(k).day = day /\ day \in Nat
  BY DEF Today, DayShape
<1>4. job'[w].at = "mark" /\ job'[w].kind = k /\ \A v \in Workers : v # w => job'[v] = job[v]
  BY <1>1 DEF Moves
<1>5. \A i : Today(i)' = Today(i) /\ (Today(i) = Today(k) => i = k)
  BY <1>2 DEF Today
<1> HIDE DEF k
<1>6. MarksInv'
  BY <1>1, <1>2, <1>3, MarksKept
<1>7. \A i \in Kinds : Today(i)' \in said' =>
        marks'[i] = day' \/ i \in unmarked' \/ \E v \in Workers : At(v, "mark")' /\ job'[v].kind = i
  <2> SUFFICES ASSUME NEW i \in Kinds, Today(i) \in said'
               PROVE  marks[i] = day \/ i \in unmarked \/ \E v \in Workers : At(v, "mark")' /\ job'[v].kind = i
    BY <1>2, <1>5
  <2>1. CASE i = k
    BY <1>4, <2>1 DEF At
  <2>2. CASE i # k
    <3>1. marks[i] = day \/ i \in unmarked \/ \E v \in Workers : At(v, "mark") /\ job[v].kind = i
      BY <1>2, <1>5, <2>2 DEF NudgeInv
    <3>2. \A v \in Workers : At(v, "mark") => At(v, "mark")' /\ job'[v].kind = job[v].kind
      BY <1>2, <1>4 DEF At
    <3> QED
      BY <3>1, <3>2
  <2> QED
    BY <2>1, <2>2
<1>8. \A u, v \in Workers, i \in Kinds : u # v /\ Nudging(u, i)' /\ Nudging(v, i)' => i \in unmarked'
  <2>1. \A v \in Workers : \A i : Nudging(v, i)' => Nudging(v, i)
    BY <1>2, <1>4 DEF Nudging, k
  <2> QED
    BY <1>2, <2>1 DEF NudgeInv
<1>9. \A v \in Workers : At(v, "say")' /\ Today(job[v].kind)' \in said' => job'[v].kind \in unmarked'
  <2> SUFFICES ASSUME NEW v \in Workers, At(v, "say")', Today(job'[v].kind) \in said'
               PROVE  job'[v].kind \in unmarked
    BY <1>2, <1>5
  <2>1. v # w /\ job'[v] = job[v] /\ At(v, "say")
    BY <1>4 DEF At
  <2>2. CASE job[v].kind = k
    <3>1. Nudging(v, k) /\ Nudging(w, k)
      BY <1>2, <2>1, <2>2 DEF Nudging, At, k
    <3> QED
      BY <1>1, <2>1, <2>2, <3>1 DEF NudgeInv
  <2>3. CASE job[v].kind # k
    BY <1>2, <1>5, <2>1, <2>3 DEF NudgeInv
  <2> QED
    BY <2>2, <2>3
<1>10. twice' \subseteq unmarked'
  <2>1. Today(k) \in said => k \in unmarked
    BY <1>2 DEF NudgeInv, At, k
  <2> QED
    BY <1>2, <2>1 DEF NudgeInv
<1> QED
  BY <1>6, <1>7, <1>8, <1>9, <1>10 DEF NudgeInv

\* A call that ends: it marked its nudge, lost the mark, wrote back older marks, or
\* had nothing to mark.
LEMMA NudgeEnds ==
  ASSUME DayShape, MarksInv, NudgeInv, NEW w \in Workers, Moves(w, Idle),
         UNCHANGED <<day, said, twice>>, unmarked \subseteq unmarked',
         \A k \in Kinds : \/ marks'[k] = marks[k]
                          \/ k \in unmarked'
                          \/ At(w, "mark") /\ k = job[w].kind,
         \A k \in Kinds : \/ marks'[k] = marks[k]
                          \/ At(w, "mark") /\ k = job[w].kind /\ marks'[k] = day
                          \/ At(w, "record") /\ marks'[k] = job[w].marks[k],
         At(w, "mark") => marks'[job[w].kind] = day \/ job[w].kind \in unmarked'
  PROVE  MarksInv' /\ NudgeInv'
<1>1. job'[w] = Idle /\ Idle.at = "idle" /\ Idle \in Jobs
      /\ \A v \in Workers : v # w => job'[v] = job[v]
  BY JobsAre DEF Moves
<1>2. \A k \in Kinds : marks'[k] = marks[k] \/
         ((marks'[k] \in Nat => marks'[k] <= day) /\ (marks'[k] = day => SaidLately(k)))
  <2> SUFFICES ASSUME NEW k \in Kinds, marks'[k] # marks[k]
               PROVE  (marks'[k] \in Nat => marks'[k] <= day) /\ (marks'[k] = day => SaidLately(k))
    OBVIOUS
  <2>1. CASE At(w, "record") /\ marks'[k] = job[w].marks[k]
    BY <2>1 DEF MarksInv
  <2>2. CASE At(w, "mark") /\ k = job[w].kind /\ marks'[k] = day
    BY <2>2 DEF MarksInv, DayShape
  <2> QED
    BY <2>1, <2>2
<1>3. MarksInv'
  BY <1>1, <1>2, MarksKept
<1>4. \A i \in Kinds : Today(i)' \in said' =>
        marks'[i] = day' \/ i \in unmarked' \/ \E v \in Workers : At(v, "mark")' /\ job'[v].kind = i
  <2> SUFFICES ASSUME NEW i \in Kinds, Today(i) \in said
               PROVE  marks'[i] = day \/ i \in unmarked' \/ \E v \in Workers : At(v, "mark")' /\ job'[v].kind = i
    BY DEF Today
  <2>1. marks[i] = day \/ i \in unmarked \/ \E v \in Workers : At(v, "mark") /\ job[v].kind = i
    BY DEF NudgeInv
  <2>2. CASE \E v \in Workers : At(v, "mark") /\ job[v].kind = i
    BY <1>1, <2>2 DEF At
  <2>3. CASE marks[i] = day
    BY <2>3
  <2> QED
    BY <2>1, <2>2, <2>3
<1>5. \A v \in Workers : \A i : Nudging(v, i)' => Nudging(v, i)
  BY <1>1 DEF Nudging
<1>6. \A v \in Workers : At(v, "say")' => At(v, "say") /\ job'[v] = job[v]
  BY <1>1 DEF At
<1>7. \A u, v \in Workers, i \in Kinds : u # v /\ Nudging(u, i)' /\ Nudging(v, i)' => i \in unmarked'
  BY <1>5 DEF NudgeInv
<1>8. \A v \in Workers : At(v, "say")' /\ Today(job[v].kind)' \in said' => job'[v].kind \in unmarked'
  BY <1>6 DEF NudgeInv, Today
<1>9. twice' \subseteq unmarked'
  BY DEF NudgeInv
<1> QED
  BY <1>3, <1>4, <1>7, <1>8, <1>9 DEF NudgeInv

LEMMA DayTurns ==
  ASSUME DayShape, MarksInv, NudgeInv, NextDay
  PROVE  MarksInv' /\ NudgeInv'
<1>1. /\ day' = day + 1 /\ UNCHANGED <<job, marks, twice, unmarked>>
      /\ said' = {n \in said : n.day = day}
      /\ \A w \in Workers : At(w, "mark") => [kind |-> job[w].kind, day |-> day] \in said
  BY DEF NextDay, DayPasses
<1>2. day \in Nat /\ \A k \in Kinds : marks[k] = None \/ marks[k] \in Nat
  BY DEF DayShape, MarkMaps
<1>3. \A w \in Workers, k \in Kinds : At(w, "record") => job[w].marks[k] = None \/ job[w].marks[k] \in Nat
  BY PlacesHold DEF DayShape, At, RecordJobs, MarkMaps
<1>4. None \notin Nat
  BY NudgesAssumption
<1>5. \A n \in said' : n.day = day
  BY <1>1
<1>6. \A k \in Kinds : marks[k] # day'
  BY <1>1, <1>2, <1>4 DEF MarksInv
<1>7. \A k \in Kinds : marks[k] \in Nat => marks[k] <= day'
  BY <1>1, <1>2 DEF MarksInv
<1>8. \A w \in Workers : At(w, "mark")' => SaidLately(job[w].kind)'
  <2> SUFFICES ASSUME NEW w \in Workers, At(w, "mark") PROVE SaidLately(job[w].kind)'
    BY <1>1 DEF At
  <2> DEFINE n == [kind |-> job[w].kind, day |-> day]
  <2>1. n \in said' /\ n.kind = job[w].kind /\ n.day = day' - 1
    BY <1>1, <1>2
  <2> HIDE DEF n
  <2> QED
    BY <1>1, <2>1 DEF SaidLately
<1>9. \A w \in Workers, k \in Kinds : At(w, "record") =>
        job[w].marks[k] # day' /\ (job[w].marks[k] \in Nat => job[w].marks[k] <= day')
  BY <1>1, <1>2, <1>3, <1>4 DEF MarksInv
<1>10. MarksInv'
  <2>1. \A n \in said' : n.day <= day'
    BY <1>1, <1>2, <1>5
  <2> QED
    BY <1>1, <1>6, <1>7, <1>8, <1>9, <2>1 DEF MarksInv, At
<1>11. \A k : Today(k)' \notin said'
  <2> SUFFICES ASSUME NEW k, Today(k)' \in said' PROVE FALSE
    OBVIOUS
  <2>1. Today(k)'.day = day'
    BY DEF Today
  <2> QED
    BY <1>1, <1>2, <1>5, <2>1
<1>12. NudgeInv'
  BY <1>1, <1>11 DEF NudgeInv, Nudging, At
<1> QED
  BY <1>10, <1>12

LEMMA MarksStep ==
  ASSUME DayShape, MarksInv, NudgeInv, [DayNext]_dayVars
  PROVE  MarksInv' /\ NudgeInv'
<1>1. Idle \in Jobs /\ Idle.at = "idle"
  BY DEF Jobs, Idle
<1>2. ASSUME NEW w \in Workers, Start(w) \/ Settle(w), UNCHANGED rvars PROVE MarksInv' /\ NudgeInv'
  <2>1. \E j \in Jobs : Moves(w, j) /\ j.at \in {"idle", "open"}
    BY <1>1, <1>2, StartShape, SettleMoves DEF Opening
  <2>2. day' = day /\ job[w].at \in {"idle", "settle"}
    BY <1>2 DEF Start, Settle, At
  <2> QED
    BY <1>2, <2>1, <2>2, MarksAside
<1>3. ASSUME NEW w \in Workers, Submit(w), UNCHANGED rvars PROVE MarksInv' /\ NudgeInv'
  <2>1. PICK f \in Forms, r \in FormRecords :
          Moves(w, [at |-> "synthesize", form |-> f, answers |-> r.answers])
    BY <1>3, SubmitMoves
  <2>2. r.answers \in SUBSET Questions
    BY DEF FormRecords
  <2> DEFINE j == [at |-> "synthesize", form |-> f, answers |-> r.answers]
  <2>3. j \in Jobs /\ j.at = "synthesize"
    BY <2>2, JobsAre
  <2>4. day' = day /\ job[w].at = "idle"
    BY <1>3 DEF Submit, At
  <2> HIDE DEF j
  <2> QED
    BY <1>3, <2>1, <2>3, <2>4, MarksAside DEF j
<1>4. ASSUME NEW w \in Workers, PostThread(w) \/ PostFails(w), UNCHANGED rvars
      PROVE  MarksInv' /\ NudgeInv'
  <2>1. PICK j \in Jobs : Moves(w, j) /\ j.at = "keep"
    BY <1>4, OtherMoves
  <2>2. day' = day /\ job[w].at = "open"
    BY <1>4 DEF PostThread, PostFails, At
  <2> QED
    BY <1>4, <2>1, <2>2, MarksAside
<1>5. ASSUME NEW w \in Workers, KeepForm(w), UNCHANGED rvars PROVE MarksInv' /\ NudgeInv'
  <2>1. Moves(w, Idle) /\ day' = day /\ job[w].at = "keep"
    BY <1>5, OtherMoves DEF KeepForm, At
  <2> QED
    BY <1>1, <1>5, <2>1, MarksAside
<1>6. ASSUME NEW w \in Workers, Synthesize(w), UNCHANGED rvars PROVE MarksInv' /\ NudgeInv'
  <2>1. PICK m \in {None, job[w].answers} :
           /\ job[w].answers \in SUBSET Questions /\ job[w].form \in Forms
           /\ Moves(w, [at |-> "settle", form |-> job[w].form, made |-> m])
    BY <1>6, OtherMoves
  <2>2. m \in Syntheses
    BY <2>1 DEF Syntheses
  <2>3. PICK j \in Jobs : Moves(w, j) /\ j.at = "settle"
    BY <2>1, <2>2, JobsAre
  <2>4. day' = day /\ job[w].at = "synthesize"
    BY <1>6 DEF Synthesize, At
  <2> QED
    BY <1>6, <2>3, <2>4, MarksAside
<1>7. ASSUME NEW w \in Workers, DieUnmarked(w) PROVE MarksInv' /\ NudgeInv'
  <2>1. Moves(w, Idle)
    BY <1>7, OtherMoves
  <2>2. /\ UNCHANGED <<day, said, twice, marks>>
        /\ unmarked' = IF At(w, "mark") THEN unmarked \cup {job[w].kind} ELSE unmarked
    BY <1>7 DEF DieUnmarked, Die
  <2> QED
    BY <2>1, <2>2, NudgeEnds
<1>8. ASSUME NEW w \in Workers, NotSaid(w) PROVE MarksInv' /\ NudgeInv'
  <2>1. Moves(w, Idle) /\ ~ At(w, "mark") /\ UNCHANGED <<day, said, twice, marks, unmarked>>
    BY <1>8, OtherMoves DEF NotSaid, At, FormsStay, rvars
  <2> QED
    BY <2>1, NudgeEnds
<1>9. ASSUME NEW w \in Workers, Mark(w) PROVE MarksInv' /\ NudgeInv'
  <2>1. Moves(w, Idle) /\ At(w, "mark") /\ job[w].kind \in Kinds
        /\ UNCHANGED <<day, said, twice, unmarked>>
    BY <1>9, OtherMoves DEF Mark, FormsStay
  <2>2. \A k \in Kinds : marks'[k] = IF k = job[w].kind THEN day ELSE marks[k]
    BY <1>9 DEF Mark, DayShape, MarkMaps
  <2> QED
    BY <2>1, <2>2, NudgeEnds
<1>10. ASSUME NEW w \in Workers, Record(w) PROVE MarksInv' /\ NudgeInv'
  <2>1. /\ Moves(w, Idle) /\ At(w, "record") /\ ~ At(w, "mark")
        /\ UNCHANGED <<day, said, twice>> /\ marks' = job[w].marks
        /\ unmarked' = unmarked \cup {k \in Kinds : job[w].marks[k] # marks[k]}
    BY <1>10, OtherMoves DEF Record, At
  <2> QED
    BY <2>1, NudgeEnds
<1>11. ASSUME NEW w \in Workers, Digest(w) PROVE MarksInv' /\ NudgeInv'
  <2> DEFINE j == [at |-> "digest", date |-> day]
  <2>1. Moves(w, j) /\ UNCHANGED rvars /\ day' = day /\ job[w].at = "idle"
    BY <1>11, OtherMoves DEF Digest, FormsStay, At
  <2>2. j \in Jobs /\ j.at = "digest"
    BY JobsAre DEF DayShape
  <2> HIDE DEF j
  <2> QED
    BY <2>1, <2>2, MarksAside
<1>12. ASSUME NEW w \in Workers, PostDigest(w) PROVE MarksInv' /\ NudgeInv'
  <2> DEFINE j == [at |-> "record", date |-> job[w].date,
                   forms |-> forms, marks |-> marks, digests |-> digests]
  <2>1. (Moves(w, Idle) \/ Moves(w, j)) /\ UNCHANGED rvars /\ day' = day /\ job[w].at = "digest"
    BY <1>12, OtherMoves DEF PostDigest, FormsStay, At
  <2>2. job[w].date \in Nat
    BY <1>12, PlacesHold DEF PostDigest, At, DigestJobs, DayShape
  <2>3. j \in Jobs /\ j.at = "record" /\ j.marks = marks
    BY <2>2, JobsAre DEF DayShape
  <2> HIDE DEF j
  <2> QED
    BY <1>1, <2>1, <2>3, MarksAside
<1>13. CASE UNCHANGED dayVars
  BY <1>13 DEF dayVars, fvars, rvars, MarksInv, NudgeInv, SaidLately, Today, Nudging, At
<1> QED
  BY <1>2, <1>3, <1>4, <1>5, <1>6, <1>7, <1>8, <1>9, <1>10, <1>11, <1>12, <1>13,
     DaySteps, NudgeStarts, NudgeSaid, DayTurns
-----------------------------------------------------------------------------
(* The theorems.                                                            *)

LEMMA RemindersInvariant == DaySpec => []RIInv
<1>1. DayInit => RIInv
  <2> SUFFICES ASSUME DayInit PROVE RIInv
    OBVIOUS
  <2>1. /\ forms = <<>> /\ threads = {} /\ day = 0 /\ used = {} /\ dead = {} /\ joint = {}
        /\ job = [w \in Workers |-> Idle] /\ marks = [k \in Kinds |-> None] /\ digests = <<>>
        /\ said = {} /\ twice = {} /\ unmarked = {} /\ reverted = FALSE
    BY DEF DayInit, FormsInit, RemindersInit
  <2>2. \A w \in Workers : job[w] = Idle /\ Idle.at = "idle"
    BY <2>1 DEF Idle
  <2>3. DOMAIN forms = {}
    BY <2>1
  <2>4. DayShape
    <3>1. forms \in Lists /\ digests \in Seq(Nat) /\ Len(digests) <= Kept
      BY <2>1, NudgesAssumption DEF Lists
    <3>2. Distinct(forms)
      BY <2>3 DEF Distinct
    <3>3. job \in [Workers -> Jobs]
      BY <2>1, JobsAre
    <3>4. marks \in MarkMaps
      BY <2>1 DEF MarkMaps
    <3> QED
      BY <2>1, <2>2, <3>1, <3>2, <3>3, <3>4 DEF DayShape, At
  <2>5. FreshInv
    BY <2>2, <2>3 DEF FreshInv, Has, Holds, Opens, At
  <2>6. FormsInv
    BY <2>1, <2>2, <2>3
    DEF FormsInv, FormsGood, CarryInv, ThreadInv, GoesOnInv, SynthesisIsCurrent, At
  <2>7. MarksInv
    BY <2>1, <2>2, NudgesAssumption DEF MarksInv, At
  <2>8. NudgeInv
    BY <2>1, <2>2 DEF NudgeInv, At, Nudging
  <2> QED
    BY <2>4, <2>5, <2>6, <2>7, <2>8 DEF RIInv
<1>2. RIInv /\ [DayNext]_dayVars => RIInv'
  BY DayShapeKept, FreshStep, FormsStep, MarksStep DEF RIInv
<1> QED
  BY <1>1, <1>2, PTL DEF DaySpec

LEMMA RIInvIsEnough == RIInv => DayInv
<1> SUFFICES ASSUME RIInv PROVE DayInv
  OBVIOUS
<1>1. \A w \in Workers : \A f : On(w, f) <=> Holds(job[w], f)
  <2> SUFFICES ASSUME NEW w \in Workers, NEW f PROVE On(w, f) <=> Holds(job[w], f)
    OBVIOUS
  <2>1. job[w] \in Jobs
    BY DEF RIInv, DayShape
  <2> QED
    BY <2>1, HoldsIs DEF On, At
<1>2. DayTypeOK
  <2>1. \A i \in DOMAIN forms : forms[i] \in FormRecords
    BY ListsHold DEF RIInv, DayShape
  <2>2. IsInjective([i \in DOMAIN forms |-> forms[i].id])
    BY DEF RIInv, DayShape, Distinct, IsInjective
  <2> QED
    BY <2>1, <2>2 DEF DayTypeOK, FormsTypeOK, RIInv, DayShape, MarkMaps
<1>3. MarkMeansSaid
  BY DEF MarkMeansSaid, RIInv, MarksInv, SaidLately
<1>4. FormsHold
  <2> SUFFICES ASSUME FormsGood PROVE ThreadHasForm /\ SynthesisGoesOn /\ SynthesisIsCurrent
    BY DEF FormsHold, RIInv, FormsInv
  <2>1. ThreadHasForm
    BY <1>1 DEF ThreadHasForm, FormsGood, ThreadInv, Known, Has
  <2>2. SynthesisGoesOn
    BY <1>1 DEF SynthesisGoesOn, FormsGood, GoesOnInv
  <2> QED
    BY <2>1, <2>2 DEF FormsGood
<1>5. NudgedOnce
  BY DEF NudgedOnce, RIInv, NudgeInv
<1> QED
  BY <1>2, <1>3, <1>4, <1>5 DEF DayInv

\* What DayInv says of the forms, the marks and the digests holds whatever the
\* calls, forms, kinds, days and deaths.
THEOREM DayInvHolds == DaySpec => []DayInv
BY RemindersInvariant, RIInvIsEnough, PTL

LEMMA AnswersStay ==
  ASSUME DayShape, DayShape', NEW f \in Forms, Known(f),
         \/ forms' = forms
         \/ \E r : /\ Upserted(forms', forms, r)
                   /\ r.id = f => Form(f).answers \subseteq r.answers
  PROVE  Known(f)' /\ Form(f).answers \subseteq Form(f)'.answers
<1>1. Has(forms, f) /\ Form(f) = FormIn(forms, f) /\ Form(f)' = FormIn(forms', f)
  BY DEF Known, Has, Form, FormIn
<1>2. CASE forms' = forms
  BY <1>1, <1>2 DEF Known
<1>3. CASE \E r : /\ Upserted(forms', forms, r)
                  /\ r.id = f => Form(f).answers \subseteq r.answers
  <2>1. PICK r : /\ Upserted(forms', forms, r)
                 /\ r.id = f => Form(f).answers \subseteq r.answers
    BY <1>3
  <2>2. Has(forms', f)
    BY <1>1, <2>1, KnownIds
  <2>3. PICK i \in DOMAIN forms' : forms'[i].id = f /\ FormIn(forms', f) = forms'[i]
    BY <2>2, FormIs DEF DayShape
  <2>4. Form(f).answers \subseteq forms'[i].answers
    <3>1. CASE forms'[i] = r
      BY <2>1, <2>3, <3>1
    <3>2. CASE forms'[i] # r
      <4>1. i \in DOMAIN forms /\ forms[i].id = f /\ forms'[i] = forms[i]
        BY <2>1, <2>3, <3>2 DEF Upserted
      <4>2. FormIn(forms, f) = forms[i]
        BY <4>1, OneForm DEF DayShape
      <4> QED
        BY <1>1, <4>1, <4>2
    <3> QED
      BY <3>1, <3>2
  <2> QED
    BY <1>1, <2>2, <2>3, <2>4 DEF Known, Has
<1> QED
  BY <1>2, <1>3

LEMMA AnswersStep ==
  ASSUME RIInv, RIInv', [DayNext]_dayVars, NEW f \in Forms, Known(f)
  PROVE  \/ Known(f)' /\ Form(f).answers \subseteq Form(f)'.answers
         \/ \E w \in Workers : At(w, "record") /\ job[w].forms # forms
<1>1. DayShape /\ DayShape' /\ FreshInv
  BY DEF RIInv
<1>2. ASSUME forms' = forms PROVE Known(f)' /\ Form(f).answers \subseteq Form(f)'.answers
  BY <1>1, <1>2, AnswersStay
<1>3. ASSUME NEW w \in Workers, Submit(w)
      PROVE  Known(f)' /\ Form(f).answers \subseteq Form(f)'.answers
  <2>1. PICK g \in Forms, given \in SUBSET Questions, r \in FormRecords :
           /\ r.id = g /\ r.answers = Form(g).answers \cup given
           /\ forms' = Upsert(forms, r)
    BY <1>1, <1>3, SubmitMoves
  <2>2. Upserted(forms', forms, r)
    BY <1>1, <2>1, WriteShape
  <2>3. r.id = f => Form(f).answers \subseteq r.answers
    BY <2>1
  <2> QED
    BY <1>1, <2>2, <2>3, AnswersStay
<1>4. ASSUME NEW w \in Workers, KeepForm(w)
      PROVE  Known(f)' /\ Form(f).answers \subseteq Form(f)'.answers
  <2>1. PICK r \in FormRecords : r.id = job[w].form /\ forms' = Upsert(forms, r)
    BY <1>1, <1>4, KeepMoves
  <2>2. Upserted(forms', forms, r)
    BY <1>1, <2>1, WriteShape
  <2>3. r.id # f
    BY <1>1, <1>4, <2>1 DEF KeepForm, At, Opens, FreshInv, Known, Has
  <2> QED
    BY <1>1, <2>2, <2>3, AnswersStay
<1>5. ASSUME NEW w \in Workers, Settle(w)
      PROVE  Known(f)' /\ Form(f).answers \subseteq Form(f)'.answers
  <2>1. CASE \E r \in FormRecords :
                /\ r.id = job[w].form /\ r.answers = Form(job[w].form).answers
                /\ forms' = Upsert(forms, r)
    <3>1. PICK r \in FormRecords :
                /\ r.id = job[w].form /\ r.answers = Form(job[w].form).answers
                /\ forms' = Upsert(forms, r)
      BY <2>1
    <3>2. Upserted(forms', forms, r)
      BY <1>1, <3>1, WriteShape
    <3>3. r.id = f => Form(f).answers \subseteq r.answers
      BY <3>1
    <3> QED
      BY <1>1, <3>2, <3>3, AnswersStay
  <2> QED
    BY <1>1, <1>2, <1>5, <2>1, SettleWrites
<1>6. ASSUME NEW w \in Workers, Record(w)
      PROVE  forms' = forms \/ (At(w, "record") /\ job[w].forms # forms)
  BY <1>6 DEF Record
<1>7. ASSUME NEW w \in Workers,
             \/ Start(w) \/ PostThread(w) \/ PostFails(w) \/ Synthesize(w) \/ DieUnmarked(w)
             \/ Say(w) \/ NotSaid(w) \/ Mark(w) \/ Digest(w) \/ PostDigest(w)
             \/ \E k \in Kinds : Nudge(w, k)
      PROVE  forms' = forms
  BY <1>7 DEF Start, PostThread, PostFails, Synthesize, DieUnmarked, Die, Say, NotSaid, Mark,
              Digest, PostDigest, Nudge, FormsStay
<1>8. NextDay \/ UNCHANGED dayVars => forms' = forms
  BY DEF NextDay, DayPasses, dayVars, fvars
<1> QED
  BY <1>2, <1>3, <1>4, <1>5, <1>6, <1>7, <1>8, DaySteps

\* An answer stays with its form, whatever the calls, forms, questions and digests.
THEOREM AnswersGrowHolds == DaySpec => AnswersGrow
<1>1. RIInv /\ RIInv' /\ [DayNext]_dayVars =>
        [\A f \in Forms : Known(f) =>
           \/ Known(f)' /\ Form(f).answers \subseteq Form(f)'.answers
           \/ \E w \in Workers : At(w, "record") /\ job[w].forms # forms]_dayVars
  BY AnswersStep
<1> QED
  BY <1>1, RemindersInvariant, PTL DEF DaySpec, AnswersGrow
=============================================================================
