------------------------------ MODULE Targets ------------------------------
(***************************************************************************)
(* Tweets of a tracked account: their discovery                            *)
(* (posting/collectors/target-discovery.ts), what the reactions cron does  *)
(* with them (scripts/cron-reactions-poll.ts), and the buttons             *)
(* (discord/target-buttons.ts, posting/collectors/target-button-handler.ts)*)
(* through which the customer decides.                                     *)
(*                                                                         *)
(* Cron and bot are two processes.  Each reads the sessions of state.json, *)
(* calls the LLM, X or Discord, and writes one session back from the copy  *)
(* it read; only discovery writes all of them.  No write takes a lock: it  *)
(* loads the file, changes its part and writes the file.  That is one step *)
(* here.  When the load is older than another's write, of whichever part   *)
(* of the file, it is Overwrite and then that step: all that was written   *)
(* since the load is gone (LoadAll, Overwrite).                            *)
(*                                                                         *)
(* Tweets of one account are numbered in the order of their ids.  A quote  *)
(* and a reply go the same way: both are a "draft" here, and quote_ and    *)
(* reply_ fall off the phases.                                             *)
(***************************************************************************)
EXTENDS Integers, FiniteSets, FiniteSetsExt

CONSTANTS
    MaxTweets,    \* bound: tweets of the tracked account
    PageSize,     \* DEFAULT_MAX: tweets of one fetch
    MaxNew,       \* maxSessionsPerRun
    MaxAttempts,  \* TARGET_MAX_DISCORD_POST_ATTEMPTS
    Cooldown,     \* TARGET_DISCORD_RETRY_INTERVAL_MS, in ticks
    Presses,      \* button presses the bot may be handling at once
    MaxInputs     \* bound: tweets, presses, changes of the level, deaths, writes that
                  \* throw, overlapping writes, together

ASSUME TargetsAssumption ==
    /\ MaxTweets \in Nat /\ PageSize \in Nat \ {0} /\ MaxNew \in Nat \ {0}
    /\ MaxAttempts \in Nat \ {0} /\ Cooldown \in Nat
    /\ MaxInputs \in Nat

Tweets == 1 .. MaxTweets
NoTweet == 0
Levels == {"manual", "semi_auto", "full_auto"}
Actions == {"skip", "like", "draft"}
Statuses == {"none", "open", "posted", "skipped", "error"}
Phases == {"open", "posted_like", "skipped", "pending", "scheduled", "operator_escalated",
           "error"}

\* text: draft_text or suggested_text is there; noted: manual_notified_at;
\* wait: what is left of the interval since last_discord_post_attempt_at.
Sessions ==
    [status : Statuses, phase : Phases, action : Actions, text : BOOLEAN,
     fails : 0 .. MaxAttempts, wait : 0 .. Cooldown, noted : BOOLEAN]

NoSession == [status |-> "none", phase |-> "open", action |-> "skip", text |-> FALSE,
              fails |-> 0, wait |-> 0, noted |-> FALSE]

\* Rows of buttons in the channel: of a like; of a draft the cron shows or the
\* bot suggests.
Rows == {"like", "draft"}
CronPcs == {"idle", "found", "advanced", "stored", "loop", "asking", "judging", "card", "fallback",
            "liked", "posted", "carded", "fallen"}
PressPcs == {"free", "like", "suggest", "scheduled"}

VARIABLES
    level,     \* account.json: automation_level
    mode,      \* the level as the loop read it
    tweeted,   \* newest tweet of the tracked account
    sessions,  \* state.json: target_discovery_sessions
    cursor,    \* state.json: lastSinceId of the target
    older,     \* the file as a write that is still to come has loaded it
    pc,        \* where the cron is
    found,     \* discovery: the sessions it loaded, with the new ones
    high,      \* discovery: highestId
    open,      \* the sessions as the loop loaded them
    todo,      \* open sessions the loop has yet to visit
    hand,      \* the one in hand
    copy,      \* the session as suggestText read it, or what is to be written
    press,     \* press -> what the bot does for it: pc, tweet, session it read
    rows,      \* tweet -> rows of buttons shown for it
    posts,     \* tweet -> posts of the cron that X answered
    cards,     \* tweet -> cards of the cron, less those whose record was lost
    undone,    \* tweets that were settled and were opened, or taken away, again
    passed,    \* new tweets that were not on the page or not chosen
    lost,      \* tweets behind the cursor whose session was lost
    inputs     \* presses, changes of the level and faults

file == <<sessions, cursor, older>>
cron == <<pc, mode, found, high, open, todo, hand, copy>>
bot == <<press>>
world == <<level, tweeted, rows, posts, cards, undone, passed, lost>>
vars == <<file, cron, bot, world, inputs>>

Free == [pc |-> "free", tweet |-> NoTweet, read |-> NoSession]
Blank == [t \in Tweets |-> NoSession]
NotHeld == [held |-> FALSE, sessions |-> Blank, cursor |-> 0]

TypeOK ==
    /\ level \in Levels /\ mode \in Levels
    /\ tweeted \in 0 .. MaxTweets
    /\ sessions \in [Tweets -> Sessions]
    /\ cursor \in 0 .. MaxTweets
    /\ older \in [held : BOOLEAN, sessions : [Tweets -> Sessions], cursor : 0 .. MaxTweets]
    /\ pc \in CronPcs
    /\ found \in [Tweets -> Sessions]
    /\ high \in 0 .. MaxTweets
    /\ open \in [Tweets -> Sessions]
    /\ todo \subseteq Tweets
    /\ hand \in Tweets \cup {NoTweet}
    /\ copy \in Sessions
    /\ press \in [Presses -> [pc : PressPcs, tweet : Tweets \cup {NoTweet}, read : Sessions]]
    /\ rows \in [Tweets -> SUBSET Rows]
    /\ posts \in [Tweets -> Nat]
    /\ cards \in [Tweets -> Int]
    /\ undone \subseteq Tweets
    /\ passed \subseteq Tweets
    /\ lost \subseteq Tweets
    /\ inputs \in 0 .. MaxInputs

Init ==
    /\ level \in Levels /\ mode = "manual"
    /\ tweeted = 0 /\ cursor = 0 /\ high = 0
    /\ sessions = Blank /\ found = Blank /\ open = Blank
    /\ pc = "idle" /\ hand = NoTweet /\ copy = NoSession
    /\ todo = {} /\ undone = {} /\ passed = {} /\ lost = {}
    /\ press = [p \in Presses |-> Free]
    /\ rows = [t \in Tweets |-> {}]
    /\ older = NotHeld
    /\ posts = [t \in Tweets |-> 0]
    /\ cards = [t \in Tweets |-> 0]
    /\ inputs = 0

-----------------------------------------------------------------------------
(* Surroundings.                                                            *)

Left == inputs + tweeted < MaxInputs
Input == Left /\ inputs' = inputs + 1

Tweet ==
    /\ Left /\ tweeted < MaxTweets
    /\ tweeted' = tweeted + 1
    /\ UNCHANGED <<file, cron, bot, inputs, level, rows, posts, cards, undone, passed, lost>>

\* handlers/automation.ts sets automation_level, between any two steps.
SetLevel ==
    /\ Input
    /\ level' \in Levels \ {level}
    /\ UNCHANGED <<file, cron, bot, tweeted, rows, posts, cards, undone, passed, lost>>

IsOpen(s) == s.status = "open" /\ s.phase = "open"
Settled(s) == s.status # "none" /\ ~IsOpen(s)

Older(s) == [s EXCEPT !.wait = IF @ = 0 THEN 0 ELSE @ - 1]
Aged(ses) == [t \in Tweets |-> Older(ses[t])]

Tick ==
    /\ sessions' = Aged(sessions) /\ found' = Aged(found) /\ open' = Aged(open)
    /\ copy' = Older(copy)
    /\ older' = [older EXCEPT !.sessions = Aged(@)]
    /\ press' = [p \in Presses |-> [press[p] EXCEPT !.read = Older(@)]]
    /\ UNCHANGED <<cursor, pc, mode, high, todo, hand, world, inputs>>

\* Some write of state.json loads it, ...
LoadAll ==
    /\ ~older.held
    /\ Input
    /\ older' = [held |-> TRUE, sessions |-> sessions, cursor |-> cursor]
    /\ UNCHANGED <<sessions, cursor, cron, bot, world>>

\* ... and, after writes of others, brings back what it loaded.
Overwrite ==
    /\ older.held
    /\ sessions' = older.sessions /\ cursor' = older.cursor
    /\ older' = NotHeld
    /\ undone' = undone \cup {t \in Tweets : Settled(sessions[t]) /\ ~Settled(older.sessions[t])}
    /\ lost' = lost \cup {t \in 1 .. older.cursor :
                            sessions[t].status # "none" /\ older.sessions[t].status = "none"}
    /\ UNCHANGED <<cron, bot, level, tweeted, rows, posts, cards, passed, inputs>>

-----------------------------------------------------------------------------
(* Discovery.                                                               *)

\* What becomes of a chosen tweet: in manual nothing is asked; otherwise the
\* LLM fails or suggests something.
Outcomes ==
    IF level = "manual" THEN {[NoSession EXCEPT !.status = "open"]}
    ELSE {[NoSession EXCEPT !.status = "error", !.phase = "error"],
          [NoSession EXCEPT !.status = "skipped", !.phase = "skipped"],
          [NoSession EXCEPT !.status = "open", !.action = "like"]}
         \cup [status : {"open"}, phase : {"open"}, action : {"draft"}, text : BOOLEAN,
               fails : {0}, wait : {0}, noted : {FALSE}]

NewTweets == {t \in cursor + 1 .. tweeted : sessions[t].status = "none"}

\* One page, of the newest tweets since the cursor.
Page == {t \in cursor + 1 .. tweeted : t + PageSize > tweeted}

Found(new) == [t \in Tweets |-> IF t \in DOMAIN new THEN new[t] ELSE sessions[t]]

\* The MaxNew best of the fetched tweets; a tweet whose suggestion failed does
\* not move highestId.
Discover ==
    /\ pc = "idle"
    /\ pc' = "found"
    /\ \E chosen \in SUBSET (NewTweets \cap Page) :
          /\ Cardinality(chosen) = Min({MaxNew, Cardinality(NewTweets \cap Page)})
          /\ \E new \in [chosen -> Outcomes] :
                LET moving == {t \in chosen : new[t].status # "error"} IN
                /\ found' = Found(new)
                /\ high' = IF moving = {} THEN cursor ELSE Max(moving)
          /\ passed' = passed \cup (NewTweets \ chosen)
    /\ UNCHANGED <<mode, file, open, todo, hand, copy, bot, inputs, level, tweeted, rows, posts,
                   cards, undone, lost>>

\* The fetch fails, and the cursor is written with its errorStreak; or the
\* lookup of the account fails, and it is not.  Then the sessions are written as
\* they were loaded.  Or the files cannot be read at all.
DiscoverFails ==
    /\ pc = "idle"
    /\ \/ pc' \in {"found", "advanced"} /\ found' = sessions /\ high' = cursor
       \/ pc' = "stored" /\ UNCHANGED <<found, high>>
    /\ UNCHANGED <<mode, file, open, todo, hand, copy, bot, world, inputs>>

\* Faulty: the cursor moves to the newest tweet there is, fetched or not.
AdvanceCursorFaulty ==
    /\ pc = "found"
    /\ pc' = "advanced"
    /\ cursor' = tweeted
    /\ UNCHANGED <<mode, sessions, older, found, high, open, todo, hand, copy, bot, world,
                   inputs>>

\* First the cursor ...
AdvanceCursor ==
    /\ pc = "found"
    /\ pc' = "advanced"
    /\ cursor' = high
    /\ UNCHANGED <<mode, sessions, older, found, high, open, todo, hand, copy, bot, world,
                   inputs>>

\* ... then all sessions, those it did not touch as they were when it began.
StoreSessions ==
    /\ pc = "advanced"
    /\ pc' = "stored"
    /\ sessions' = found
    /\ found' = Blank /\ high' = 0
    /\ UNCHANGED <<mode, cursor, older, open, todo, hand, copy, bot, world, inputs>>

Unkept == {t \in 1 .. cursor : sessions[t].status = "none"}

\* One of the two writes throws: the collector ends, and the loop runs.
StoreThrows ==
    /\ pc \in {"found", "advanced"}
    /\ Input
    /\ pc' = "stored"
    /\ found' = Blank /\ high' = 0
    /\ lost' = IF pc = "advanced" THEN lost \cup Unkept ELSE lost
    /\ UNCHANGED <<mode, file, open, todo, hand, copy, bot, level, tweeted, rows, posts, cards,
                   undone, passed>>

-----------------------------------------------------------------------------
(* processTargetAutomation.                                                 *)

LoadOpen ==
    /\ pc = "stored"
    /\ pc' = "loop"
    /\ mode' = level
    /\ open' = sessions
    /\ todo' = {t \in Tweets : IsOpen(sessions[t])}
    /\ UNCHANGED <<file, found, high, hand, copy, bot, world, inputs>>

\* The loop is over, or the process ends.
Rest ==
    /\ pc' = "idle" /\ mode' = "manual"
    /\ found' = Blank /\ open' = Blank /\ high' = 0
    /\ todo' = {} /\ hand' = NoTweet /\ copy' = NoSession

LoopEnds ==
    /\ pc = "loop" /\ todo = {}
    /\ Rest
    /\ UNCHANGED <<file, bot, world, inputs>>

\* manual: one message for all that are new, which are then noted one after the
\* other; at the first failure the rest is not.
NotifyManual ==
    LET new == {t \in todo : ~open[t].noted} IN
    /\ pc = "loop" /\ mode = "manual" /\ todo # {}
    /\ \E n \in 0 .. MaxTweets :
          sessions' = [t \in Tweets |-> IF t \in new /\ t <= n THEN [open[t] EXCEPT !.noted = TRUE]
                                        ELSE sessions[t]]
    /\ Rest
    /\ UNCHANGED <<cursor, older, bot, world, inputs>>

Take(t) ==
    /\ pc = "loop" /\ mode # "manual"
    /\ t \in todo
    /\ \A u \in todo : t <= u

Put(t, s) == sessions' = [sessions EXCEPT ![t] = s]
Back(t) == pc' = "loop" /\ todo' = todo \ {t} /\ hand' = NoTweet /\ copy' = NoSession
Hold(p, t, s) == pc' = p /\ hand' = t /\ copy' = s /\ todo' = todo \ {t}
LoopLeaves == UNCHANGED <<cursor, older, mode, found, high, open, bot, level, tweeted,
                         passed, lost>>
LoopUnchanged == LoopLeaves /\ UNCHANGED <<undone, inputs>>

\* Faulty: a session to skip is passed over and left open.
AutoSkipFaulty(t) ==
    /\ Take(t) /\ open[t].action = "skip"
    /\ Back(t)
    /\ UNCHANGED <<sessions, rows, posts, cards>> /\ LoopUnchanged

AutoSkip(t) ==
    /\ Take(t) /\ open[t].action = "skip"
    /\ Put(t, [open[t] EXCEPT !.status = "skipped", !.phase = "skipped"])
    /\ Back(t)
    /\ UNCHANGED <<rows, posts, cards>> /\ LoopUnchanged

AutoLike(t) ==
    /\ Take(t) /\ open[t].action = "like" /\ mode = "full_auto"
    /\ Hold("liked", t, [open[t] EXCEPT !.status = "posted", !.phase = "posted_like"])
    /\ UNCHANGED <<sessions, rows, posts, cards>> /\ LoopUnchanged

\* likeTweet throws: the session stays as it is for the next run.
AutoLikeFails(t) ==
    /\ Take(t) /\ open[t].action = "like" /\ mode = "full_auto"
    /\ Back(t)
    /\ UNCHANGED <<sessions, rows, posts, cards>> /\ LoopUnchanged

CanAttempt(s) == s.wait = 0

\* postThread succeeds; the session is written afterwards.
Card(t, row, at, s) ==
    /\ CanAttempt(open[t])
    /\ Hold(at, t, s)
    /\ rows' = [rows EXCEPT ![t] = @ \cup {row}]
    /\ cards' = [cards EXCEPT ![t] = @ + 1]
    /\ UNCHANGED <<sessions, posts>> /\ LoopUnchanged

\* What recordTargetDiscordPostFailure makes of a session.  The status
\* operator_escalated it writes is read back as open by every load (TargetRemap
\* of AccountFiles); the phase stays.
Failed(s) ==
    IF s.fails + 1 >= MaxAttempts
    THEN [s EXCEPT !.status = "open", !.phase = "operator_escalated", !.fails = @ + 1]
    ELSE [s EXCEPT !.status = "open", !.fails = @ + 1, !.wait = Cooldown]

\* It writes the session as the loop read it: one that was posted on X opens
\* again.
RecordFailure(t, s) ==
    /\ Put(t, Failed(s))
    /\ Back(t)
    /\ undone' = IF posts[t] > 0 THEN undone \cup {t} ELSE undone
    /\ UNCHANGED <<rows, posts>> /\ LoopLeaves

CardFails(t, s) ==
    /\ CanAttempt(open[t])
    /\ RecordFailure(t, s)
    /\ UNCHANGED <<cards, inputs>>

TooSoon(t) ==
    /\ ~CanAttempt(open[t])
    /\ Back(t)
    /\ UNCHANGED <<sessions, rows, posts, cards>> /\ LoopUnchanged

LikeCard(t) ==
    /\ Take(t) /\ open[t].action = "like" /\ mode = "semi_auto"
    /\ \/ Card(t, "like", "carded", [open[t] EXCEPT !.status = "posted"])
       \/ CardFails(t, open[t])
       \/ TooSoon(t)

\* Faulty: the session is not marked pending before the post.
EnsureDraftFaulty(t) ==
    /\ Take(t) /\ open[t].action = "draft" /\ open[t].text
    /\ Hold("judging", t, NoSession)
    /\ UNCHANGED <<sessions, rows, posts, cards>> /\ LoopUnchanged

\* ensureTargetDraft: a draft that is there is marked pending; otherwise the
\* LLM is asked for one, for the session as it is now.
EnsureDraft(t) ==
    /\ Take(t) /\ open[t].action = "draft" /\ open[t].text
    /\ Put(t, [open[t] EXCEPT !.phase = "pending"])
    /\ Hold("judging", t, NoSession)
    /\ UNCHANGED <<rows, posts, cards>> /\ LoopUnchanged

AskDraft(t) ==
    /\ Take(t) /\ open[t].action = "draft" /\ ~open[t].text
    /\ sessions[t].status # "none"
    /\ Hold("asking", t, sessions[t])
    /\ UNCHANGED <<sessions, rows, posts, cards>> /\ LoopUnchanged

\* TargetSessionMissingError
AskMissing(t) ==
    /\ Take(t) /\ open[t].action = "draft" /\ ~open[t].text
    /\ sessions[t].status = "none"
    /\ Hold("fallback", t, open[t])
    /\ UNCHANGED <<sessions, rows, posts, cards>> /\ LoopUnchanged

AskSucceeds ==
    /\ pc = "asking"
    /\ Put(hand, [copy EXCEPT !.action = "draft", !.phase = "pending", !.text = TRUE])
    /\ Hold("judging", hand, NoSession)
    /\ UNCHANGED <<rows, posts, cards>> /\ LoopUnchanged

\* The session turns to error and, in the catch clause, to a card without text.
AskFails ==
    /\ pc = "asking"
    /\ Put(hand, [copy EXCEPT !.phase = "error", !.status = "error"])
    /\ Hold("fallback", hand, open[hand])
    /\ UNCHANGED <<rows, posts, cards>> /\ LoopUnchanged

WithDraft(s) == [s EXCEPT !.text = TRUE]

\* The judge passes the draft and full_auto posts it.
PostOnX ==
    /\ pc = "judging" /\ mode = "full_auto"
    /\ posts' = [posts EXCEPT ![hand] = @ + 1]
    /\ Hold("posted", hand, [WithDraft(open[hand]) EXCEPT !.status = "posted", !.phase = "scheduled"])
    /\ UNCHANGED <<sessions, rows, cards>> /\ LoopUnchanged

\* The judge does not pass it, or the level asks for a confirmation: a card.  The
\* judge or X throws: the card of the catch clause.
Judged ==
    /\ pc = "judging"
    /\ \E at \in {"card", "fallback"} : Hold(at, hand, WithDraft(open[hand]))
    /\ UNCHANGED <<sessions, rows, posts, cards>> /\ LoopUnchanged

\* The failure of the catch clause's card is noted in the session without a draft.
DraftCard ==
    \/ /\ pc = "card"
       /\ \/ Card(hand, "draft", "carded", [copy EXCEPT !.status = "posted", !.phase = "pending"])
          \/ CardFails(hand, copy)
    \/ /\ pc = "fallback"
       /\ \/ Card(hand, "draft", "fallen", [copy EXCEPT !.status = "posted", !.phase = "pending"])
          \/ CardFails(hand, open[hand])
    \/ pc \in {"card", "fallback"} /\ TooSoon(hand)

WriteSession ==
    /\ pc \in {"liked", "posted", "carded", "fallen"}
    /\ Put(hand, copy)
    /\ Back(hand)
    /\ UNCHANGED <<rows, posts, cards>> /\ LoopUnchanged

-----------------------------------------------------------------------------
(* A write of state.json throws.  Nearly all are caught: by the catch clause *)
(* of a card, which takes it for a failure of Discord, or by that of the     *)
(* session, which shows the card of the fallback.                            *)

\* The clause of the session: nothing more for a like, a card for a draft.
Caught(t, s) ==
    \/ s.action = "like" /\ Back(t)
    \/ s.action = "draft" /\ Hold("fallback", t, s)

\* The write after a like or a post, that of a draft, and that of a failed card.
WriteThrows ==
    /\ Input
    /\ \/ pc \in {"liked", "asking"} /\ Caught(hand, open[hand])
       \/ pc = "posted" /\ Caught(hand, WithDraft(open[hand]))
       \/ pc = "card" /\ CanAttempt(open[hand]) /\ Caught(hand, copy)
       \/ \E t \in Tweets :
             /\ Take(t)
             /\ \/ open[t].action = "draft" /\ open[t].text
                \/ open[t].action = "like" /\ mode = "semi_auto" /\ CanAttempt(open[t])
             /\ Caught(t, open[t])
    /\ UNCHANGED <<sessions, rows, posts, cards, undone>> /\ LoopLeaves

\* The write after a card that Discord shows: the card counts as failed, and its
\* failure is noted, or that write throws too.
CardForgotten ==
    LET read == IF pc = "fallen" THEN open[hand] ELSE [open[hand] EXCEPT !.text = copy.text] IN
    /\ Input
    /\ pc \in {"carded", "fallen"}
    /\ cards' = [cards EXCEPT ![hand] = @ - 1]
    /\ \/ RecordFailure(hand, read)
       \/ /\ pc = "carded"
          /\ Caught(hand, read)
          /\ UNCHANGED <<sessions, rows, posts, undone>> /\ LoopLeaves

\* The process dies, or the write of a skip or of the fallback's failure throws
\* out of it.  What it was about to write is gone.
CronDies ==
    /\ pc # "idle"
    /\ Input
    /\ lost' = IF pc = "advanced" THEN lost \cup Unkept ELSE lost
    /\ cards' = IF pc \in {"carded", "fallen"} THEN [cards EXCEPT ![hand] = @ - 1] ELSE cards
    /\ Rest
    /\ UNCHANGED <<file, bot, level, tweeted, rows, posts, undone, passed>>

-----------------------------------------------------------------------------
(* The buttons.  A press reads the session, calls, and writes back what it  *)
(* read with its change, whatever became of the session in between.         *)

\* A session that is not there throws TargetSessionMissingError.
Press(p, t, at) ==
    /\ press[p].pc = "free" /\ sessions[t].status # "none"
    /\ Input
    /\ press' = [press EXCEPT ![p] = [pc |-> at, tweet |-> t, read |-> sessions[t]]]
BotUnchanged == UNCHANGED <<cursor, older, cron, level, tweeted, posts, cards, undone, passed, lost>>

PressLike(p, t) ==
    /\ "like" \in rows[t] /\ sessions[t].phase # "posted_like"
    /\ Press(p, t, "like")
    /\ UNCHANGED <<sessions, rows>> /\ BotUnchanged

PressSuggest(p, t) ==
    /\ "like" \in rows[t]
    /\ Press(p, t, "suggest")
    /\ UNCHANGED <<sessions, rows>> /\ BotUnchanged

\* Nothing is called: read and write are one step.
PressSkip(t) ==
    /\ rows[t] # {} /\ sessions[t].status # "none"
    /\ Input
    /\ Put(t, [sessions[t] EXCEPT !.action = "skip", !.phase = "skipped", !.status = "skipped"])
    /\ UNCHANGED <<press, rows>> /\ BotUnchanged

\* Read, then enqueuePublish, under the lock, then the write.  Nothing is done when
\* the message has no text (what follows its first blank line: a card of the cron
\* has none but those of the draft) or the queue holds that text already.
PressSchedule(p, t) ==
    /\ "draft" \in rows[t]
    /\ Press(p, t, "scheduled")
    /\ UNCHANGED <<sessions, rows>> /\ BotUnchanged

Finish(p, s) ==
    /\ press' = [press EXCEPT ![p] = Free]
    /\ Put(press[p].tweet, s)
    /\ UNCHANGED <<inputs>> /\ BotUnchanged

Liked(p) ==
    /\ press[p].pc = "like"
    /\ Finish(p, [press[p].read EXCEPT !.action = "like", !.phase = "posted_like",
                                       !.status = "posted"])
    /\ UNCHANGED rows

Suggested(p) ==
    /\ press[p].pc = "suggest"
    /\ Finish(p, [press[p].read EXCEPT !.action = "draft", !.phase = "pending", !.text = TRUE])
    /\ rows' = [rows EXCEPT ![press[p].tweet] = @ \cup {"draft"}]

SuggestFails(p) ==
    /\ press[p].pc = "suggest"
    /\ Finish(p, [press[p].read EXCEPT !.phase = "error", !.status = "error"])
    /\ UNCHANGED rows

Scheduled(p) ==
    /\ press[p].pc = "scheduled"
    /\ Finish(p, [press[p].read EXCEPT !.action = "draft", !.phase = "scheduled", !.text = TRUE])
    /\ UNCHANGED rows

\* likeTweet throws, a write throws, or the bot dies.
PressLost(p) ==
    /\ press[p].pc # "free"
    /\ \/ press[p].pc = "like" /\ UNCHANGED inputs
       \/ press[p].pc # "like" /\ Input
    /\ press' = [press EXCEPT ![p] = Free]
    /\ UNCHANGED <<file, cron, world>>

-----------------------------------------------------------------------------

LoopStep ==
    \/ LoadOpen \/ LoopEnds \/ NotifyManual
    \/ AskSucceeds \/ AskFails \/ PostOnX \/ Judged \/ DraftCard \/ WriteSession
    \/ \E t \in Tweets : AutoSkip(t) \/ AutoLike(t) \/ AutoLikeFails(t) \/ LikeCard(t)
                         \/ EnsureDraft(t) \/ AskDraft(t) \/ AskMissing(t)
CronStep == Discover \/ DiscoverFails \/ AdvanceCursor \/ StoreSessions \/ LoopStep
CronFaults == StoreThrows \/ WriteThrows \/ CardForgotten \/ CronDies

PressEnds(p) == Liked(p) \/ Suggested(p) \/ SuggestFails(p) \/ Scheduled(p)

Next ==
    \/ Tweet \/ SetLevel \/ Tick
    \/ LoadAll \/ Overwrite
    \/ CronStep \/ CronFaults
    \/ \E t \in Tweets : PressSkip(t)
    \/ \E p \in Presses :
          \/ PressEnds(p) \/ PressLost(p)
          \/ \E t \in Tweets : PressLike(p, t) \/ PressSuggest(p, t) \/ PressSchedule(p, t)

Spec == Init /\ [][Next]_vars

\* The timer starts the cron again and again and it comes to its end, the bot
\* ends what it began, time passes, and a like that is tried again and again succeeds.
FairSpec ==
    /\ Spec
    /\ WF_vars(CronStep) /\ WF_vars(Tick)
    /\ \A t \in Tweets : SF_vars(AutoLike(t))
    /\ \A p \in Presses : WF_vars(PressEnds(p))

-----------------------------------------------------------------------------
(* Properties.                                                              *)

\* full_auto posts a draft once, though the process may die between the post
\* and its record, or that write throw: the session was marked pending before,
\* and a later run visits open ones only.  Two things undo the mark: a write of
\* an older file, and the failure of the fallback's card that follows a post
\* whose record threw.
PostedOnce == \A t \in Tweets \ undone : posts[t] <= 1

\* The cron shows a tweet once, and once more only if it could not write that it
\* had; a customer's press that writes an old copy of the session back does not
\* bring it to the cron again.
CardShownOnce == \A t \in Tweets \ undone : cards[t] <= 1

\* Behind the cursor there is no tweet without a session, save those discovery
\* saw and left, which are those off the one page it fetches and those it did
\* not choose, and those whose session a fault or an older write took.
CursorPassesOnlyKept ==
    \A t \in 1 .. cursor :
        \/ sessions[t].status # "none"
        \/ pc = "advanced" /\ found[t].status # "none"
        \/ t \in passed \/ t \in lost

\* A session the cron gives up has failed MaxAttempts times.
TriesCounted ==
    \A t \in Tweets :
        /\ sessions[t].phase = "operator_escalated" => sessions[t].fails = MaxAttempts
        /\ IsOpen(sessions[t]) => sessions[t].fails < MaxAttempts

\* The four of them together.
TargetInv == TypeOK /\ PostedOnce /\ CardShownOnce /\ TriesCounted

\* Outside manual no session stays open, those of a manual period
\* included: each is skipped, liked, posted,
\* shown, failed or marked pending.
OpenIsHandled ==
    []<>(level # "manual" => \A t \in Tweets : ~IsOpen(sessions[t]))
=============================================================================
