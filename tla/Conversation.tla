---------------------------- MODULE Conversation ----------------------------
(***************************************************************************)
(* A Discord message becomes a turn: the message handler                   *)
(* (discord/message-handler.ts), the lock of its conversation              *)
(* (conversation/conversation-locks.ts), the turn and its record on disk   *)
(* (conversation/turn-orchestrator.ts, pending-turn-store.ts,              *)
(* turn-cancellation.ts), the runner with the confirmations it parks       *)
(* (conversation/runner.ts, pending-confirmation-store.ts), and the two    *)
(* ways from a text to a call of a handler: the agent loop                 *)
(* (llm/agent-loop.ts) and the intent classifier (intent-router.ts).       *)
(*                                                                         *)
(* A call is a handler with its arguments.  What the LLM answers, and      *)
(* whether an onboarding session takes the text as its answer, are         *)
(* choices.  cancelTurn is exported and handled, though no code in src/    *)
(* calls it yet.                                                           *)
(***************************************************************************)
EXTENDS Integers

CONSTANTS
    Messages,         \* Discord messages that shouldHandleMessage lets pass
    Keys,             \* conversations: threads, DM channels
    KeyOf,            \* message -> its conversation
    Calls,            \* calls of handlers
    Destructive,      \* calls whose tool is destructive (handlers/tool-specs.ts)
    AlwaysConfirmed,  \* calls whose intent is in DESTRUCTIVE_INTENTS
    Display,          \* calls whose intent is in DISPLAY_INTENTS
    MaxQueued,        \* MAX_QUEUED
    Ttl,              \* DEFAULT_PENDING_TTL_MS, in ticks
    ExpiredTtl,       \* DEFAULT_RECENTLY_EXPIRED_TTL_MS
    None,
    MaxTime,          \* bound: ticks of the clock
    MaxCrashes        \* bound: crashes of the process

ASSUME ConversationAssumption ==
    /\ KeyOf \in [Messages -> Keys]
    /\ Destructive \subseteq Calls /\ AlwaysConfirmed \subseteq Destructive
    /\ Display \subseteq Calls /\ Display \cap Destructive = {}
    /\ MaxQueued \in Nat /\ Ttl \in Nat /\ ExpiredTtl \in Nat
    /\ None \notin Messages /\ None \notin Calls
    /\ MaxTime \in Nat /\ MaxCrashes \in Nat

VARIABLES
    pc,         \* message -> where its handler is
    tail,       \* key -> message that asked last for the lock, or None
    running,    \* key -> runningSince is set
    queued,     \* key -> queuedCount
    prev,       \* message -> message whose release it waits for, or None
    ticket,     \* message -> how many of its key had asked before, and it
    asked,      \* key -> messages that asked for the lock so far
    aborted,    \* message -> the AbortController of its turn fired
    pending,    \* key -> message whose turn the file of pending turns names
    conf,       \* key -> parked confirmation, or None
    expired,    \* key -> confirmation kept after its expiry, or None
    approval,   \* message -> call the customer approved, or None
    unspent,    \* key, destructive call -> times it was parked for a yes,
                \* less the times its handler was called
    now, crashes

lockVars == <<tail, running, queued, prev, ticket, asked>>
askVars == <<conf, expired, approval, unspent>>
envVars == <<now, crashes>>
vars == <<pc, lockVars, aborted, pending, askVars, envVars>>

\* "delivering": the turn is over and its text is being shown, still inside
\* the lock.
TurnPcs == {"turn", "agent", "legacy", "executing", "reply"}
InsidePcs == TurnPcs \cup {"starting", "delivering"}
EndPcs == {"dropped", "refused", "done", "lost"}
PcSet == {"new", "fetching", "waiting"} \cup InsidePcs \cup EndPcs

Inside(m) == pc[m] \in InsidePcs
InTurn(m) == pc[m] \in TurnPcs

Confirmations == [call : Calls, kind : {"tool", "legacy"}, expires : 0 .. (MaxTime + Ttl)]

TypeOK ==
    /\ pc \in [Messages -> PcSet]
    /\ tail \in [Keys -> Messages \cup {None}]
    /\ running \in [Keys -> BOOLEAN]
    /\ queued \in [Keys -> Nat]
    /\ prev \in [Messages -> Messages \cup {None}]
    /\ ticket \in [Messages -> Nat]
    /\ asked \in [Keys -> Nat]
    /\ aborted \in [Messages -> BOOLEAN]
    /\ pending \in [Keys -> Messages \cup {None}]
    /\ conf \in [Keys -> Confirmations \cup {None}]
    /\ expired \in [Keys -> Confirmations \cup {None}]
    /\ approval \in [Messages -> Calls \cup {None}]
    /\ unspent \in [Keys \X Destructive -> Int]
    /\ now \in 0 .. MaxTime
    /\ crashes \in 0 .. MaxCrashes

Init ==
    /\ pc = [m \in Messages |-> "new"]
    /\ tail = [k \in Keys |-> None]
    /\ running = [k \in Keys |-> FALSE]
    /\ queued = [k \in Keys |-> 0]
    /\ prev = [m \in Messages |-> None]
    /\ ticket = [m \in Messages |-> 0]
    /\ asked = [k \in Keys |-> 0]
    /\ aborted = [m \in Messages |-> FALSE]
    /\ pending = [k \in Keys |-> None]
    /\ conf = [k \in Keys |-> None]
    /\ expired = [k \in Keys |-> None]
    /\ approval = [m \in Messages |-> None]
    /\ unspent = [x \in Keys \X Destructive |-> 0]
    /\ now = 0
    /\ crashes = 0

At(m, p) == pc[m] = p
Goto(m, p) == pc' = [pc EXCEPT ![m] = p]

-----------------------------------------------------------------------------
(* The message handler, up to the lock.                                     *)

\* A message in a thread or a DM; one in a channel gets a thread, and with it
\* a conversation, of its own.  A busy conversation drops it; otherwise the
\* transcript is fetched, which takes a call of Discord.
Arrive(m) ==
    /\ At(m, "new")
    /\ Goto(m, IF running[KeyOf[m]] THEN "dropped" ELSE "fetching")
    /\ UNCHANGED <<lockVars, aborted, pending, askVars, envVars>>

-----------------------------------------------------------------------------
(* runWithConversationLock.  An entry of the map whose tail is None is an   *)
(* entry that is not there.                                                 *)

\* Faulty: the cap counts one waiter too many.
RefuseFaulty(m) ==
    LET k == KeyOf[m] IN
    /\ At(m, "fetching")
    /\ tail[k] # None /\ running[k] /\ queued[k] + 1 >= MaxQueued
    /\ Goto(m, "refused")
    /\ UNCHANGED <<lockVars, aborted, pending, askVars, envVars>>

Refuse(m) ==
    LET k == KeyOf[m] IN
    /\ At(m, "fetching")
    /\ tail[k] # None /\ running[k] /\ queued[k] >= MaxQueued
    /\ Goto(m, "refused")
    /\ UNCHANGED <<lockVars, aborted, pending, askVars, envVars>>

\* Faulty: the line is joined only when a turn is running at this moment.
AskFaulty(m) ==
    LET k == KeyOf[m] IN
    /\ At(m, "fetching")
    /\ Goto(m, "waiting")
    /\ prev' = [prev EXCEPT ![m] = IF running[k] THEN tail[k] ELSE None]
    /\ tail' = [tail EXCEPT ![k] = m]
    /\ queued' = [queued EXCEPT ![k] = IF running[k] THEN @ + 1 ELSE @]
    /\ asked' = [asked EXCEPT ![k] = @ + 1]
    /\ ticket' = [ticket EXCEPT ![m] = asked[k] + 1]
    /\ UNCHANGED <<running, aborted, pending, askVars, envVars>>

Ask(m) ==
    LET k == KeyOf[m] IN
    /\ At(m, "fetching")
    /\ ~(tail[k] # None /\ running[k] /\ queued[k] >= MaxQueued)
    /\ Goto(m, "waiting")
    /\ prev' = [prev EXCEPT ![m] = tail[k]]
    /\ tail' = [tail EXCEPT ![k] = m]
    /\ queued' = [queued EXCEPT ![k] = IF running[k] THEN @ + 1 ELSE @]
    /\ asked' = [asked EXCEPT ![k] = @ + 1]
    /\ ticket' = [ticket EXCEPT ![m] = asked[k] + 1]
    /\ UNCHANGED <<running, aborted, pending, askVars, envVars>>

\* Faulty: the release of the predecessor is forgotten.
FreeFaulty(p) == p = None

\* The promise of the predecessor is resolved.
Free(p) == p # None => pc[p] \in EndPcs

Enter(m) ==
    LET k == KeyOf[m] IN
    /\ At(m, "waiting")
    /\ Free(prev[m])
    /\ Goto(m, "starting")
    /\ running' = [running EXCEPT ![k] = TRUE]
    /\ queued' = [queued EXCEPT ![k] = IF @ > 0 THEN @ - 1 ELSE @]
    /\ UNCHANGED <<tail, prev, ticket, asked, aborted, pending, askVars, envVars>>

\* Faulty: the entry is deleted although others wait in line.
ReleaseFaulty(m) ==
    LET k == KeyOf[m] IN
    /\ running' = [running EXCEPT ![k] = FALSE]
    /\ tail' = [tail EXCEPT ![k] = None]
    /\ queued' = [queued EXCEPT ![k] = 0]
    /\ UNCHANGED <<prev, ticket, asked>>

\* The finally clause: the entry is deleted when nobody asked after m.
Release(m) ==
    LET k == KeyOf[m] IN
    /\ running' = [running EXCEPT ![k] = FALSE]
    /\ tail' = [tail EXCEPT ![k] = IF @ = m THEN None ELSE @]
    /\ queued' = [queued EXCEPT ![k] = IF tail[k] = m THEN 0 ELSE @]
    /\ UNCHANGED <<prev, ticket, asked>>

-----------------------------------------------------------------------------
(* runConversationTurn: what it does before it calls the runner, and what   *)
(* it does in each outcome.  Writing and clearing the record are best       *)
(* effort.                                                                  *)

BeginTurn(m, stored) ==
    /\ At(m, "starting")
    /\ Goto(m, "turn")
    /\ pending' = IF stored THEN [pending EXCEPT ![KeyOf[m]] = m] ELSE pending
    /\ UNCHANGED <<lockVars, aborted, askVars, envVars>>

ClearPending(m, cleared) ==
    pending' = IF cleared THEN [pending EXCEPT ![KeyOf[m]] = None] ELSE pending

\* Faulty: a turn removes its record as soon as it reads its text.
EndTurnFaulty(m, cleared) ==
    /\ \/ At(m, "reply") /\ Goto(m, "delivering")
       \/ At(m, "agent") /\ UNCHANGED pc
    /\ ClearPending(m, cleared)
    /\ approval' = [approval EXCEPT ![m] = None]
    /\ UNCHANGED <<lockVars, aborted, conf, expired, unspent, envVars>>

\* The runner answered; an abort that came after its last check is ignored.
EndTurn(m, cleared) ==
    /\ At(m, "reply")
    /\ Goto(m, "delivering")
    /\ ClearPending(m, cleared)
    /\ approval' = [approval EXCEPT ![m] = None]
    /\ UNCHANGED <<lockVars, aborted, conf, expired, unspent, envVars>>

\* The classifier answers after the abort: TurnCancelledError leaves the lock.
TurnCancelled(m, cleared) ==
    /\ At(m, "legacy") /\ aborted[m]
    /\ Goto(m, "done")
    /\ ClearPending(m, cleared)
    /\ Release(m)
    /\ approval' = [approval EXCEPT ![m] = None]
    /\ aborted' = [aborted EXCEPT ![m] = FALSE]
    /\ UNCHANGED <<conf, expired, unspent, envVars>>

\* progress.done has settled; the lock is released.
Deliver(m) ==
    /\ At(m, "delivering")
    /\ Goto(m, "done")
    /\ Release(m)
    /\ aborted' = [aborted EXCEPT ![m] = FALSE]
    /\ UNCHANGED <<pending, askVars, envVars>>

\* cancelTurn of a registered turn.
Cancel(m) ==
    /\ InTurn(m) /\ ~aborted[m]
    /\ aborted' = [aborted EXCEPT ![m] = TRUE]
    /\ UNCHANGED <<pc, lockVars, pending, askVars, envVars>>

-----------------------------------------------------------------------------
(* The pending confirmations: get, set, delete and peekRecentlyExpired.     *)

Live(k) == conf[k] # None /\ conf[k].expires > now

\* What recentlyExpired holds of k once get has looked at it.
Remembered(k) == IF conf[k] # None /\ ~Live(k) THEN conf[k] ELSE expired[k]
Recent(k) == Remembered(k) # None /\ Remembered(k).expires + ExpiredTtl > now

Park(m, c, kind) ==
    LET k == KeyOf[m] IN
    /\ conf' = [conf EXCEPT ![k] = [call |-> c, kind |-> kind, expires |-> now + Ttl]]
    /\ expired' = [expired EXCEPT ![k] = None]
    /\ unspent' = IF c \in Destructive THEN [unspent EXCEPT ![<<k, c>>] = @ + 1] ELSE unspent

Forget(k) ==
    /\ conf' = [conf EXCEPT ![k] = None]
    /\ expired' = [expired EXCEPT ![k] = None]

Execute(m, c) ==
    /\ Goto(m, "executing")
    /\ unspent' = IF c \in Destructive
                   THEN [unspent EXCEPT ![<<KeyOf[m], c>>] = @ - 1] ELSE unspent

turnFrame == <<lockVars, aborted, pending, envVars>>

-----------------------------------------------------------------------------
(* IntentDrivenRunner.run, from the text to the branch it takes.            *)

\* How the text reads (classifyConfirmationReply) is a choice.  Without one:
AnswerBlank(m) ==
    /\ At(m, "turn")
    /\ Goto(m, "reply")
    /\ UNCHANGED <<turnFrame, askVars>>

\* Faulty: the confirmation stays in the store.
ApproveFaulty(m) ==
    LET k == KeyOf[m] IN
    /\ At(m, "turn") /\ Live(k)
    /\ \/ /\ conf[k].kind = "tool"
          /\ Goto(m, "agent")
          /\ approval' = [approval EXCEPT ![m] = conf[k].call]
          /\ UNCHANGED unspent
       \/ /\ conf[k].kind = "legacy"
          /\ Execute(m, conf[k].call)
          /\ UNCHANGED approval
    /\ UNCHANGED <<turnFrame, conf, expired>>

\* A yes: the tool call is asked of the agent loop again, with the approval;
\* the intent is dispatched as it is.
Approve(m) ==
    LET k == KeyOf[m] IN
    /\ At(m, "turn") /\ Live(k)
    /\ Forget(k)
    /\ \/ /\ conf[k].kind = "tool"
          /\ Goto(m, "agent")
          /\ approval' = [approval EXCEPT ![m] = conf[k].call]
          /\ UNCHANGED unspent
       \/ /\ conf[k].kind = "legacy"
          /\ Execute(m, conf[k].call)
          /\ UNCHANGED approval
    /\ UNCHANGED turnFrame

Decline(m) ==
    /\ At(m, "turn") /\ Live(KeyOf[m])
    /\ Forget(KeyOf[m])
    /\ Goto(m, "reply")
    /\ UNCHANGED <<turnFrame, approval, unspent>>

\* A yes to a question that expired a short time ago.
AnswerLateYes(m) ==
    LET k == KeyOf[m] IN
    /\ At(m, "turn") /\ ~Live(k) /\ Recent(k)
    /\ conf' = [conf EXCEPT ![k] = None]
    /\ expired' = [expired EXCEPT ![k] = Remembered(k)]
    /\ Goto(m, "reply")
    /\ UNCHANGED <<turnFrame, approval, unspent>>

\* Everything else is a text of its own: the answer to the open question of
\* an onboarding session, or a turn of the agent loop.  Only a yes makes
\* peekRecentlyExpired forget an old entry.
Route(m, next) ==
    LET k == KeyOf[m] IN
    /\ At(m, "turn") /\ next \in {"reply", "agent"}
    /\ \/ Live(k) /\ Forget(k)
       \/ /\ ~Live(k)
          /\ conf' = [conf EXCEPT ![k] = None]
          /\ \/ expired' = [expired EXCEPT ![k] = Remembered(k)]
             \/ ~Recent(k) /\ expired' = [expired EXCEPT ![k] = None]
    /\ Goto(m, next)
    /\ UNCHANGED <<turnFrame, approval, unspent>>

-----------------------------------------------------------------------------
(* runAgentLoopAndDispatch and runAgentLoop: one answer of the LLM.         *)

\* A text without a call, or a call the requester may not make.
AgentReplies(m) ==
    /\ At(m, "agent") /\ ~aborted[m]
    /\ Goto(m, "reply")
    /\ UNCHANGED <<turnFrame, askVars>>

\* The LLM fails, the turn was aborted, or the answer cannot be used: the
\* same text goes to the intent classifier.
AgentFallsBack(m) ==
    /\ At(m, "agent")
    /\ Goto(m, "legacy")
    /\ UNCHANGED <<turnFrame, askVars>>

\* approvalMatches: the call is the one the customer said yes to.
NeedsApproval(m, c) == c \in Destructive /\ approval[m] # c

AgentParks(m, c) ==
    /\ At(m, "agent") /\ ~aborted[m] /\ NeedsApproval(m, c)
    /\ Park(m, c, "tool")
    /\ Goto(m, "reply")
    /\ UNCHANGED <<turnFrame, approval>>

AgentCalls(m, c) ==
    /\ At(m, "agent") /\ ~aborted[m] /\ ~NeedsApproval(m, c)
    /\ Execute(m, c)
    /\ UNCHANGED <<turnFrame, conf, expired, approval>>

-----------------------------------------------------------------------------
(* runLegacyIntent: classifyIntent never throws.                            *)

\* No intent was recognised: the handler of `unknown` says so.
ClassifyFails(m) ==
    /\ At(m, "legacy") /\ ~aborted[m]
    /\ Goto(m, "reply")
    /\ UNCHANGED <<turnFrame, askVars>>

\* coerceConfirmation; outside the two lists the LLM decides.
MayAsk(c) == c \notin Display
MaySkipAsking(c) == c \notin AlwaysConfirmed

LegacyParks(m, c) ==
    /\ At(m, "legacy") /\ ~aborted[m] /\ MayAsk(c)
    /\ Park(m, c, "legacy")
    /\ Goto(m, "reply")
    /\ UNCHANGED <<turnFrame, approval>>

LegacyCalls(m, c) ==
    /\ At(m, "legacy") /\ ~aborted[m] /\ MaySkipAsking(c)
    /\ Execute(m, c)
    /\ UNCHANGED <<turnFrame, conf, expired, approval>>

\* The handler returns, or throws and the error becomes the answer.
CallSettles(m) ==
    /\ At(m, "executing")
    /\ Goto(m, "reply")
    /\ UNCHANGED <<turnFrame, conf, expired, approval, unspent>>

-----------------------------------------------------------------------------
Tick ==
    /\ now < MaxTime
    /\ now' = now + 1
    /\ UNCHANGED <<pc, lockVars, aborted, pending, askVars, crashes>>

\* The process dies and starts again: what it kept in memory is gone, the
\* file of pending turns is not, and nothing reads it at the start (main.ts).
Crash ==
    /\ crashes < MaxCrashes
    /\ crashes' = crashes + 1
    /\ pc' = [m \in Messages |-> IF At(m, "new") \/ pc[m] \in EndPcs THEN pc[m] ELSE "lost"]
    /\ tail' = [k \in Keys |-> None]
    /\ running' = [k \in Keys |-> FALSE]
    /\ queued' = [k \in Keys |-> 0]
    /\ conf' = [k \in Keys |-> None]
    /\ expired' = [k \in Keys |-> None]
    /\ approval' = [m \in Messages |-> None]
    /\ aborted' = [m \in Messages |-> FALSE]
    /\ UNCHANGED <<prev, ticket, asked, pending, unspent, now>>

HandlerStep(m) ==
    \/ Refuse(m)
    \/ Ask(m)
    \/ Enter(m)
    \/ \E stored \in BOOLEAN : BeginTurn(m, stored)
    \/ AnswerBlank(m)
    \/ Approve(m)
    \/ Decline(m)
    \/ AnswerLateYes(m)
    \/ \E next \in {"reply", "agent"} : Route(m, next)
    \/ AgentReplies(m)
    \/ AgentFallsBack(m)
    \/ \E c \in Calls : AgentParks(m, c) \/ AgentCalls(m, c)
    \/ ClassifyFails(m)
    \/ \E c \in Calls : LegacyParks(m, c) \/ LegacyCalls(m, c)
    \/ CallSettles(m)
    \/ \E cleared \in BOOLEAN : EndTurn(m, cleared) \/ TurnCancelled(m, cleared)
    \/ Deliver(m)

Next ==
    \/ \E m \in Messages : Arrive(m)
    \/ \E m \in Messages : HandlerStep(m) \/ Cancel(m)
    \/ Tick
    \/ Crash

Spec == Init /\ [][Next]_vars

\* Calls of Discord, of the LLM and of the handlers return or time out.
FairSpec == Spec /\ \A m \in Messages : WF_vars(HandlerStep(m))

-----------------------------------------------------------------------------
(* Properties.                                                              *)

\* Two turns of one conversation never overlap: they share its pending
\* confirmation, its record on disk and the state their handlers change
\* (conversation-locks.ts:9).
OneTurnAtATime ==
    \A m, n \in Messages :
        Inside(m) /\ Inside(n) /\ KeyOf[m] = KeyOf[n] => m = n

\* The two of them together.
TurnInv == TypeOK /\ OneTurnAtATime

\* The chain of promises with its deletable map entry gives the turns of a
\* conversation the lock in the order in which they asked for it.
LockPhase(m) ==
    CASE Inside(m) -> "inside"
      [] At(m, "waiting") -> "waiting"
      [] pc[m] = "done" \/ (pc[m] = "lost" /\ ticket[m] > 0) -> "gone"
      [] OTHER -> "away"

Lock == INSTANCE ConversationLock WITH
            phase <- [m \in Messages |-> LockPhase(m)],
            ahead <- [m \in Messages |->
                        {u \in Messages : KeyOf[u] = KeyOf[m]
                                            /\ 0 < ticket[u] /\ ticket[u] < ticket[m]}]

LockSpec == Lock!Spec

\* A message is refused for overload only while a turn runs and MaxQueued
\* others wait, although queuedCount is not the number of waiters.
RefusedOnlyWhenFull ==
    [][\A m \in Messages :
        pc[m] = "fetching" /\ pc'[m] = "refused" =>
            /\ \E n \in Messages : KeyOf[n] = KeyOf[m] /\ Inside(n)
            /\ \E W \in SUBSET Messages :
                 /\ \A n \in W : KeyOf[n] = KeyOf[m] /\ At(n, "waiting")
                 /\ \E f \in [1 .. MaxQueued -> W] :
                      \A i, j \in 1 .. MaxQueued : f[i] = f[j] => i = j]_vars

\* The record of a turn stays on disk until that very turn is over, so that
\* a crash finds it (turn-orchestrator.ts:10-12).
RecordLivesAsLongAsTurn ==
    [][\A k \in Keys, m \in Messages :
        pending[k] = m /\ InTurn(m) /\ InTurn(m)' => pending'[k] = m]_vars

\* A call that both paths hold for destructive is executed at most once for
\* each time the customer was asked, whatever the LLM answers, falls back to
\* or repeats, and whatever else is said in between.
ExecutedOncePerPrompt ==
    \A k \in Keys, c \in AlwaysConfirmed : unspent[<<k, c>>] >= 0

\* Every message that arrives is answered or dropped, unless the process dies.
EveryMessageSettles ==
    \A m \in Messages : pc[m] # "new" ~> pc[m] \in EndPcs
=============================================================================
