------------------------- MODULE ConversationProofs -------------------------
(***************************************************************************)
(* For any messages, conversations, cap of the queue, deaths and answers   *)
(* of the LLM: the lock of a conversation gives its turns one at a time,   *)
(* in the order of asking; the record of a turn lives as long as the turn; *)
(* a call that must be confirmed is executed at most once per prompt; and  *)
(* a message is refused for overload only when as many wait as the cap.    *)
(*                                                                         *)
(* Tickets number the messages of a conversation in the order of asking.   *)
(* Whoever waits has either nobody unfinished before it, or waits for the  *)
(* ticket before its own (PrevInv); the entry of the map is missing only   *)
(* when all are finished, and else names the last ticket (TailInv); so a   *)
(* message that got the lock has only finished ones before it (FifoInv).   *)
(***************************************************************************)
EXTENDS Conversation, TLAPS

Ended(m) == pc[m] \in EndPcs
Peer(m, u) == KeyOf[u] = KeyOf[m]

TicketInv ==
    \A m \in Messages :
        /\ ticket[m] <= asked[KeyOf[m]]
        /\ pc[m] \in {"new", "fetching", "dropped", "refused"} => ticket[m] = 0
        /\ At(m, "waiting") \/ Inside(m) \/ At(m, "done") => ticket[m] > 0
UniqueInv ==
    \A m, u \in Messages : Peer(m, u) /\ ticket[m] = ticket[u] /\ ticket[m] > 0 => m = u
TailInv ==
    \A k \in Keys :
        /\ tail[k] = None =>
              \A u \in Messages : KeyOf[u] = k /\ ticket[u] > 0 => Ended(u)
        /\ tail[k] # None =>
              KeyOf[tail[k]] = k /\ ticket[tail[k]] = asked[k] /\ asked[k] > 0
PrevInv ==
    \A m \in Messages :
        At(m, "waiting") =>
            /\ prev[m] = None =>
                  \A u \in Messages : Peer(m, u) /\ 0 < ticket[u] /\ ticket[u] < ticket[m] => Ended(u)
            /\ prev[m] # None =>
                  Peer(m, prev[m]) /\ ticket[prev[m]] > 0 /\ ticket[m] = ticket[prev[m]] + 1
FifoInv ==
    \A m, u \in Messages :
        Inside(m) \/ Ended(m) =>
            (Peer(m, u) /\ 0 < ticket[u] /\ ticket[u] < ticket[m] => Ended(u))

LineInv == TypeOK /\ TicketInv /\ UniqueInv /\ TailInv /\ PrevInv /\ FifoInv

-----------------------------------------------------------------------------
(* The steps, by what they do to the line.                                  *)

\* Before the lock is asked for.
Early(m) == Arrive(m) \/ Refuse(m)

\* Within the lock.
Calling(m, c) == AgentParks(m, c) \/ AgentCalls(m, c) \/ LegacyParks(m, c) \/ LegacyCalls(m, c)
Within(m) ==
    \/ \E stored \in BOOLEAN : BeginTurn(m, stored)
    \/ AnswerBlank(m) \/ Approve(m) \/ Decline(m) \/ AnswerLateYes(m)
    \/ \E next \in {"reply", "agent"} : Route(m, next)
    \/ AgentReplies(m) \/ AgentFallsBack(m)
    \/ \E c \in Calls : Calling(m, c)
    \/ ClassifyFails(m) \/ CallSettles(m)
    \/ \E cleared \in BOOLEAN : EndTurn(m, cleared)

\* Out of the lock.
Leaves(m) == Deliver(m) \/ \E cleared \in BOOLEAN : TurnCancelled(m, cleared)

LEMMA NextSteps ==
    ASSUME [Next]_vars
    PROVE  \/ \E m \in Messages : \/ Early(m) \/ Within(m) \/ Leaves(m)
                                  \/ Ask(m) \/ Enter(m) \/ Cancel(m)
           \/ Tick \/ Crash \/ UNCHANGED vars
BY DEF Next, HandlerStep, Early, Within, Calling, Leaves

-----------------------------------------------------------------------------
(* Types.                                                                   *)

LEMMA KeyTyped == ASSUME ConversationAssumption, NEW m \in Messages PROVE KeyOf[m] \in Keys
BY DEF ConversationAssumption

LEMMA ConfirmationTyped ==
    ASSUME ConversationAssumption, TypeOK, NEW c \in Calls, NEW kind \in {"tool", "legacy"}
    PROVE  /\ [call |-> c, kind |-> kind, expires |-> now + Ttl] \in Confirmations
           /\ [call |-> c, kind |-> kind, expires |-> now + Ttl].call = c
BY DEF ConversationAssumption, TypeOK, Confirmations

\* A prompt is counted, or a call of a handler.
LEMMA UnspentChanges ==
    ASSUME ConversationAssumption, TypeOK, NEW k \in Keys, NEW c \in Calls, NEW d \in {1, -1},
           unspent' = IF c \in Destructive
                      THEN [unspent EXCEPT ![<<k, c>>] = unspent[<<k, c>>] + d] ELSE unspent
    PROVE  /\ unspent' \in [Keys \X Destructive -> Int]
           /\ \A j \in Keys, b \in Destructive :
                unspent'[<<j, b>>] =
                    IF j = k /\ b = c THEN unspent[<<j, b>>] + d ELSE unspent[<<j, b>>]
<1>1. unspent \in [Keys \X Destructive -> Int]
  BY DEF TypeOK
<1>2. CASE c \in Destructive
  <2>1. <<k, c>> \in Keys \X Destructive /\ unspent[<<k, c>>] + d \in Int
    BY <1>1, <1>2
  <2>2. unspent' = [unspent EXCEPT ![<<k, c>>] = unspent[<<k, c>>] + d]
    BY <1>2
  <2>3. QED
    BY <1>1, <2>1, <2>2
<1>3. CASE c \notin Destructive
  BY <1>1, <1>3
<1>4. QED
  BY <1>2, <1>3

LEMMA ParkTyped ==
    ASSUME ConversationAssumption, TypeOK, NEW m \in Messages, NEW c \in Calls,
           NEW kind \in {"tool", "legacy"}, Park(m, c, kind)
    PROVE  /\ conf' \in [Keys -> Confirmations \cup {None}]
           /\ expired' \in [Keys -> Confirmations \cup {None}]
           /\ unspent' \in [Keys \X Destructive -> Int]
<1>1. unspent' \in [Keys \X Destructive -> Int]
  BY KeyTyped, UnspentChanges DEF Park
<1>2. QED
  BY <1>1, KeyTyped, ConfirmationTyped DEF Park, TypeOK

LEMMA ExecuteTyped ==
    ASSUME ConversationAssumption, TypeOK, NEW m \in Messages, NEW c \in Calls, Execute(m, c)
    PROVE  unspent' \in [Keys \X Destructive -> Int] /\ pc' = [pc EXCEPT ![m] = "executing"]
<1>1. unspent' = IF c \in Destructive
                 THEN [unspent EXCEPT ![<<KeyOf[m], c>>] = unspent[<<KeyOf[m], c>>] + (-1)]
                 ELSE unspent
  <2>1. unspent \in [Keys \X Destructive -> Int]
    BY DEF TypeOK
  <2>2. QED
    BY <2>1, KeyTyped DEF Execute
<1>2. QED
  BY <1>1, KeyTyped, UnspentChanges DEF Execute, Goto

LEMMA AskTyped ==
    ASSUME ConversationAssumption, TypeOK, NEW m \in Messages, Ask(m) \/ Enter(m) \/ Early(m)
    PROVE  TypeOK'
<1> USE KeyTyped DEF TypeOK, lockVars, askVars, envVars, PcSet, EndPcs, InsidePcs, TurnPcs, Goto, At
<1>1. CASE Ask(m)
  BY <1>1 DEF Ask
<1>2. CASE Enter(m)
  BY <1>2 DEF Enter
<1>3. CASE Early(m)
  BY <1>3 DEF Early, Arrive, Refuse
<1>4. QED
  BY <1>1, <1>2, <1>3

LEMMA LeavesTyped ==
    ASSUME ConversationAssumption, TypeOK, NEW m \in Messages, Leaves(m) \/ Cancel(m)
    PROVE  TypeOK'
<1> USE KeyTyped DEF TypeOK, askVars, envVars, PcSet, EndPcs, InsidePcs, TurnPcs, Goto, At
<1>1. CASE Leaves(m)
  <2>1. /\ running' \in [Keys -> BOOLEAN] /\ tail' \in [Keys -> Messages \cup {None}]
        /\ queued' \in [Keys -> Nat] /\ UNCHANGED <<prev, ticket, asked>>
    <3>1. Release(m)
      BY <1>1 DEF Leaves, Deliver, TurnCancelled
    <3>2. running' \in [Keys -> BOOLEAN] /\ UNCHANGED <<prev, ticket, asked>>
      BY <3>1 DEF Release
    <3>3. tail' \in [Keys -> Messages \cup {None}]
      BY <3>1 DEF Release
    <3>4. queued' \in [Keys -> Nat]
      <4>1. CASE tail[KeyOf[m]] = m
        <5>1. queued' = [queued EXCEPT ![KeyOf[m]] = 0]
          BY <3>1, <4>1 DEF Release
        <5>2. QED
          BY <5>1
      <4>2. CASE tail[KeyOf[m]] # m
        <5>1. queued' = [queued EXCEPT ![KeyOf[m]] = queued[KeyOf[m]]]
          BY <3>1, <4>2 DEF Release
        <5>2. QED
          BY <5>1
      <4>3. QED
        BY <4>1, <4>2
    <3>5. QED
      BY <3>2, <3>3, <3>4
  <2>2. pending' \in [Keys -> Messages \cup {None}]
    BY <1>1 DEF Leaves, Deliver, TurnCancelled, ClearPending
  <2>3. QED
    BY <1>1, <2>1, <2>2 DEF Leaves, Deliver, TurnCancelled
<1>2. CASE Cancel(m)
  BY <1>2 DEF Cancel, lockVars
<1>3. QED
  BY <1>1, <1>2

LEMMA CallingTyped ==
    ASSUME ConversationAssumption, TypeOK, NEW m \in Messages, NEW c \in Calls, Calling(m, c)
    PROVE  TypeOK'
<1> USE DEF turnFrame, lockVars, envVars, PcSet, EndPcs, InsidePcs, TurnPcs, Goto
<1>1. CASE AgentParks(m, c)
  BY <1>1, ParkTyped DEF AgentParks, TypeOK
<1>2. CASE LegacyParks(m, c)
  BY <1>2, ParkTyped DEF LegacyParks, TypeOK
<1>3. CASE AgentCalls(m, c)
  BY <1>3, ExecuteTyped DEF AgentCalls, TypeOK
<1>4. CASE LegacyCalls(m, c)
  BY <1>4, ExecuteTyped DEF LegacyCalls, TypeOK
<1>5. QED
  BY <1>1, <1>2, <1>3, <1>4 DEF Calling

LEMMA WithinTyped ==
    ASSUME ConversationAssumption, TypeOK, NEW m \in Messages, Within(m)
    PROVE  TypeOK'
<1> USE KeyTyped DEF turnFrame, lockVars, envVars, askVars, PcSet, EndPcs, InsidePcs, TurnPcs, Goto
<1>1. CASE \E stored \in BOOLEAN : BeginTurn(m, stored)
  BY <1>1 DEF BeginTurn, TypeOK
<1>2. CASE AnswerBlank(m) \/ AgentReplies(m) \/ AgentFallsBack(m) \/ ClassifyFails(m) \/ CallSettles(m)
  BY <1>2 DEF AnswerBlank, AgentReplies, AgentFallsBack, ClassifyFails, CallSettles, TypeOK
<1>3. CASE Approve(m)
  <2>1. conf[KeyOf[m]] \in Confirmations /\ conf[KeyOf[m]].call \in Calls
    BY <1>3 DEF Approve, Live, TypeOK, Confirmations
  <2>2. CASE Execute(m, conf[KeyOf[m]].call) /\ UNCHANGED approval
    BY <1>3, <2>1, <2>2, ExecuteTyped DEF Approve, Forget, TypeOK
  <2>3. CASE /\ Goto(m, "agent")
             /\ approval' = [approval EXCEPT ![m] = conf[KeyOf[m]].call]
             /\ UNCHANGED unspent
    BY <1>3, <2>1, <2>3 DEF Approve, Forget, TypeOK
  <2>4. QED
    BY <1>3, <2>2, <2>3 DEF Approve
<1>4. CASE Decline(m) \/ AnswerLateYes(m)
  BY <1>4 DEF Decline, AnswerLateYes, Forget, Remembered, TypeOK
<1>5. CASE \E next \in {"reply", "agent"} : Route(m, next)
  <2>1. PICK next \in {"reply", "agent"} : Route(m, next)
    BY <1>5
  <2>2. expired' \in [Keys -> Confirmations \cup {None}]
    BY <2>1 DEF Route, Forget, Remembered, TypeOK
  <2>3. conf' \in [Keys -> Confirmations \cup {None}]
    BY <2>1 DEF Route, Forget, TypeOK
  <2>4. pc' \in [Messages -> PcSet] /\ UNCHANGED <<turnFrame, approval, unspent>>
    BY <2>1 DEF Route, TypeOK
  <2>5. QED
    BY <2>2, <2>3, <2>4 DEF TypeOK
<1>6. CASE \E c \in Calls : Calling(m, c)
  BY <1>6, CallingTyped
<1>7. CASE \E cleared \in BOOLEAN : EndTurn(m, cleared)
  BY <1>7 DEF EndTurn, ClearPending, TypeOK
<1>8. QED
  BY <1>1, <1>2, <1>3, <1>4, <1>5, <1>6, <1>7 DEF Within

LEMMA OthersTyped ==
    ASSUME ConversationAssumption, TypeOK, Tick \/ Crash \/ UNCHANGED vars
    PROVE  TypeOK'
<1> USE DEF TypeOK, vars, lockVars, askVars, envVars, PcSet, EndPcs, InsidePcs, TurnPcs
<1>1. CASE Tick
  BY <1>1 DEF Tick, ConversationAssumption
<1>2. CASE Crash
  BY <1>2 DEF Crash, ConversationAssumption, At
<1>3. CASE UNCHANGED vars
  BY <1>3
<1>4. QED
  BY <1>1, <1>2, <1>3

LEMMA InitTyped == ASSUME ConversationAssumption, Init PROVE TypeOK
BY DEF Init, TypeOK, ConversationAssumption, PcSet

-----------------------------------------------------------------------------
(* The line.                                                                *)

LEMMA InitLine == ASSUME ConversationAssumption, Init PROVE LineInv
<1>1. \A m \in Messages : pc[m] = "new" /\ ticket[m] = 0
  BY DEF Init
<1>2. QED
  BY <1>1, InitTyped, KeyTyped
     DEF Init, LineInv, TicketInv, UniqueInv, TailInv, PrevInv, FifoInv, At, Inside, InsidePcs,
         TurnPcs, Ended, EndPcs

\* Only a message that had the lock, or waited for it, is overtaken by nobody.
LEMMA LineExcludes == ASSUME ConversationAssumption, LineInv PROVE OneTurnAtATime
<1> SUFFICES ASSUME NEW m \in Messages, NEW n \in Messages,
                    Inside(m), Inside(n), KeyOf[m] = KeyOf[n]
             PROVE  m = n
  BY DEF OneTurnAtATime
<1>1. ticket[m] \in Nat /\ ticket[n] \in Nat /\ ticket[m] > 0 /\ ticket[n] > 0
  BY DEF LineInv, TypeOK, TicketInv
<1>2. ~Ended(m) /\ ~Ended(n)
  BY DEF Inside, InsidePcs, TurnPcs, Ended, EndPcs
<1>3. ~(ticket[m] < ticket[n]) /\ ~(ticket[n] < ticket[m])
  BY <1>1, <1>2 DEF LineInv, FifoInv, Peer
<1>4. ticket[m] = ticket[n]
  BY <1>1, <1>3
<1>5. QED
  BY <1>1, <1>4 DEF LineInv, UniqueInv, Peer

\* A step that leaves the line alone and moves a message before the lock, or
\* within it.
LEMMA MovesKeepLine ==
    ASSUME ConversationAssumption, LineInv, TypeOK', UNCHANGED lockVars, NEW m \in Messages,
           \A u \in Messages \ {m} : pc'[u] = pc[u],
           \/ pc[m] \in {"new", "fetching"} /\ pc'[m] \in {"fetching", "dropped", "refused"}
           \/ pc[m] \in InsidePcs /\ pc'[m] \in InsidePcs
           \/ pc'[m] = pc[m]
    PROVE  LineInv'
<1> USE DEF LineInv, lockVars, At, Inside, InsidePcs, TurnPcs, Ended, EndPcs
<1>1. ticket[m] \in Nat /\ (pc[m] \in {"new", "fetching"} => ticket[m] = 0)
  BY DEF TypeOK, TicketInv
<1>2. \A u \in Messages : Ended(u) => Ended(u)'
  OBVIOUS
<1>3. TicketInv'
  BY DEF TicketInv
<1>4. UniqueInv'
  BY DEF UniqueInv, Peer
<1>5. TailInv'
  BY <1>2 DEF TailInv
<1>6. PrevInv'
  BY <1>2 DEF PrevInv, Peer
<1>7. FifoInv'
  <2> SUFFICES ASSUME NEW n \in Messages, NEW u \in Messages, (Inside(n) \/ Ended(n))',
                      Peer(n, u), 0 < ticket[u], ticket[u] < ticket[n]
               PROVE  Ended(u)'
    BY DEF FifoInv, Peer
  <2>1. CASE n = m /\ pc[m] \in {"new", "fetching"}
    <3>1. ticket[u] \in Nat
      BY DEF TypeOK
    <3>2. QED
      BY <1>1, <2>1, <3>1
  <2>2. CASE ~(n = m /\ pc[m] \in {"new", "fetching"})
    <3>1. Inside(n) \/ Ended(n)
      BY <2>2
    <3>2. QED
      BY <1>2, <3>1 DEF FifoInv
  <2>3. QED
    BY <2>1, <2>2
<1>8. QED
  BY <1>3, <1>4, <1>5, <1>6, <1>7

LEMMA AskKeepsLine ==
    ASSUME ConversationAssumption, LineInv, NEW m \in Messages, Ask(m)
    PROVE  LineInv'
<1> DEFINE k == KeyOf[m]
<1> USE KeyTyped
<1>1. /\ pc[m] = "fetching" /\ pc' = [pc EXCEPT ![m] = "waiting"]
      /\ prev' = [prev EXCEPT ![m] = tail[k]]
      /\ tail' = [tail EXCEPT ![k] = m]
      /\ asked' = [asked EXCEPT ![k] = asked[k] + 1]
      /\ ticket' = [ticket EXCEPT ![m] = asked[k] + 1]
  BY DEF Ask, At, Goto, LineInv, TypeOK
<1>2. /\ pc \in [Messages -> PcSet] /\ prev \in [Messages -> Messages \cup {None}]
      /\ tail \in [Keys -> Messages \cup {None}] /\ asked \in [Keys -> Nat]
      /\ ticket \in [Messages -> Nat]
  BY DEF LineInv, TypeOK
<1>3. ticket[m] = 0 /\ (\A u \in Messages : ticket[u] <= asked[KeyOf[u]])
  BY <1>1 DEF LineInv, TicketInv
<1>4. /\ \A u \in Messages \ {m} : pc'[u] = pc[u] /\ ticket'[u] = ticket[u] /\ prev'[u] = prev[u]
      /\ pc'[m] = "waiting" /\ ticket'[m] = asked[k] + 1 /\ prev'[m] = tail[k]
  BY <1>1, <1>2
<1>5. \A u \in Messages : Ended(u)' <=> Ended(u)
  BY <1>1, <1>4 DEF Ended, EndPcs
<1>6. \A j \in Keys : /\ j # k => tail'[j] = tail[j] /\ asked'[j] = asked[j]
                      /\ tail'[k] = m /\ asked'[k] = asked[k] + 1
  BY <1>1, <1>2
<1>7. TypeOK'
  BY AskTyped DEF LineInv
<1>8. TicketInv'
  BY <1>2, <1>3, <1>4, <1>6
     DEF LineInv, TicketInv, At, Inside, InsidePcs, TurnPcs
<1>9. UniqueInv'
  <2> SUFFICES ASSUME NEW a \in Messages, NEW b \in Messages, Peer(a, b),
                      ticket'[a] = ticket'[b], ticket'[a] > 0
               PROVE  a = b
    BY DEF UniqueInv, Peer
  <2>1. CASE a # m /\ b # m
    BY <1>4, <2>1 DEF LineInv, UniqueInv
  <2>2. CASE a = m /\ b # m
    BY <1>2, <1>3, <1>4, <2>2 DEF Peer
  <2>3. CASE a # m /\ b = m
    BY <1>2, <1>3, <1>4, <2>3 DEF Peer
  <2>4. QED
    BY <2>1, <2>2, <2>3
<1>10. TailInv'
  <2> SUFFICES ASSUME NEW j \in Keys
               PROVE  /\ tail'[j] = None =>
                           \A u \in Messages : KeyOf[u] = j /\ ticket'[u] > 0 => Ended(u)'
                      /\ tail'[j] # None =>
                           KeyOf[tail'[j]] = j /\ ticket'[tail'[j]] = asked'[j] /\ asked'[j] > 0
    BY DEF TailInv
  <2>1. CASE j = k
    BY <1>2, <1>4, <1>6, <2>1 DEF ConversationAssumption
  <2>2. CASE j # k
    <3>1. tail[j] # None => tail[j] # m
      BY <2>2 DEF LineInv, TailInv
    <3>2. tail'[j] = tail[j] /\ asked'[j] = asked[j] /\ tail[j] \in Messages \cup {None}
      BY <1>2, <1>6, <2>2
    <3>3. \A u \in Messages : KeyOf[u] = j => u # m
      BY <2>2
    <3>4. QED
      BY <1>4, <1>5, <3>1, <3>2, <3>3 DEF LineInv, TailInv
  <2>3. QED
    BY <2>1, <2>2
<1>11. PrevInv'
  <2> SUFFICES ASSUME NEW n \in Messages, pc'[n] = "waiting"
               PROVE  /\ prev'[n] = None =>
                           \A u \in Messages : Peer(n, u) /\ 0 < ticket'[u] /\ ticket'[u] < ticket'[n]
                                                 => Ended(u)'
                      /\ prev'[n] # None =>
                           /\ Peer(n, prev'[n]) /\ ticket'[prev'[n]] > 0
                           /\ ticket'[n] = ticket'[prev'[n]] + 1
    BY DEF PrevInv, Peer, At
  <2>1. CASE n = m
    <3>1. CASE tail[k] = None
      <4>1. \A u \in Messages : KeyOf[u] = k /\ ticket[u] > 0 => Ended(u)
        BY <3>1 DEF LineInv, TailInv
      <4>2. QED
        BY <1>4, <1>5, <2>1, <3>1, <4>1, <1>2 DEF Peer
    <3>2. CASE tail[k] # None
      <4>1. tail[k] \in Messages /\ KeyOf[tail[k]] = k /\ ticket[tail[k]] = asked[k] /\ asked[k] > 0
        BY <1>2, <3>2 DEF LineInv, TailInv
      <4>2. tail[k] # m
        BY <1>3, <4>1
      <4>3. QED
        BY <1>4, <2>1, <3>2, <4>1, <4>2 DEF Peer
    <3>3. QED
      BY <3>1, <3>2
  <2>2. CASE n # m
    <3>1. pc[n] = "waiting" /\ prev'[n] = prev[n] /\ ticket'[n] = ticket[n]
      BY <1>4, <2>2
    <3>2. CASE prev[n] = None
      <4>1. \A u \in Messages : Peer(n, u) /\ 0 < ticket[u] /\ ticket[u] < ticket[n] => Ended(u)
        BY <3>1, <3>2 DEF LineInv, PrevInv, At
      <4>2. ASSUME NEW u \in Messages, Peer(n, u), 0 < ticket'[u], ticket'[u] < ticket'[n]
            PROVE  Ended(u)'
        <5>1. u # m
          BY <1>2, <1>3, <1>4, <3>1, <4>2 DEF Peer
        <5>2. QED
          BY <1>4, <1>5, <3>1, <4>1, <4>2, <5>1
      <4>3. QED
        BY <3>1, <3>2, <4>2
    <3>3. CASE prev[n] # None
      <4>1. Peer(n, prev[n]) /\ ticket[prev[n]] > 0 /\ ticket[n] = ticket[prev[n]] + 1
        BY <3>1, <3>3 DEF LineInv, PrevInv, At
      <4>2. prev[n] \in Messages /\ prev[n] # m
        BY <1>2, <1>3, <3>3, <4>1
      <4>3. QED
        BY <1>4, <3>1, <3>3, <4>1, <4>2
    <3>4. QED
      BY <3>2, <3>3
  <2>3. QED
    BY <2>1, <2>2
<1>12. FifoInv'
  <2> SUFFICES ASSUME NEW n \in Messages, NEW u \in Messages, (Inside(n) \/ Ended(n))',
                      Peer(n, u), 0 < ticket'[u], ticket'[u] < ticket'[n]
               PROVE  Ended(u)'
    BY DEF FifoInv, Peer
  <2>1. n # m
    BY <1>4 DEF Inside, InsidePcs, TurnPcs, Ended, EndPcs
  <2>2. (Inside(n) \/ Ended(n)) /\ ticket'[n] = ticket[n]
    BY <1>4, <2>1 DEF Inside, Ended
  <2>3. u # m
    BY <1>2, <1>3, <1>4, <2>2 DEF Peer
  <2>4. QED
    BY <1>4, <1>5, <2>2, <2>3 DEF LineInv, FifoInv
<1>13. QED
  BY <1>7, <1>8, <1>9, <1>10, <1>11, <1>12 DEF LineInv

\* Whoever gets the lock has only finished messages before it.
LEMMA EnterIsNext ==
    ASSUME ConversationAssumption, LineInv, NEW m \in Messages, Enter(m),
           NEW u \in Messages, Peer(m, u), 0 < ticket[u], ticket[u] < ticket[m]
    PROVE  Ended(u)
<1>1. At(m, "waiting") /\ (prev[m] # None => prev[m] \in Messages /\ Ended(prev[m]))
  BY DEF Enter, Free, Ended, LineInv, TypeOK
<1>2. ticket[u] \in Nat /\ ticket[m] \in Nat
  BY DEF LineInv, TypeOK
<1>3. CASE prev[m] = None
  BY <1>1, <1>3 DEF LineInv, PrevInv
<1>4. CASE prev[m] # None
  <2>1. /\ Peer(m, prev[m]) /\ ticket[prev[m]] > 0 /\ ticket[m] = ticket[prev[m]] + 1
        /\ prev[m] \in Messages /\ Ended(prev[m]) /\ ticket[prev[m]] \in Nat
    BY <1>1, <1>4 DEF LineInv, PrevInv, TypeOK
  <2>2. CASE ticket[u] = ticket[prev[m]]
    <3>1. u = prev[m]
      BY <2>1, <2>2 DEF LineInv, UniqueInv, Peer
    <3>2. QED
      BY <2>1, <3>1
  <2>3. CASE ticket[u] < ticket[prev[m]]
    BY <2>1, <2>3 DEF LineInv, FifoInv, Peer
  <2>4. QED
    BY <1>2, <2>1, <2>2, <2>3
<1>5. QED
  BY <1>3, <1>4

LEMMA EnterKeepsLine ==
    ASSUME ConversationAssumption, LineInv, NEW m \in Messages, Enter(m)
    PROVE  LineInv'
<1>1. /\ pc[m] = "waiting" /\ pc' = [pc EXCEPT ![m] = "starting"]
      /\ UNCHANGED <<tail, prev, ticket, asked>>
  BY DEF Enter, At, Goto
<1>2. \A u \in Messages : /\ u # m => pc'[u] = pc[u]
                          /\ pc'[m] = "starting"
                          /\ Ended(u)' <=> Ended(u)
  BY <1>1 DEF LineInv, TypeOK, Ended, EndPcs
<1>3. TypeOK'
  BY AskTyped DEF LineInv
<1>4. TicketInv'
  BY <1>1, <1>2 DEF LineInv, TicketInv, At, Inside, InsidePcs, TurnPcs
<1>5. UniqueInv'
  BY <1>1 DEF LineInv, UniqueInv, Peer
<1>6. TailInv'
  BY <1>1, <1>2 DEF LineInv, TailInv
<1>7. PrevInv'
  BY <1>1, <1>2 DEF LineInv, PrevInv, Peer, At
<1>8. ASSUME NEW n \in Messages, NEW u \in Messages, (Inside(n) \/ Ended(n))',
             Peer(n, u), 0 < ticket[u], ticket[u] < ticket[n]
      PROVE  Ended(u)'
  <2>1. CASE n = m
    BY <1>2, <1>8, <2>1, EnterIsNext
  <2>2. CASE n # m
    BY <1>2, <1>8, <2>2 DEF LineInv, FifoInv, Inside
  <2>3. QED
    BY <2>1, <2>2
<1>9. FifoInv'
  BY <1>1, <1>8 DEF FifoInv, Peer
<1>10. QED
  BY <1>3, <1>4, <1>5, <1>6, <1>7, <1>9 DEF LineInv

LEMMA LeaveKeepsLine ==
    ASSUME ConversationAssumption, LineInv, NEW m \in Messages, Leaves(m)
    PROVE  LineInv'
<1> DEFINE k == KeyOf[m]
<1>1. /\ Inside(m) /\ pc' = [pc EXCEPT ![m] = "done"]
      /\ tail' = [tail EXCEPT ![k] = IF tail[k] = m THEN None ELSE tail[k]]
      /\ UNCHANGED <<prev, ticket, asked>>
  BY DEF Leaves, Deliver, TurnCancelled, Release, At, Goto, Inside, InsidePcs, TurnPcs
<1>2. /\ \A u \in Messages \ {m} : pc'[u] = pc[u]
      /\ pc'[m] = "done" /\ Ended(m)'
      /\ \A u \in Messages : Ended(u) => Ended(u)'
  BY <1>1 DEF LineInv, TypeOK, Ended, EndPcs
<1>3. TypeOK'
  BY LeavesTyped DEF LineInv
<1>4. TicketInv'
  BY <1>1, <1>2 DEF LineInv, TicketInv, At, Inside
<1>5. UniqueInv'
  BY <1>1 DEF LineInv, UniqueInv, Peer
<1>6. TailInv'
  <2> SUFFICES ASSUME NEW j \in Keys
               PROVE  /\ tail'[j] = None =>
                           \A u \in Messages : KeyOf[u] = j /\ ticket[u] > 0 => Ended(u)'
                      /\ tail'[j] # None =>
                           KeyOf[tail'[j]] = j /\ ticket[tail'[j]] = asked[j] /\ asked[j] > 0
    BY <1>1 DEF TailInv
  <2>1. CASE j = k /\ tail[k] = m
    <3>1. tail'[j] = None
      BY <1>1, <2>1 DEF LineInv, TypeOK
    <3>2. ticket[m] = asked[k] /\ (\A u \in Messages : ticket[u] \in Nat /\ ticket[u] <= asked[KeyOf[u]])
      BY <2>1, KeyTyped DEF LineInv, TailInv, TicketInv, TypeOK, ConversationAssumption
    <3>3. ASSUME NEW u \in Messages, KeyOf[u] = k, ticket[u] > 0 PROVE Ended(u)'
      <4>1. CASE u = m
        BY <1>2, <4>1
      <4>2. CASE u # m
        <5>1. ticket[u] # ticket[m]
          BY <3>3, <4>2 DEF LineInv, UniqueInv, Peer
        <5>2. ticket[u] < ticket[m]
          BY <3>2, <3>3, <5>1
        <5>3. Ended(u)
          BY <1>1, <3>3, <5>2 DEF LineInv, FifoInv, Peer
        <5>4. QED
          BY <1>2, <5>3
      <4>3. QED
        BY <4>1, <4>2
    <3>4. QED
      BY <2>1, <3>1, <3>3
  <2>2. CASE ~(j = k /\ tail[k] = m)
    <3>1. tail'[j] = tail[j]
      BY <1>1, <2>2 DEF LineInv, TypeOK
    <3>2. QED
      BY <1>2, <3>1 DEF LineInv, TailInv
  <2>3. QED
    BY <2>1, <2>2
<1>7. PrevInv'
  BY <1>1, <1>2 DEF LineInv, PrevInv, Peer, At
<1>8. FifoInv'
  BY <1>1, <1>2 DEF LineInv, FifoInv, Peer, Inside, Ended
<1>9. QED
  BY <1>3, <1>4, <1>5, <1>6, <1>7, <1>8 DEF LineInv

LEMMA CrashKeepsLine == ASSUME ConversationAssumption, LineInv, Crash PROVE LineInv'
<1>1. UNCHANGED <<prev, ticket, asked>> /\ (\A k \in Keys : tail'[k] = None)
  BY DEF Crash
<1>2. \A m \in Messages : pc'[m] = IF pc[m] = "new" \/ pc[m] \in EndPcs THEN pc[m] ELSE "lost"
  BY DEF Crash, At
<1>3. \A m \in Messages : /\ ticket[m] > 0 => Ended(m)'
                          /\ ~(Inside(m)') /\ pc'[m] # "waiting"
  BY <1>2 DEF LineInv, TicketInv, TypeOK, Ended, EndPcs, Inside, InsidePcs, TurnPcs
<1>4. TypeOK'
  BY OthersTyped DEF LineInv
<1>5. TicketInv'
  BY <1>1, <1>2, <1>3 DEF LineInv, TicketInv, At, EndPcs
<1>6. UniqueInv'
  BY <1>1 DEF LineInv, UniqueInv, Peer
<1>7. TailInv'
  BY <1>1, <1>3 DEF TailInv
<1>8. PrevInv' /\ FifoInv'
  BY <1>1, <1>3 DEF PrevInv, FifoInv, At
<1>9. QED
  BY <1>4, <1>5, <1>6, <1>7, <1>8 DEF LineInv

\* What the steps before and within the lock do to where messages are.
LEMMA WithinMoves ==
    ASSUME TypeOK, NEW m \in Messages, Within(m)
    PROVE  /\ UNCHANGED lockVars
           /\ \A u \in Messages \ {m} : pc'[u] = pc[u]
           /\ pc[m] \in InsidePcs /\ pc'[m] \in InsidePcs
<1> USE DEF turnFrame, InsidePcs, TurnPcs, Goto, At, TypeOK
<1>1. CASE \E stored \in BOOLEAN : BeginTurn(m, stored)
  BY <1>1 DEF BeginTurn
<1>2. CASE AnswerBlank(m) \/ AgentReplies(m) \/ AgentFallsBack(m) \/ ClassifyFails(m) \/ CallSettles(m)
  BY <1>2 DEF AnswerBlank, AgentReplies, AgentFallsBack, ClassifyFails, CallSettles
<1>3. CASE Approve(m)
  BY <1>3 DEF Approve, Execute
<1>4. CASE Decline(m) \/ AnswerLateYes(m)
  BY <1>4 DEF Decline, AnswerLateYes
<1>5. CASE \E next \in {"reply", "agent"} : Route(m, next)
  BY <1>5 DEF Route
<1>6. CASE \E c \in Calls : Calling(m, c)
  BY <1>6 DEF Calling, AgentParks, AgentCalls, LegacyParks, LegacyCalls, Execute
<1>7. CASE \E cleared \in BOOLEAN : EndTurn(m, cleared)
  BY <1>7 DEF EndTurn
<1>8. QED
  BY <1>1, <1>2, <1>3, <1>4, <1>5, <1>6, <1>7 DEF Within

LEMMA EarlyMoves ==
    ASSUME TypeOK, NEW m \in Messages, Early(m)
    PROVE  /\ UNCHANGED lockVars
           /\ \A u \in Messages \ {m} : pc'[u] = pc[u]
           /\ pc[m] \in {"new", "fetching"} /\ pc'[m] \in {"fetching", "dropped", "refused"}
BY DEF Early, Arrive, Refuse, At, Goto, TypeOK

LEMMA NextKeepsLine ==
    ASSUME ConversationAssumption, LineInv, [Next]_vars
    PROVE  LineInv'
<1>1. ASSUME NEW m \in Messages, Within(m) PROVE LineInv'
  BY <1>1, WithinTyped, WithinMoves, MovesKeepLine DEF LineInv
<1>2. ASSUME NEW m \in Messages, Early(m) PROVE LineInv'
  BY <1>2, AskTyped, EarlyMoves, MovesKeepLine DEF LineInv
<1>3. ASSUME NEW m \in Messages, Cancel(m) PROVE LineInv'
  BY <1>3, LeavesTyped, MovesKeepLine DEF LineInv, Cancel
<1>4. CASE Tick \/ UNCHANGED vars
  <2>1. UNCHANGED <<pc, lockVars>>
    BY <1>4 DEF Tick, vars
  <2>2. TypeOK'
    BY <1>4, OthersTyped DEF LineInv
  <2>3. QED
    BY <2>1, <2>2 DEF LineInv, lockVars, TicketInv, UniqueInv, TailInv, PrevInv, FifoInv, Peer, At,
                      Inside, Ended
<1>5. QED
  BY <1>1, <1>2, <1>3, <1>4, NextSteps, AskKeepsLine, EnterKeepsLine, LeaveKeepsLine, CrashKeepsLine

LEMMA LineInvHolds == Spec => []LineInv
<1>1. Init => LineInv
  BY InitLine, ConversationAssumption
<1>2. LineInv /\ [Next]_vars => LineInv'
  BY NextKeepsLine, ConversationAssumption
<1>3. QED
  BY <1>1, <1>2, PTL DEF Spec

\* Two turns of one conversation never overlap, whatever was refused, dropped,
\* cancelled or lost before (runWithConversationLock).
THEOREM TurnInvHolds == Spec => []TurnInv
<1>1. LineInv => TurnInv
  BY LineExcludes, ConversationAssumption DEF LineInv, TurnInv
<1>2. QED
  BY <1>1, LineInvHolds, PTL

-----------------------------------------------------------------------------
(* The lock as its abstract specification has it.                           *)

LEMMA PhaseIs ==
    ASSUME NEW m \in Messages
    PROVE  /\ Inside(m) => LockPhase(m) = "inside"
           /\ At(m, "waiting") => LockPhase(m) = "waiting"
           /\ pc[m] = "done" \/ (pc[m] = "lost" /\ ticket[m] > 0) => LockPhase(m) = "gone"
           /\ pc[m] \in {"new", "fetching", "dropped", "refused"} \/ (pc[m] = "lost" /\ ticket[m] = 0)
                => LockPhase(m) = "away"
BY DEF LockPhase, Inside, InsidePcs, TurnPcs, At

\* The same of the next state.
LEMMA PhaseIsNext ==
    ASSUME NEW m \in Messages
    PROVE  /\ pc'[m] \in InsidePcs => LockPhase(m)' = "inside"
           /\ pc'[m] = "waiting" => LockPhase(m)' = "waiting"
           /\ pc'[m] = "done" \/ (pc'[m] = "lost" /\ ticket'[m] > 0) => LockPhase(m)' = "gone"
           /\ \/ pc'[m] \in {"new", "fetching", "dropped", "refused"}
              \/ pc'[m] = "lost" /\ ticket'[m] = 0
                => LockPhase(m)' = "away"
BY DEF LockPhase, Inside, InsidePcs, TurnPcs, At

LEMMA PhaseStays ==
    ASSUME NEW m \in Messages, pc'[m] = pc[m], ticket'[m] = ticket[m]
    PROVE  LockPhase(m)' = LockPhase(m)
BY DEF LockPhase, Inside, At

LEMMA AwayHasNoTicket ==
    ASSUME LineInv, NEW m \in Messages
    PROVE  /\ LockPhase(m) = "away" <=> ticket[m] = 0
           /\ Ended(m) /\ ticket[m] > 0 => LockPhase(m) = "gone"
           /\ LockPhase(m) = "inside" => Inside(m)
<1>1. pc[m] \in PcSet /\ ticket[m] \in Nat
  BY DEF LineInv, TypeOK
<1>2. pc[m] \in {"new", "fetching", "dropped", "refused"} => ticket[m] = 0
  BY DEF LineInv, TicketInv
<1>3. At(m, "waiting") \/ Inside(m) \/ At(m, "done") => ticket[m] > 0
  BY DEF LineInv, TicketInv
<1>4. QED
  BY <1>1, <1>2, <1>3, PhaseIs DEF PcSet, EndPcs, Ended, Inside, At

\* Nothing of the line changes.
LEMMA StutterOfLock ==
    ASSUME UNCHANGED ticket, \A u \in Messages : LockPhase(u)' = LockPhase(u)
    PROVE  UNCHANGED Lock!vars
BY DEF Lock!vars

LEMMA AskImplements ==
    ASSUME ConversationAssumption, LineInv, NEW m \in Messages, Ask(m)
    PROVE  Lock!Ask(m)
<1> DEFINE k == KeyOf[m]
<1> DEFINE before(n) == {u \in Messages : KeyOf[u] = KeyOf[n] /\ 0 < ticket[u] /\ ticket[u] < ticket[n]}
<1>1. /\ pc[m] = "fetching" /\ pc' = [pc EXCEPT ![m] = "waiting"]
      /\ ticket' = [ticket EXCEPT ![m] = asked[k] + 1]
  BY DEF Ask, At, Goto
<1>2. /\ \A u \in Messages : ticket[u] \in Nat /\ asked[KeyOf[u]] \in Nat /\ ticket[u] <= asked[KeyOf[u]]
      /\ ticket[m] = 0
  BY <1>1, KeyTyped DEF LineInv, TypeOK, TicketInv
<1>3. /\ pc'[m] = "waiting" /\ ticket'[m] = asked[k] + 1
      /\ \A u \in Messages \ {m} : pc'[u] = pc[u] /\ ticket'[u] = ticket[u]
  BY <1>1 DEF LineInv, TypeOK
<1>4. LockPhase(m) = "away" /\ LockPhase(m)' = "waiting"
  BY <1>1, <1>3, PhaseIs, PhaseIsNext
<1>5. \A u \in Messages \ {m} : LockPhase(u)' = LockPhase(u)
  BY <1>3, PhaseStays
<1>6. [u \in Messages |-> LockPhase(u)]' = [[u \in Messages |-> LockPhase(u)] EXCEPT ![m] = "waiting"]
  BY <1>4, <1>5
<1>7. \A n \in Messages \ {m} : before(n)' = before(n)
  <2> SUFFICES ASSUME NEW n \in Messages \ {m}, NEW u \in Messages
               PROVE  (KeyOf[u] = KeyOf[n] /\ 0 < ticket'[u] /\ ticket'[u] < ticket'[n])
                         <=> (KeyOf[u] = KeyOf[n] /\ 0 < ticket[u] /\ ticket[u] < ticket[n])
    OBVIOUS
  <2>1. CASE u = m
    BY <1>2, <1>3, <2>1
  <2>2. CASE u # m
    BY <1>3, <2>2
  <2>3. QED
    BY <2>1, <2>2
<1>8. before(m)' = {u \in Lock!Peers(m) : LockPhase(u) # "away"}
  <2> SUFFICES ASSUME NEW u \in Messages
               PROVE  (KeyOf[u] = k /\ 0 < ticket'[u] /\ ticket'[u] < ticket'[m])
                         <=> (KeyOf[u] = k /\ LockPhase(u) # "away")
    BY DEF Lock!Peers
  <2>1. CASE u = m
    BY <1>2, <1>3, <1>4, <2>1
  <2>2. CASE u # m
    <3>1. LockPhase(u) = "away" <=> ticket[u] = 0
      BY AwayHasNoTicket
    <3>2. QED
      BY <1>2, <1>3, <2>2, <3>1
  <2>3. QED
    BY <2>1, <2>2
<1>9. [n \in Messages |-> before(n)]' = [[n \in Messages |-> before(n)] EXCEPT ![m] = before(m)']
  BY <1>7
<1>10. QED
  BY <1>4, <1>6, <1>8, <1>9 DEF Lock!Ask, Lock!Peers

LEMMA EnterImplements ==
    ASSUME ConversationAssumption, LineInv, NEW m \in Messages, Enter(m)
    PROVE  Lock!Enter(m)
<1>1. /\ pc[m] = "waiting" /\ pc' = [pc EXCEPT ![m] = "starting"] /\ UNCHANGED ticket
  BY DEF Enter, At, Goto
<1>2. pc'[m] = "starting" /\ \A u \in Messages \ {m} : pc'[u] = pc[u]
  BY <1>1 DEF LineInv, TypeOK
<1>3. LockPhase(m) = "waiting" /\ LockPhase(m)' = "inside"
  BY <1>1, <1>2, PhaseIs, PhaseIsNext DEF At, InsidePcs
<1>4. \A u \in Messages \ {m} : LockPhase(u)' = LockPhase(u)
  BY <1>1, <1>2, PhaseStays
<1>5. ASSUME NEW u \in Messages, Peer(m, u), 0 < ticket[u], ticket[u] < ticket[m]
      PROVE  LockPhase(u) = "gone"
  BY <1>5, EnterIsNext, AwayHasNoTicket DEF LineInv
<1>6. ASSUME NEW u \in Messages, Peer(m, u)
      PROVE  LockPhase(u) # "inside"
  <2> SUFFICES ASSUME LockPhase(u) = "inside" PROVE FALSE
    OBVIOUS
  <2>1. Inside(u) /\ ~Ended(u) /\ u # m /\ ~Ended(m)
    BY <1>1, <1>3, AwayHasNoTicket DEF Inside, InsidePcs, TurnPcs, Ended, EndPcs
  <2>2. ticket[u] \in Nat /\ ticket[m] \in Nat /\ ticket[u] > 0 /\ ticket[m] > 0
    BY <1>1, <2>1 DEF LineInv, TypeOK, TicketInv, At
  <2>3. ~(ticket[u] < ticket[m])
    BY <1>6, <2>1, <2>2, EnterIsNext
  <2>4. ~(ticket[m] < ticket[u])
    BY <1>6, <2>1, <2>2 DEF LineInv, FifoInv, Peer
  <2>5. ticket[u] # ticket[m]
    BY <1>6, <2>1, <2>2 DEF LineInv, UniqueInv, Peer
  <2>6. QED
    BY <2>2, <2>3, <2>4, <2>5
<1>7. [u \in Messages |-> LockPhase(u)]' = [[u \in Messages |-> LockPhase(u)] EXCEPT ![m] = "inside"]
  BY <1>3, <1>4
<1>8. QED
  BY <1>1, <1>3, <1>5, <1>6, <1>7 DEF Lock!Enter, Lock!Peers, Peer

LEMMA LeaveImplements ==
    ASSUME ConversationAssumption, LineInv, NEW m \in Messages, Leaves(m)
    PROVE  Lock!Leave(m)
<1>1. Inside(m) /\ pc' = [pc EXCEPT ![m] = "done"] /\ UNCHANGED ticket
  BY DEF Leaves, Deliver, TurnCancelled, Release, At, Goto, Inside, InsidePcs, TurnPcs
<1>2. pc'[m] = "done" /\ \A u \in Messages \ {m} : pc'[u] = pc[u]
  BY <1>1 DEF LineInv, TypeOK
<1>3. LockPhase(m) = "inside" /\ LockPhase(m)' = "gone"
  BY <1>1, <1>2, PhaseIs, PhaseIsNext
<1>4. \A u \in Messages \ {m} : LockPhase(u)' = LockPhase(u)
  BY <1>1, <1>2, PhaseStays
<1>5. [u \in Messages |-> LockPhase(u)]' = [[u \in Messages |-> LockPhase(u)] EXCEPT ![m] = "gone"]
  BY <1>3, <1>4
<1>6. QED
  BY <1>1, <1>3, <1>5 DEF Lock!Leave

LEMMA CrashImplements ==
    ASSUME ConversationAssumption, LineInv, Crash
    PROVE  Lock!Crash
<1>1. UNCHANGED ticket
  BY DEF Crash
<1>2. \A m \in Messages : pc'[m] = IF pc[m] = "new" \/ pc[m] \in EndPcs THEN pc[m] ELSE "lost"
  BY DEF Crash, At
<1>3. ASSUME NEW m \in Messages
      PROVE  LockPhase(m)' = IF LockPhase(m) \in {"waiting", "inside"} THEN "gone" ELSE LockPhase(m)
  <2>1. pc[m] \in PcSet /\ ticket[m] \in Nat
    BY DEF LineInv, TypeOK
  <2>2. CASE pc[m] = "new" \/ pc[m] \in EndPcs
    <3>1. LockPhase(m)' = LockPhase(m)
      BY <1>1, <1>2, <2>2, PhaseStays
    <3>2. LockPhase(m) \notin {"waiting", "inside"}
      BY <2>1, <2>2, PhaseIs DEF EndPcs
    <3>3. QED
      BY <3>1, <3>2
  <2>3. CASE pc[m] = "fetching"
    <3>1. pc'[m] = "lost" /\ ticket'[m] = 0
      BY <1>1, <1>2, <2>3 DEF EndPcs, LineInv, TicketInv
    <3>2. QED
      BY <2>3, <3>1, PhaseIs, PhaseIsNext
  <2>4. CASE pc[m] = "waiting" \/ pc[m] \in InsidePcs
    <3>1. pc'[m] = "lost" /\ ticket'[m] > 0
      BY <1>1, <1>2, <2>4 DEF EndPcs, InsidePcs, TurnPcs, Inside, At, LineInv, TicketInv
    <3>2. LockPhase(m) \in {"waiting", "inside"}
      BY <2>4, PhaseIs DEF Inside, At
    <3>3. QED
      BY <3>1, <3>2, PhaseIsNext
  <2>5. QED
    BY <2>1, <2>2, <2>3, <2>4 DEF PcSet
<1>4. QED
  BY <1>1, <1>3 DEF Lock!Crash

\* A step that is none of the lock's.
LEMMA OthersImplement ==
    ASSUME ConversationAssumption, LineInv, UNCHANGED ticket, NEW m \in Messages,
           \A u \in Messages \ {m} : pc'[u] = pc[u],
           \/ pc[m] \in {"new", "fetching"} /\ pc'[m] \in {"fetching", "dropped", "refused"}
           \/ pc[m] \in InsidePcs /\ pc'[m] \in InsidePcs
           \/ pc'[m] = pc[m]
    PROVE  UNCHANGED Lock!vars
<1>1. \A u \in Messages \ {m} : LockPhase(u)' = LockPhase(u)
  BY PhaseStays
<1>2. LockPhase(m)' = LockPhase(m)
  <2>1. CASE pc'[m] = pc[m]
    BY <2>1, PhaseStays
  <2>2. CASE pc[m] \in InsidePcs /\ pc'[m] \in InsidePcs
    BY <2>2, PhaseIs, PhaseIsNext DEF Inside
  <2>3. CASE pc[m] \in {"new", "fetching"} /\ pc'[m] \in {"fetching", "dropped", "refused"}
    <3>1. LockPhase(m) = "away"
      BY <2>3, PhaseIs
    <3>2. LockPhase(m)' = "away"
      <4>1. pc'[m] \in {"new", "fetching", "dropped", "refused"}
        BY <2>3
      <4>2. QED
        BY <4>1 DEF LockPhase, Inside, InsidePcs, TurnPcs, At
    <3>3. QED
      BY <3>1, <3>2
  <2>4. QED
    BY <2>1, <2>2, <2>3
<1>3. QED
  BY <1>1, <1>2, StutterOfLock

LEMMA NextImplements ==
    ASSUME ConversationAssumption, LineInv, [Next]_vars
    PROVE  [Lock!Next]_(Lock!vars)
<1> USE DEF lockVars
<1>1. ASSUME NEW m \in Messages, Within(m) PROVE UNCHANGED Lock!vars
  BY <1>1, WithinMoves, OthersImplement DEF LineInv
<1>2. ASSUME NEW m \in Messages, Early(m) PROVE UNCHANGED Lock!vars
  BY <1>2, EarlyMoves, OthersImplement DEF LineInv
<1>3. ASSUME NEW m \in Messages, Cancel(m) PROVE UNCHANGED Lock!vars
  BY <1>3, OthersImplement DEF Cancel
<1>4. CASE Tick \/ UNCHANGED vars
  <2>1. UNCHANGED <<pc, ticket>>
    BY <1>4 DEF Tick, vars
  <2>2. QED
    BY <2>1, PhaseStays, StutterOfLock
<1>5. CASE Crash
  BY <1>5, CrashImplements DEF Lock!Next
<1>6. ASSUME NEW m \in Messages, Ask(m) \/ Enter(m) \/ Leaves(m) PROVE Lock!Next
  BY <1>6, AskImplements, EnterImplements, LeaveImplements DEF Lock!Next
<1>7. QED
  BY <1>1, <1>2, <1>3, <1>4, <1>5, <1>6, NextSteps

\* The chain of promises, with a map entry that is deleted when its last link
\* is done, gives a conversation's turns the lock one at a time and in the
\* order of asking: it implements ConversationLock.
THEOREM LockSpecHolds == Spec => LockSpec
<1>1. Init => Lock!Init
  <2> SUFFICES ASSUME Init PROVE Lock!Init
    OBVIOUS
  <2>1. \A m \in Messages : pc[m] = "new" /\ ticket[m] = 0
    BY DEF Init
  <2>2. \A m \in Messages : LockPhase(m) = "away"
    BY <2>1, PhaseIs
  <2>3. QED
    BY <2>1, <2>2 DEF Lock!Init
<1>2. LineInv /\ [Next]_vars => [Lock!Next]_(Lock!vars)
  BY NextImplements, ConversationAssumption
<1>3. QED
  BY <1>1, <1>2, LineInvHolds, PTL DEF Spec, LockSpec, Lock!Spec

-----------------------------------------------------------------------------
(* The record of a turn.                                                    *)

\* Only the start and the end of a turn touch it.
LEMMA WithinTurnKeepsRecord ==
    ASSUME NEW m \in Messages, Within(m)
    PROVE  \/ \E stored \in BOOLEAN : BeginTurn(m, stored)
           \/ \E cleared \in BOOLEAN : EndTurn(m, cleared)
           \/ UNCHANGED pending
<1> USE DEF turnFrame
<1>1. CASE AnswerBlank(m) \/ AgentReplies(m) \/ AgentFallsBack(m) \/ ClassifyFails(m) \/ CallSettles(m)
  BY <1>1 DEF AnswerBlank, AgentReplies, AgentFallsBack, ClassifyFails, CallSettles
<1>2. CASE Approve(m) \/ Decline(m) \/ AnswerLateYes(m) \/ \E next \in {"reply", "agent"} : Route(m, next)
  BY <1>2 DEF Approve, Decline, AnswerLateYes, Route
<1>3. CASE \E c \in Calls : Calling(m, c)
  BY <1>3 DEF Calling, AgentParks, AgentCalls, LegacyParks, LegacyCalls
<1>4. QED
  BY <1>1, <1>2, <1>3 DEF Within

\* A record names a message of its conversation.
RecordInv == \A k \in Keys : pending[k] # None => KeyOf[pending[k]] = k

LEMMA NextKeepsRecords ==
    ASSUME ConversationAssumption, LineInv, RecordInv, [Next]_vars
    PROVE  RecordInv'
<1> USE KeyTyped DEF RecordInv
<1>1. pending \in [Keys -> Messages \cup {None}]
  BY DEF LineInv, TypeOK
<1>2. ASSUME NEW m \in Messages, NEW stored \in BOOLEAN, BeginTurn(m, stored) PROVE RecordInv'
  <2>1. pending' = pending \/ pending' = [pending EXCEPT ![KeyOf[m]] = m]
    BY <1>2 DEF BeginTurn
  <2>2. QED
    BY <1>1, <2>1
<1>3. ASSUME NEW m \in Messages, NEW cleared \in BOOLEAN, ClearPending(m, cleared) PROVE RecordInv'
  <2>1. pending' = pending \/ pending' = [pending EXCEPT ![KeyOf[m]] = None]
    BY <1>3 DEF ClearPending
  <2>2. QED
    BY <1>1, <2>1
<1>4. ASSUME NEW m \in Messages, Within(m) PROVE RecordInv'
  <2>1. CASE \E stored \in BOOLEAN : BeginTurn(m, stored)
    BY <1>2, <2>1
  <2>2. CASE \E cleared \in BOOLEAN : EndTurn(m, cleared)
    BY <1>3, <2>2 DEF EndTurn
  <2>3. CASE UNCHANGED pending
    BY <2>3
  <2>4. QED
    BY <1>4, <2>1, <2>2, <2>3, WithinTurnKeepsRecord DEF Within
<1>5. ASSUME NEW m \in Messages, Leaves(m) PROVE RecordInv'
  BY <1>3, <1>5 DEF Leaves, TurnCancelled, Deliver
<1>6. ASSUME NEW m \in Messages, Early(m) \/ Ask(m) \/ Enter(m) \/ Cancel(m) PROVE RecordInv'
  BY <1>6 DEF Early, Arrive, Refuse, Ask, Enter, Cancel
<1>7. CASE Tick \/ Crash \/ UNCHANGED vars
  BY <1>7 DEF Tick, Crash, vars
<1>8. QED
  BY <1>4, <1>5, <1>6, <1>7, NextSteps

\* One step and one record.
LEMMA StepKeepsRecord ==
    ASSUME ConversationAssumption, LineInv, RecordInv, [Next]_vars,
           NEW k \in Keys, NEW m \in Messages, pending[k] = m, InTurn(m), InTurn(m)'
    PROVE  pending'[k] = m
<1>1. KeyOf[m] = k /\ Inside(m) /\ pc[m] # "starting" /\ pc'[m] \in TurnPcs
  BY DEF RecordInv, InTurn, Inside, InsidePcs, TurnPcs, ConversationAssumption
<1>2. \A n \in Messages : Inside(n) /\ KeyOf[n] = k => n = m
  BY <1>1, LineExcludes DEF OneTurnAtATime
<1>3. pending \in [Keys -> Messages \cup {None}] /\ pc \in [Messages -> PcSet]
  BY DEF LineInv, TypeOK
<1>4. ASSUME NEW n \in Messages, NEW stored \in BOOLEAN, BeginTurn(n, stored)
      PROVE  pending'[k] = m
  <2>1. At(n, "starting") /\ (pending' = pending \/ pending' = [pending EXCEPT ![KeyOf[n]] = n])
    BY <1>4 DEF BeginTurn
  <2>2. KeyOf[n] # k
    BY <1>1, <1>2, <2>1 DEF At, Inside, InsidePcs
  <2>3. QED
    BY <1>3, <2>1, <2>2
<1>5. ASSUME NEW n \in Messages, NEW cleared \in BOOLEAN, ClearPending(n, cleared), Inside(n),
             pc'[n] \notin TurnPcs
      PROVE  pending'[k] = m
  <2>1. pending' = pending \/ pending' = [pending EXCEPT ![KeyOf[n]] = None]
    BY <1>5 DEF ClearPending
  <2>2. KeyOf[n] # k
    BY <1>1, <1>2, <1>5
  <2>3. QED
    BY <1>3, <2>1, <2>2
<1>6. ASSUME NEW n \in Messages, Within(n) PROVE pending'[k] = m
  <2>1. CASE \E stored \in BOOLEAN : BeginTurn(n, stored)
    BY <1>4, <2>1
  <2>2. CASE \E cleared \in BOOLEAN : EndTurn(n, cleared)
    BY <1>3, <1>5, <2>2 DEF EndTurn, At, Goto, Inside, InsidePcs, TurnPcs
  <2>3. CASE UNCHANGED pending
    BY <2>3
  <2>4. QED
    BY <1>6, <2>1, <2>2, <2>3, WithinTurnKeepsRecord DEF Within
<1>7. ASSUME NEW n \in Messages, Leaves(n) PROVE pending'[k] = m
  BY <1>3, <1>5, <1>7 DEF Leaves, TurnCancelled, Deliver, At, Goto, Inside, InsidePcs, TurnPcs
<1>8. ASSUME NEW n \in Messages, Early(n) \/ Ask(n) \/ Enter(n) \/ Cancel(n) PROVE pending'[k] = m
  BY <1>8 DEF Early, Arrive, Refuse, Ask, Enter, Cancel
<1>9. CASE Tick \/ Crash \/ UNCHANGED vars
  BY <1>9 DEF Tick, Crash, vars
<1>10. QED
  BY <1>6, <1>7, <1>8, <1>9, NextSteps

\* While a turn works, nothing removes or replaces its record on disk, so a
\* crash finds it (persistPending, clearPending).
THEOREM RecordLivesAsLongAsTurnHolds == Spec => RecordLivesAsLongAsTurn
<1>1. Init => RecordInv
  BY DEF Init, RecordInv
<1>2. LineInv /\ RecordInv /\ [Next]_vars => RecordInv'
  BY NextKeepsRecords, ConversationAssumption
<1>3. LineInv /\ RecordInv /\ [Next]_vars =>
        [\A k \in Keys, m \in Messages :
            pending[k] = m /\ InTurn(m) /\ InTurn(m)' => pending'[k] = m]_vars
  BY StepKeepsRecord, ConversationAssumption
<1>4. QED
  BY <1>1, <1>2, <1>3, LineInvHolds, PTL DEF Spec, RecordLivesAsLongAsTurn

-----------------------------------------------------------------------------
(* The prompts.  What a conversation may still execute of a call that both  *)
(* paths confirm is covered: one prompt for the confirmation that is        *)
(* parked, one for the approval the agent loop of its turn carries.         *)

Parked(k, c) == conf[k] # None /\ conf[k].call = c
Carries(m, c) == At(m, "agent") /\ approval[m] = c

\* Before a turn has read its text it carries no approval.
ApprovalInv ==
    \A m \in Messages :
        pc[m] \in {"new", "fetching", "waiting", "starting", "turn"} => approval[m] = None
BudgetInv ==
    \A k \in Keys, c \in AlwaysConfirmed :
        /\ unspent[<<k, c>>] >= 0
        /\ Parked(k, c) => unspent[<<k, c>>] >= 1
        /\ \A m \in Messages :
             KeyOf[m] = k /\ Carries(m, c) =>
                /\ unspent[<<k, c>>] >= 1
                /\ Parked(k, c) => unspent[<<k, c>>] >= 2

PromptInv == ApprovalInv /\ BudgetInv

LEMMA CallsTyped ==
    ASSUME ConversationAssumption, TypeOK
    PROVE  /\ AlwaysConfirmed \subseteq Destructive /\ AlwaysConfirmed \subseteq Calls
           /\ \A k \in Keys, c \in AlwaysConfirmed : c # None /\ unspent[<<k, c>>] \in Int
BY DEF ConversationAssumption, TypeOK

\* A step that neither asks nor executes.
LEMMA QuietKeepsBudget ==
    ASSUME ConversationAssumption, BudgetInv, UNCHANGED unspent,
           \A k \in Keys : conf'[k] \in {conf[k], None},
           \A m \in Messages, c \in AlwaysConfirmed : Carries(m, c)' => Carries(m, c)
    PROVE  BudgetInv'
BY DEF BudgetInv, Parked

\* Of the messages of a conversation only the one within its lock carries an
\* approval.
LEMMA OneCarries ==
    ASSUME ConversationAssumption, LineInv, NEW m \in Messages, Inside(m),
           NEW u \in Messages, KeyOf[u] = KeyOf[m], u # m
    PROVE  ~At(u, "agent")
<1>1. ~Inside(u)
  BY LineExcludes DEF OneTurnAtATime
<1>2. QED
  BY <1>1 DEF At, Inside, InsidePcs, TurnPcs

\* A step of m within its turn that changes what its conversation asked, or
\* what it executed.
LEMMA TurnKeepsBudget ==
    ASSUME ConversationAssumption, LineInv, BudgetInv, NEW m \in Messages, Inside(m),
           \A u \in Messages \ {m} : pc'[u] = pc[u] /\ approval'[u] = approval[u],
           \A j \in Keys \ {KeyOf[m]} : conf'[j] = conf[j],
           \A j \in Keys \ {KeyOf[m]}, c \in AlwaysConfirmed : unspent'[<<j, c>>] = unspent[<<j, c>>],
           \A c \in AlwaysConfirmed :
              /\ unspent'[<<KeyOf[m], c>>] >= 0
              /\ Parked(KeyOf[m], c)' => unspent'[<<KeyOf[m], c>>] >= 1
              /\ Carries(m, c)' =>
                    unspent'[<<KeyOf[m], c>>] >= 1 /\ ~(Parked(KeyOf[m], c)')
    PROVE  BudgetInv'
<1> SUFFICES ASSUME NEW k \in Keys, NEW c \in AlwaysConfirmed
             PROVE  /\ unspent'[<<k, c>>] >= 0
                    /\ Parked(k, c)' => unspent'[<<k, c>>] >= 1
                    /\ \A u \in Messages :
                         KeyOf[u] = k /\ Carries(u, c)' =>
                            /\ unspent'[<<k, c>>] >= 1
                            /\ Parked(k, c)' => unspent'[<<k, c>>] >= 2
  BY DEF BudgetInv
<1>1. CASE k = KeyOf[m]
  <2>1. \A u \in Messages : KeyOf[u] = k /\ u # m => ~(Carries(u, c)')
    <3> SUFFICES ASSUME NEW u \in Messages, KeyOf[u] = k, u # m PROVE ~(Carries(u, c)')
      OBVIOUS
    <3>1. ~At(u, "agent") /\ pc'[u] = pc[u]
      BY <1>1, OneCarries
    <3>2. QED
      BY <3>1 DEF Carries, At
  <2>2. QED
    BY <1>1, <2>1
<1>2. CASE k # KeyOf[m]
  <2>1. unspent'[<<k, c>>] = unspent[<<k, c>>] /\ (Parked(k, c)' <=> Parked(k, c))
    BY <1>2 DEF Parked
  <2>2. \A u \in Messages : KeyOf[u] = k => (Carries(u, c)' <=> Carries(u, c))
    BY <1>2 DEF Carries, At
  <2>3. /\ unspent[<<k, c>>] >= 0
        /\ Parked(k, c) => unspent[<<k, c>>] >= 1
        /\ \A u \in Messages :
             KeyOf[u] = k /\ Carries(u, c) =>
                /\ unspent[<<k, c>>] >= 1
                /\ Parked(k, c) => unspent[<<k, c>>] >= 2
    BY DEF BudgetInv
  <2>4. QED
    BY <2>1, <2>2, <2>3
<1>3. QED
  BY <1>1, <1>2

\* A question: the calls it is not about lose their confirmation.
LEMMA ParkKeepsBudget ==
    ASSUME ConversationAssumption, LineInv, BudgetInv, NEW m \in Messages, Inside(m),
           NEW c \in Calls, NEW kind \in {"tool", "legacy"}, Park(m, c, kind),
           Goto(m, "reply"), UNCHANGED approval
    PROVE  BudgetInv'
<1> DEFINE k == KeyOf[m]
<1>1. k \in Keys /\ TypeOK
  BY KeyTyped DEF LineInv
<1>2. conf' = [conf EXCEPT ![k] = [call |-> c, kind |-> kind, expires |-> now + Ttl]]
  BY DEF Park
<1>3. /\ \A j \in Keys \ {k} : conf'[j] = conf[j]
      /\ conf'[k].call = c
  BY <1>1, <1>2, ConfirmationTyped DEF TypeOK
<1>4. \A j \in Keys, b \in Destructive :
         unspent'[<<j, b>>] = IF j = k /\ b = c THEN unspent[<<j, b>>] + 1 ELSE unspent[<<j, b>>]
  BY <1>1, UnspentChanges DEF Park
<1>5. /\ \A u \in Messages \ {m} : pc'[u] = pc[u] /\ approval'[u] = approval[u]
      /\ pc'[m] = "reply"
  BY <1>1 DEF Goto, TypeOK
<1>6. \A b \in AlwaysConfirmed : b \in Destructive /\ unspent[<<k, b>>] \in Int /\ unspent[<<k, b>>] >= 0
  BY <1>1, CallsTyped DEF BudgetInv
<1>7. ASSUME NEW b \in AlwaysConfirmed
      PROVE  /\ unspent'[<<k, b>>] >= 0
             /\ Parked(k, b)' => unspent'[<<k, b>>] >= 1
             /\ ~(Carries(m, b)')
  <2>1. Parked(k, b)' => b = c
    BY <1>3 DEF Parked
  <2>2. ~(Carries(m, b)')
    BY <1>5 DEF Carries, At
  <2>3. QED
    BY <1>1, <1>4, <1>6, <2>1, <2>2
<1>8. \A j \in Keys \ {k}, b \in AlwaysConfirmed : unspent'[<<j, b>>] = unspent[<<j, b>>]
  BY <1>4, <1>6
<1>9. QED
  BY <1>3, <1>5, <1>7, <1>8, TurnKeepsBudget

\* A call: of one that both paths confirm, only with a prompt to its name.
LEMMA ExecuteKeepsBudget ==
    ASSUME ConversationAssumption, LineInv, BudgetInv, NEW m \in Messages, Inside(m),
           NEW c \in Calls, Execute(m, c), UNCHANGED approval,
           \A j \in Keys \ {KeyOf[m]} : conf'[j] = conf[j],
           conf'[KeyOf[m]] \in {conf[KeyOf[m]], None},
           c \in AlwaysConfirmed =>
              \/ Parked(KeyOf[m], c) /\ conf'[KeyOf[m]] = None
              \/ Carries(m, c)
    PROVE  BudgetInv'
<1> DEFINE k == KeyOf[m]
<1>1. k \in Keys /\ TypeOK
  BY KeyTyped DEF LineInv
<1>2. unspent' = IF c \in Destructive
                 THEN [unspent EXCEPT ![<<k, c>>] = unspent[<<k, c>>] + (-1)] ELSE unspent
  <2>1. unspent \in [Keys \X Destructive -> Int]
    BY <1>1 DEF TypeOK
  <2>2. QED
    BY <1>1, <2>1 DEF Execute
<1>3. \A j \in Keys, b \in Destructive :
         unspent'[<<j, b>>] = IF j = k /\ b = c THEN unspent[<<j, b>>] + (-1) ELSE unspent[<<j, b>>]
  BY <1>1, <1>2, UnspentChanges
<1>4. /\ \A u \in Messages \ {m} : pc'[u] = pc[u] /\ approval'[u] = approval[u]
      /\ pc'[m] = "executing"
  BY <1>1 DEF Execute, Goto, TypeOK
<1>5. \A b \in AlwaysConfirmed : b \in Destructive /\ unspent[<<k, b>>] \in Int
  BY <1>1, CallsTyped
<1>6. ASSUME NEW b \in AlwaysConfirmed
      PROVE  /\ unspent'[<<k, b>>] >= 0
             /\ Parked(k, b)' => unspent'[<<k, b>>] >= 1
             /\ ~(Carries(m, b)')
  <2>1. ~(Carries(m, b)')
    BY <1>4 DEF Carries, At
  <2>2. /\ unspent[<<k, b>>] >= 0
        /\ Parked(k, b) => unspent[<<k, b>>] >= 1
        /\ Carries(m, b) => unspent[<<k, b>>] >= 1 /\ (Parked(k, b) => unspent[<<k, b>>] >= 2)
    BY <1>1 DEF BudgetInv
  <2>3. Parked(k, b)' => Parked(k, b) /\ conf'[k] # None
    BY DEF Parked
  <2>4. CASE b = c
    <3>1. unspent'[<<k, b>>] = unspent[<<k, b>>] + (-1)
      BY <1>1, <1>3, <1>5, <2>4
    <3>2. QED
      BY <1>5, <2>1, <2>2, <2>3, <2>4, <3>1
  <2>5. CASE b # c
    <3>1. unspent'[<<k, b>>] = unspent[<<k, b>>]
      BY <1>1, <1>3, <1>5, <2>5
    <3>2. QED
      BY <2>1, <2>2, <2>3, <3>1
  <2>6. QED
    BY <2>4, <2>5
<1>7. \A j \in Keys \ {k}, b \in AlwaysConfirmed : unspent'[<<j, b>>] = unspent[<<j, b>>]
  BY <1>3, <1>5
<1>8. QED
  BY <1>4, <1>6, <1>7, TurnKeepsBudget

\* A yes: the confirmation becomes an approval, or its call is made.
LEMMA ApproveKeepsBudget ==
    ASSUME ConversationAssumption, LineInv, BudgetInv, NEW m \in Messages, Approve(m)
    PROVE  BudgetInv'
<1> DEFINE k == KeyOf[m]
<1> DEFINE asked0 == conf[k].call
<1>1. k \in Keys /\ TypeOK /\ Inside(m)
  BY KeyTyped DEF LineInv, Approve, At, Inside, InsidePcs, TurnPcs
<1>2. conf[k] \in Confirmations /\ conf[k] # None /\ asked0 \in Calls
  BY <1>1 DEF Approve, Live, TypeOK, Confirmations
<1>3. conf'[k] = None /\ \A j \in Keys \ {k} : conf'[j] = conf[j]
  BY <1>1 DEF Approve, Forget, TypeOK
<1>4. Parked(k, asked0)
  BY <1>2 DEF Parked
<1>5. CASE Execute(m, asked0) /\ UNCHANGED approval
  BY <1>1, <1>2, <1>3, <1>4, <1>5, ExecuteKeepsBudget
<1>6. CASE /\ Goto(m, "agent")
           /\ approval' = [approval EXCEPT ![m] = asked0]
           /\ UNCHANGED unspent
  <2>1. \A u \in Messages \ {m} : pc'[u] = pc[u] /\ approval'[u] = approval[u]
    BY <1>1, <1>6 DEF Goto, TypeOK
  <2>2. approval'[m] = asked0
    BY <1>1, <1>6 DEF TypeOK
  <2>3. ASSUME NEW c \in AlwaysConfirmed
        PROVE  /\ unspent'[<<k, c>>] >= 0
               /\ ~(Parked(k, c)')
               /\ Carries(m, c)' => unspent'[<<k, c>>] >= 1
    <3>1. Carries(m, c)' => c = asked0
      BY <2>2 DEF Carries
    <3>2. unspent[<<k, c>>] >= 0 /\ (Parked(k, c) => unspent[<<k, c>>] >= 1)
      BY <1>1 DEF BudgetInv
    <3>3. ~(Parked(k, c)')
      BY <1>3 DEF Parked
    <3>4. QED
      BY <1>4, <1>6, <3>1, <3>2, <3>3
  <2>4. \A j \in Keys \ {k}, c \in AlwaysConfirmed : unspent'[<<j, c>>] = unspent[<<j, c>>]
    BY <1>6
  <2>5. QED
    BY <1>1, <1>3, <2>1, <2>3, <2>4, TurnKeepsBudget
<1>7. QED
  BY <1>5, <1>6 DEF Approve

LEMMA CallingKeepsBudget ==
    ASSUME ConversationAssumption, LineInv, BudgetInv, NEW m \in Messages, NEW c \in Calls,
           Calling(m, c)
    PROVE  BudgetInv'
<1>1. TypeOK /\ Inside(m)
  BY DEF LineInv, Calling, AgentParks, AgentCalls, LegacyParks, LegacyCalls, At, Inside, InsidePcs,
         TurnPcs
<1>2. CASE AgentParks(m, c)
  BY <1>1, <1>2, ParkKeepsBudget DEF AgentParks
<1>3. CASE LegacyParks(m, c)
  BY <1>1, <1>3, ParkKeepsBudget DEF LegacyParks
<1>4. CASE AgentCalls(m, c)
  <2>1. c \in AlwaysConfirmed => Carries(m, c)
    BY <1>4, CallsTyped, <1>1 DEF AgentCalls, NeedsApproval, Carries
  <2>2. Execute(m, c) /\ UNCHANGED <<conf, approval>>
    BY <1>4 DEF AgentCalls
  <2>3. QED
    BY <1>1, <2>1, <2>2, ExecuteKeepsBudget
<1>5. CASE LegacyCalls(m, c)
  <2>1. c \notin AlwaysConfirmed /\ Execute(m, c) /\ UNCHANGED <<conf, approval>>
    BY <1>5 DEF LegacyCalls, MaySkipAsking
  <2>2. QED
    BY <1>1, <2>1, ExecuteKeepsBudget
<1>6. QED
  BY <1>2, <1>3, <1>4, <1>5 DEF Calling

LEMMA WithinKeepsBudget ==
    ASSUME ConversationAssumption, LineInv, ApprovalInv, BudgetInv, NEW m \in Messages, Within(m)
    PROVE  BudgetInv'
<1>1. TypeOK /\ KeyOf[m] \in Keys
  BY KeyTyped DEF LineInv
<1>2. \A c \in AlwaysConfirmed : c # None
  BY <1>1, CallsTyped
<1>3. CASE \E stored \in BOOLEAN : BeginTurn(m, stored)
  <2>1. UNCHANGED <<conf, approval, unspent>> /\ Goto(m, "turn")
    BY <1>3 DEF BeginTurn, askVars
  <2>2. QED
    BY <1>1, <2>1, QuietKeepsBudget DEF Goto, Carries, At, TypeOK
<1>4. CASE AnswerBlank(m) \/ AgentReplies(m) \/ AgentFallsBack(m) \/ ClassifyFails(m) \/ CallSettles(m)
  <2>1. UNCHANGED <<conf, approval, unspent>> /\ (Goto(m, "reply") \/ Goto(m, "legacy"))
    BY <1>4 DEF AnswerBlank, AgentReplies, AgentFallsBack, ClassifyFails, CallSettles, askVars
  <2>2. QED
    BY <1>1, <2>1, QuietKeepsBudget DEF Goto, Carries, At, TypeOK
<1>5. CASE Approve(m)
  BY <1>5, ApproveKeepsBudget
<1>6. CASE Decline(m) \/ AnswerLateYes(m) \/ \E next \in {"reply", "agent"} : Route(m, next)
  <2>1. /\ UNCHANGED <<approval, unspent>> /\ conf' = [conf EXCEPT ![KeyOf[m]] = None]
        /\ pc[m] = "turn" /\ (Goto(m, "reply") \/ Goto(m, "agent"))
    BY <1>6 DEF Decline, AnswerLateYes, Route, Forget, At
  <2>2. approval[m] = None
    BY <2>1 DEF ApprovalInv
  <2>3. \A k \in Keys : conf'[k] \in {conf[k], None}
    BY <1>1, <2>1 DEF TypeOK
  <2>4. \A u \in Messages, c \in AlwaysConfirmed : Carries(u, c)' => Carries(u, c)
    BY <1>1, <1>2, <2>1, <2>2 DEF Goto, Carries, At, TypeOK
  <2>5. QED
    BY <2>1, <2>3, <2>4, QuietKeepsBudget
<1>7. CASE \E c \in Calls : Calling(m, c)
  BY <1>7, CallingKeepsBudget
<1>8. CASE \E cleared \in BOOLEAN : EndTurn(m, cleared)
  <2>1. /\ UNCHANGED <<conf, unspent>> /\ Goto(m, "delivering")
        /\ approval' = [approval EXCEPT ![m] = None]
    BY <1>8 DEF EndTurn
  <2>2. QED
    BY <1>1, <2>1, QuietKeepsBudget DEF Goto, Carries, At, TypeOK
<1>9. QED
  BY <1>3, <1>4, <1>5, <1>6, <1>7, <1>8 DEF Within

LEMMA WithinKeepsApproval ==
    ASSUME TypeOK, ApprovalInv, NEW m \in Messages, Within(m)
    PROVE  ApprovalInv'
<1> USE DEF ApprovalInv, Goto, At, TypeOK
<1>1. CASE \E stored \in BOOLEAN : BeginTurn(m, stored)
  BY <1>1 DEF BeginTurn, askVars
<1>2. CASE AnswerBlank(m) \/ AgentReplies(m) \/ AgentFallsBack(m) \/ ClassifyFails(m) \/ CallSettles(m)
  BY <1>2 DEF AnswerBlank, AgentReplies, AgentFallsBack, ClassifyFails, CallSettles, askVars
<1>3. CASE Approve(m)
  BY <1>3 DEF Approve, Execute
<1>4. CASE Decline(m) \/ AnswerLateYes(m) \/ \E next \in {"reply", "agent"} : Route(m, next)
  BY <1>4 DEF Decline, AnswerLateYes, Route
<1>5. CASE \E c \in Calls : Calling(m, c)
  BY <1>5 DEF Calling, AgentParks, AgentCalls, LegacyParks, LegacyCalls, Execute
<1>6. CASE \E cleared \in BOOLEAN : EndTurn(m, cleared)
  BY <1>6 DEF EndTurn
<1>7. QED
  BY <1>1, <1>2, <1>3, <1>4, <1>5, <1>6 DEF Within

LEMMA NextKeepsPrompts ==
    ASSUME ConversationAssumption, LineInv, PromptInv, [Next]_vars
    PROVE  PromptInv'
<1>1. TypeOK /\ ApprovalInv /\ BudgetInv
  BY DEF LineInv, PromptInv
<1>2. ASSUME NEW m \in Messages, Within(m) PROVE PromptInv'
  BY <1>1, <1>2, WithinKeepsBudget, WithinKeepsApproval DEF PromptInv
<1>3. ASSUME NEW m \in Messages, Early(m) \/ Ask(m) \/ Enter(m) \/ Cancel(m) PROVE PromptInv'
  <2>1. /\ UNCHANGED <<conf, approval, unspent>>
        /\ \/ UNCHANGED pc
           \/ /\ pc[m] \in {"new", "fetching", "waiting"}
              /\ \E p \in {"dropped", "fetching", "refused", "waiting", "starting"} : Goto(m, p)
    BY <1>3 DEF Early, Arrive, Refuse, Ask, Enter, Cancel, askVars, At
  <2>2. ApprovalInv'
    BY <1>1, <2>1 DEF ApprovalInv, Goto, TypeOK
  <2>3. \A u \in Messages, c \in AlwaysConfirmed : Carries(u, c)' => Carries(u, c)
    BY <1>1, <2>1 DEF Goto, Carries, At, TypeOK
  <2>4. QED
    BY <1>1, <2>1, <2>2, <2>3, QuietKeepsBudget DEF PromptInv
<1>4. ASSUME NEW m \in Messages, Leaves(m) PROVE PromptInv'
  <2>1. /\ UNCHANGED <<conf, unspent>> /\ Goto(m, "done")
        /\ UNCHANGED approval \/ approval' = [approval EXCEPT ![m] = None]
    BY <1>4 DEF Leaves, Deliver, TurnCancelled, askVars
  <2>2. ApprovalInv'
    BY <1>1, <2>1 DEF ApprovalInv, Goto, TypeOK
  <2>3. \A u \in Messages, c \in AlwaysConfirmed : Carries(u, c)' => Carries(u, c)
    BY <1>1, <2>1 DEF Goto, Carries, At, TypeOK
  <2>4. QED
    BY <1>1, <2>1, <2>2, <2>3, QuietKeepsBudget DEF PromptInv
<1>5. CASE Tick \/ UNCHANGED vars
  <2>1. UNCHANGED <<pc, conf, approval, unspent>>
    BY <1>5 DEF Tick, vars, askVars
  <2>2. QED
    BY <1>1, <2>1 DEF PromptInv, ApprovalInv, BudgetInv, Parked, Carries, At
<1>6. CASE Crash
  <2>1. /\ UNCHANGED unspent /\ (\A k \in Keys : conf'[k] = None)
        /\ \A m \in Messages : approval'[m] = None
    BY <1>6 DEF Crash
  <2>2. \A c \in AlwaysConfirmed : c # None
    BY <1>1, CallsTyped
  <2>3. ApprovalInv'
    BY <2>1 DEF ApprovalInv
  <2>4. QED
    BY <1>1, <2>1, <2>2, <2>3, QuietKeepsBudget DEF PromptInv, Carries
<1>7. QED
  BY <1>2, <1>3, <1>4, <1>5, <1>6, NextSteps

LEMMA InitPrompts == ASSUME ConversationAssumption, Init PROVE PromptInv
<1>1. \A k \in Keys, c \in AlwaysConfirmed : unspent[<<k, c>>] = 0
  BY DEF Init, ConversationAssumption
<1>2. QED
  BY <1>1 DEF Init, PromptInv, ApprovalInv, BudgetInv, Parked, Carries, At

\* A call that both paths confirm is executed at most once for each time it was
\* asked, whatever the LLM answers, falls back to or repeats
\* (pending-confirmation-store.ts, IntentDrivenRunner.run).
THEOREM ExecutedOncePerPromptHolds == Spec => []ExecutedOncePerPrompt
<1>1. Init => PromptInv
  BY InitPrompts, ConversationAssumption
<1>2. LineInv /\ PromptInv /\ [Next]_vars => PromptInv'
  BY NextKeepsPrompts, ConversationAssumption
<1>3. PromptInv => ExecutedOncePerPrompt
  BY DEF PromptInv, BudgetInv, ExecutedOncePerPrompt
<1>4. QED
  BY <1>1, <1>2, <1>3, LineInvHolds, PTL DEF Spec

-----------------------------------------------------------------------------
(* The cap of the queue.  queued[k] is not the number of waiters: a message *)
(* that asks between the end of a turn and the start of the next is not     *)
(* counted.  But the queued[k] last tickets of k are all waiting.           *)

Waits(k, t) == \E u \in Messages : KeyOf[u] = k /\ pc[u] = "waiting" /\ ticket[u] = t
Runs(k) == \E u \in Messages : KeyOf[u] = k /\ Inside(u)

CapInv ==
    \A k \in Keys :
        /\ running[k] => Runs(k)
        /\ \A t \in Int : asked[k] - queued[k] < t /\ t <= asked[k] => Waits(k, t)

\* A step that leaves the lock alone and moves nobody out of the line.
LEMMA MovesKeepCap ==
    ASSUME CapInv, UNCHANGED lockVars, NEW m \in Messages,
           \A u \in Messages \ {m} : pc'[u] = pc[u],
           \/ pc[m] # "waiting" /\ (Inside(m) => Inside(m)')
           \/ pc'[m] = pc[m]
    PROVE  CapInv'
<1>1. \A u \in Messages : /\ pc[u] = "waiting" => pc'[u] = "waiting"
                          /\ Inside(u) => Inside(u)'
  BY DEF Inside
<1>2. \A k \in Keys : Runs(k) => Runs(k)'
  BY <1>1 DEF Runs
<1>3. \A k \in Keys, t \in Int : Waits(k, t) => Waits(k, t)'
  BY <1>1 DEF Waits, lockVars
<1>4. QED
  BY <1>2, <1>3 DEF CapInv, lockVars

LEMMA AskKeepsCap ==
    ASSUME ConversationAssumption, LineInv, CapInv, NEW m \in Messages, Ask(m)
    PROVE  CapInv'
<1> DEFINE k == KeyOf[m]
<1>1. /\ pc[m] = "fetching" /\ pc'[m] = "waiting"
      /\ \A u \in Messages \ {m} : pc'[u] = pc[u] /\ ticket'[u] = ticket[u]
      /\ ticket'[m] = asked[k] + 1
      /\ k \in Keys
  BY KeyTyped DEF Ask, At, Goto, LineInv, TypeOK
<1>2. /\ running' = running
      /\ \A j \in Keys \ {k} : asked'[j] = asked[j] /\ queued'[j] = queued[j]
      /\ asked'[k] = asked[k] + 1
      /\ queued'[k] \in {queued[k], queued[k] + 1}
  BY <1>1 DEF Ask, LineInv, TypeOK
<1>3. asked \in [Keys -> Nat] /\ queued \in [Keys -> Nat]
  BY DEF LineInv, TypeOK
<1>4. \A j \in Keys : Runs(j) => Runs(j)'
  BY <1>1 DEF Runs, Inside, InsidePcs, TurnPcs
<1>5. \A j \in Keys, t \in Int : Waits(j, t) => Waits(j, t)'
  BY <1>1 DEF Waits
<1>6. \A t \in Int : t = asked[k] + 1 => Waits(k, t)'
  BY <1>1 DEF Waits
<1>7. ASSUME NEW j \in Keys, NEW t \in Int, asked'[j] - queued'[j] < t, t <= asked'[j]
      PROVE  Waits(j, t)'
  <2>1. CASE j # k
    BY <1>2, <1>5, <1>7, <2>1 DEF CapInv
  <2>2. CASE j = k /\ t = asked[k] + 1
    BY <1>6, <2>2
  <2>3. CASE j = k /\ t # asked[k] + 1
    <3>1. asked[k] - queued[k] < t /\ t <= asked[k]
      BY <1>1, <1>2, <1>3, <1>7, <2>3
    <3>2. QED
      BY <1>5, <2>3, <3>1 DEF CapInv
  <2>4. QED
    BY <2>1, <2>2, <2>3
<1>8. QED
  BY <1>2, <1>4, <1>7 DEF CapInv

\* Whoever enters holds the lowest ticket of those who wait: of the last
\* queued tickets it can have only the first, which is no longer counted.
LEMMA EnterKeepsCap ==
    ASSUME ConversationAssumption, LineInv, CapInv, NEW m \in Messages, Enter(m)
    PROVE  CapInv'
<1> DEFINE k == KeyOf[m]
<1>1. /\ pc[m] = "waiting" /\ pc'[m] = "starting"
      /\ \A u \in Messages \ {m} : pc'[u] = pc[u]
      /\ UNCHANGED <<ticket, asked>>
      /\ k \in Keys
  BY KeyTyped DEF Enter, At, Goto, LineInv, TypeOK
<1>2. \A j \in Keys \ {k} : running'[j] = running[j] /\ queued'[j] = queued[j]
  BY DEF Enter, LineInv, TypeOK
<1>3. queued'[k] = IF queued[k] > 0 THEN queued[k] - 1 ELSE queued[k]
  BY <1>1 DEF Enter, LineInv, TypeOK
<1>4. asked \in [Keys -> Nat] /\ queued \in [Keys -> Nat] /\ ticket \in [Messages -> Nat]
  BY DEF LineInv, TypeOK
<1>5. \A j \in Keys : Runs(j) => Runs(j)'
  BY <1>1 DEF Runs, Inside, InsidePcs, TurnPcs
<1>6. Runs(k)'
  BY <1>1 DEF Runs, Inside, InsidePcs
<1>7. \A j \in Keys, t \in Int : Waits(j, t) /\ (j = k => t # ticket[m]) => Waits(j, t)'
  BY <1>1 DEF Waits
<1>8. ASSUME NEW t \in Int, asked[k] - queued[k] < t, t <= asked[k] PROVE ticket[m] <= t
  <2>1. PICK u \in Messages : KeyOf[u] = k /\ pc[u] = "waiting" /\ ticket[u] = t
    BY <1>1, <1>8 DEF CapInv, Waits
  <2>2. ticket[u] > 0
    BY <2>1 DEF LineInv, TicketInv, At
  <2>3. ~Ended(u)
    BY <2>1 DEF Ended, EndPcs
  <2>4. ~(ticket[u] < ticket[m])
    BY <2>1, <2>2, <2>3, EnterIsNext DEF Peer
  <2>5. QED
    BY <1>4, <2>1, <2>4
<1>9. ASSUME NEW j \in Keys, NEW t \in Int, asked[j] - queued'[j] < t, t <= asked[j]
      PROVE  Waits(j, t)'
  <2>1. CASE j # k
    BY <1>2, <1>7, <1>9, <2>1 DEF CapInv
  <2>2. CASE j = k
    <3>1. asked[k] \in Nat /\ queued[k] \in Nat
      BY <1>1, <1>4
    <3>2. queued[k] > 0 /\ queued'[k] = queued[k] - 1
      BY <1>3, <1>9, <2>2, <3>1
    <3>3. asked[k] - queued[k] < t - 1 /\ t - 1 <= asked[k] /\ t - 1 \in Int
      BY <1>9, <2>2, <3>1, <3>2
    <3>4. ticket[m] <= t - 1
      BY <1>8, <3>3
    <3>5. asked[k] - queued[k] < t
      BY <3>1, <3>3
    <3>6. Waits(k, t)
      BY <1>1, <1>9, <2>2, <3>5 DEF CapInv
    <3>7. ticket[m] # t
      BY <1>4, <3>4
    <3>8. QED
      BY <1>7, <2>2, <3>6, <3>7
  <2>3. QED
    BY <2>1, <2>2
<1>10. QED
  BY <1>1, <1>2, <1>5, <1>6, <1>9 DEF CapInv

LEMMA LeaveKeepsCap ==
    ASSUME ConversationAssumption, LineInv, CapInv, NEW m \in Messages, Leaves(m)
    PROVE  CapInv'
<1> DEFINE k == KeyOf[m]
<1>1. Release(m) /\ Inside(m) /\ pc' = [pc EXCEPT ![m] = "done"]
  BY DEF Leaves, Deliver, TurnCancelled, At, Goto, Inside, InsidePcs, TurnPcs
<1>2. /\ \A u \in Messages \ {m} : pc'[u] = pc[u]
      /\ pc[m] # "waiting"
      /\ UNCHANGED <<ticket, asked>>
      /\ k \in Keys
  BY <1>1, KeyTyped DEF Release, Inside, InsidePcs, TurnPcs, LineInv, TypeOK
<1>3. running' = [running EXCEPT ![k] = FALSE]
  BY <1>1 DEF Release
<1>4. ~running'[k] /\ \A j \in Keys \ {k} : running'[j] = running[j]
  BY <1>2, <1>3 DEF LineInv, TypeOK
<1>5. \A j \in Keys : queued'[j] = queued[j] \/ queued'[j] = 0
  BY <1>1 DEF Release, LineInv, TypeOK
<1>6. asked \in [Keys -> Nat]
  BY DEF LineInv, TypeOK
<1>7. \A j \in Keys \ {k} : Runs(j) => Runs(j)'
  BY <1>2 DEF Runs, Inside
<1>8. \A j \in Keys, t \in Int : Waits(j, t) => Waits(j, t)'
  BY <1>2 DEF Waits
<1>9. \A j \in Keys, t \in Int : asked[j] - queued'[j] < t /\ t <= asked[j] => Waits(j, t)'
  BY <1>5, <1>6, <1>8 DEF CapInv
<1>10. QED
  BY <1>2, <1>4, <1>7, <1>9 DEF CapInv

LEMMA CrashKeepsCap == ASSUME LineInv, Crash PROVE CapInv'
<1>1. \A k \in Keys : ~running'[k] /\ queued'[k] = 0 /\ asked'[k] \in Nat
  BY DEF Crash, LineInv, TypeOK
<1>2. QED
  BY <1>1 DEF CapInv

LEMMA NextKeepsCap ==
    ASSUME ConversationAssumption, LineInv, CapInv, [Next]_vars
    PROVE  CapInv'
<1>1. TypeOK
  BY DEF LineInv
<1>2. ASSUME NEW m \in Messages, Within(m) PROVE CapInv'
  <2>1. pc[m] # "waiting" /\ Inside(m)'
    BY <1>1, <1>2, WithinMoves DEF Inside, InsidePcs, TurnPcs
  <2>2. QED
    BY <1>1, <1>2, <2>1, WithinMoves, MovesKeepCap
<1>3. ASSUME NEW m \in Messages, Early(m) PROVE CapInv'
  <2>1. pc[m] # "waiting" /\ ~Inside(m)
    BY <1>1, <1>3, EarlyMoves DEF Inside, InsidePcs, TurnPcs
  <2>2. QED
    BY <1>1, <1>3, <2>1, EarlyMoves, MovesKeepCap
<1>4. ASSUME NEW m \in Messages, Cancel(m) PROVE CapInv'
  BY <1>4, MovesKeepCap DEF Cancel
<1>5. CASE Tick \/ UNCHANGED vars
  <2>1. UNCHANGED <<pc, lockVars>>
    BY <1>5 DEF Tick, vars
  <2>2. QED
    BY <2>1 DEF CapInv, Runs, Waits, Inside, lockVars
<1>6. QED
  BY <1>2, <1>3, <1>4, <1>5, NextSteps, AskKeepsCap, EnterKeepsCap, LeaveKeepsCap, CrashKeepsCap

\* A message is refused by Refuse, and by no other step.
LEMMA OnlyRefuseRefuses ==
    ASSUME ConversationAssumption, LineInv, [Next]_vars, NEW m \in Messages,
           pc[m] = "fetching", pc'[m] = "refused"
    PROVE  Refuse(m)
<1>1. TypeOK
  BY DEF LineInv
<1>2. ASSUME NEW u \in Messages, Within(u) PROVE FALSE
  BY <1>1, <1>2, WithinMoves DEF InsidePcs, TurnPcs
<1>3. ASSUME NEW u \in Messages, Ask(u) \/ Enter(u) \/ Leaves(u) \/ Cancel(u) PROVE FALSE
  BY <1>1, <1>3 DEF Ask, Enter, Leaves, Deliver, TurnCancelled, Cancel, At, Goto, TypeOK
<1>4. ASSUME NEW u \in Messages, Early(u) PROVE Refuse(m)
  <2>1. u = m
    BY <1>1, <1>4, EarlyMoves
  <2>2. ~Arrive(m)
    BY DEF Arrive, At
  <2>3. QED
    BY <1>4, <2>1, <2>2 DEF Early
<1>5. CASE Tick \/ Crash \/ UNCHANGED vars
  BY <1>1, <1>5 DEF Tick, Crash, vars, At, EndPcs
<1>6. QED
  BY <1>2, <1>3, <1>4, <1>5, NextSteps

\* Then MaxQueued others wait: those with the last MaxQueued tickets.
LEMMA RefuseMeansFull ==
    ASSUME ConversationAssumption, LineInv, CapInv, NEW m \in Messages, Refuse(m)
    PROVE  /\ \E n \in Messages : KeyOf[n] = KeyOf[m] /\ Inside(n)
           /\ \E W \in SUBSET Messages :
                /\ \A n \in W : KeyOf[n] = KeyOf[m] /\ At(n, "waiting")
                /\ \E f \in [1 .. MaxQueued -> W] :
                     \A i, j \in 1 .. MaxQueued : f[i] = f[j] => i = j
<1> DEFINE k == KeyOf[m]
           W == {u \in Messages : KeyOf[u] = k /\ pc[u] = "waiting"}
           f == [i \in 1 .. MaxQueued |-> CHOOSE u \in W : ticket[u] = asked[k] + 1 - i]
<1>1. k \in Keys /\ running[k] /\ queued[k] >= MaxQueued
  BY KeyTyped DEF Refuse
<1>2. asked[k] \in Nat /\ queued[k] \in Nat /\ MaxQueued \in Nat
  BY <1>1 DEF LineInv, TypeOK, ConversationAssumption
<1>3. Runs(k)
  BY <1>1 DEF CapInv
<1>4. ASSUME NEW i \in 1 .. MaxQueued PROVE \E u \in W : ticket[u] = asked[k] + 1 - i
  <2>1. /\ asked[k] + 1 - i \in Int
        /\ asked[k] - queued[k] < asked[k] + 1 - i /\ asked[k] + 1 - i <= asked[k]
    BY <1>1, <1>2
  <2>2. Waits(k, asked[k] + 1 - i)
    BY <1>1, <2>1 DEF CapInv
  <2>3. QED
    BY <2>2 DEF Waits
<1>5. \A i \in 1 .. MaxQueued : f[i] \in W /\ ticket[f[i]] = asked[k] + 1 - i
  BY <1>4
<1>6. f \in [1 .. MaxQueued -> W]
  BY <1>5
<1>7. ASSUME NEW i \in 1 .. MaxQueued, NEW j \in 1 .. MaxQueued, f[i] = f[j] PROVE i = j
  <2>1. asked[k] + 1 - i = asked[k] + 1 - j
    BY <1>5, <1>7
  <2>2. QED
    BY <1>2, <2>1
<1>8. \E g \in [1 .. MaxQueued -> W] : \A i, j \in 1 .. MaxQueued : g[i] = g[j] => i = j
  BY <1>6, <1>7
<1>9. W \in SUBSET Messages /\ \A n \in W : KeyOf[n] = k /\ At(n, "waiting")
  BY DEF At
<1> HIDE DEF W
<1>10. QED
  BY <1>3, <1>8, <1>9 DEF Runs

\* A message is refused for overload only while a turn runs and MaxQueued others
\* wait, although queuedCount is not the number of waiters.
THEOREM RefusedOnlyWhenFullHolds == Spec => RefusedOnlyWhenFull
<1>1. Init => CapInv
  BY DEF Init, CapInv
<1>2. LineInv /\ CapInv /\ [Next]_vars => CapInv'
  BY NextKeepsCap, ConversationAssumption
<1>3. LineInv /\ CapInv /\ [Next]_vars =>
        [\A m \in Messages :
            pc[m] = "fetching" /\ pc'[m] = "refused" =>
                /\ \E n \in Messages : KeyOf[n] = KeyOf[m] /\ Inside(n)
                /\ \E W \in SUBSET Messages :
                     /\ \A n \in W : KeyOf[n] = KeyOf[m] /\ At(n, "waiting")
                     /\ \E f \in [1 .. MaxQueued -> W] :
                          \A i, j \in 1 .. MaxQueued : f[i] = f[j] => i = j]_vars
  BY OnlyRefuseRefuses, RefuseMeansFull, ConversationAssumption
<1>4. QED
  BY <1>1, <1>2, <1>3, LineInvHolds, PTL DEF Spec, RefusedOnlyWhenFull
=============================================================================
