-------------------------- MODULE OnboardingProofs --------------------------
(***************************************************************************)
(* Proofs about the onboarding wizard (module Onboarding).  They hold for  *)
(* every number of messages and writers and every catalog of questions.    *)
(*                                                                         *)
(* The difficulty is the copies: a handler acts on a session it read       *)
(* before its last await, and a write puts back an account.json that       *)
(* others may have changed.  The invariants say what such a copy is still  *)
(* worth.                                                                  *)
(***************************************************************************)
EXTENDS Onboarding, FiniteSetTheorems, TLAPS

-----------------------------------------------------------------------------
(* Onboarding: the inductive invariant.                                     *)

SessionRecords ==
    [state : Terminal \cup Absent \cup {"asking"}, q : 1 .. NumQuestions + 1,
     answers : [Questions -> Answers], review : SUBSET Questions, old : BOOLEAN,
     quiet : BOOLEAN]
SlotRecords ==
    [pc : Pcs, sid : Sids \cup {None}, value : Answers, base : Accounts \cup {None}]

\* What AnsweredInOrder says of one session.
InOrder(s) ==
    /\ \A q \in Questions : (s.answers[q] # Unanswered) <=> q < s.q
    /\ s.state = "completed" => s.q = NumQuestions + 1
    /\ s.state = "asking" => s.q \in Questions

Ongoing(s) == s.state = "asking" /\ ~s.old
Past == Terminal \cup {"gone"}

\* Of every session, whoever changed it last; and at most one is going on.
SessionInv ==
    /\ \A s \in Sids : InOrder(sessions[s])
    /\ \A s, t \in Sids : Ongoing(sessions[s]) /\ Ongoing(sessions[t]) => s = t

\* What a slot keeps over its awaits: the id of a session that was there, and so
\* is still there or was pruned; an answer; the account it will write over.
\* Nobody takes an ended session up again, so what is finalized stays ended.
SlotInv ==
    \A c \in Slots :
        /\ slot[c].pc \notin {"idle", "prune", "open"} =>
              slot[c].sid \in Sids /\ sessions[slot[c].sid].state # "none"
        /\ slot[c].pc \in {"changeAnswer", "answer"} => slot[c].value # Unanswered
        /\ slot[c].pc \in {"open", "build"} => slot[c].base \in Accounts
        /\ slot[c].pc \in Finalizing => sessions[slot[c].sid].state \in Past
        /\ slot[c].pc = "knowledge" => slot[c].sid \in account.log \cup over

Finishes(c, s) == slot[c].pc \in Finalizing /\ slot[c].sid = s

\* A session that has ended by its answers is at exactly one slot until the
\* customer is told, and at none afterwards.
EndInv ==
    /\ \A c, d \in Slots, s \in Sids : Finishes(c, s) /\ Finishes(d, s) => c = d
    /\ \A s \in Sids :
          /\ told[s] # "no" =>
                sessions[s].state \in Past /\ \A c \in Slots : ~Finishes(c, s)
          /\ told[s] = "applied" => boot[s] # "none"
          /\ sessions[s].state = "completed" /\ told[s] = "no" =>
                \E c \in Slots : Finishes(c, s)

WriterInv == \A w \in Writers : writer[w].pc = "loaded" => writer[w].base \in Accounts

IInv == TypeOK /\ SessionInv /\ SlotInv /\ EndInv /\ WriterInv /\ AccountKeeps
-----------------------------------------------------------------------------
(* Types, and what the steps of a slot have in common.                      *)

LEMMA Bounds ==
    /\ NumQuestions \in Nat \ {0} /\ MaxSessions \in Nat /\ MaxEvents \in Nat
    /\ Required \subseteq Questions /\ Fields \subseteq Questions
    /\ None \notin Sids /\ Writers \cap Sids = {}
    /\ Questions \subseteq Nat \ {0} /\ Sids \subseteq Nat \ {0}
BY OnboardingAssumption DEF Questions, Sids

LEMMA Types ==
    ASSUME TypeOK
    PROVE  /\ sessions \in [Sids -> SessionRecords] /\ slot \in [Slots -> SlotRecords]
           /\ account \in Accounts
           /\ \A s \in Sids : sessions[s] \in SessionRecords
           /\ \A c \in Slots : slot[c] \in SlotRecords
BY DEF TypeOK, SessionRecords, SlotRecords

LEMMA TypesSuffice ==
    ASSUME TypeOK, sessions' \in [Sids -> SessionRecords], slot' \in [Slots -> SlotRecords],
           events' \in 0 .. MaxEvents, UNCHANGED calm
    PROVE  TypeOK'
BY DEF TypeOK, SessionRecords, SlotRecords, calm

LEMMA SessionFields ==
    ASSUME NEW s \in SessionRecords
    PROVE  /\ s.state \in Terminal \cup Absent \cup {"asking"} /\ s.q \in 1 .. NumQuestions + 1
           /\ s.answers \in [Questions -> Answers] /\ s.review \subseteq Questions
           /\ s.old \in BOOLEAN /\ s.quiet \in BOOLEAN
           /\ s.q \in Nat
BY Bounds DEF SessionRecords

LEMMA SlotFields ==
    ASSUME NEW r \in SlotRecords
    PROVE  /\ r.pc \in Pcs /\ r.sid \in Sids \cup {None} /\ r.value \in Answers
           /\ r.base \in Accounts \cup {None}
BY DEF SlotRecords

LEMMA ConstantFacts ==
    /\ Blank \in SessionRecords /\ InOrder(Blank) /\ Blank.state = "none"
    /\ Blank.q = 1 /\ Blank.answers = [q \in Questions |-> Unanswered]
    /\ Idle \in SlotRecords /\ Idle.pc = "idle"
    /\ Unanswered \in Answers /\ Typed \in Answers /\ Skipped \in Answers
    /\ \A q \in Questions : SavedValue(q) \in Answers /\ SavedValue(q) # Unanswered
    /\ Typed # Unanswered /\ Skipped # Unanswered
<1>1. 1 \in 1 .. NumQuestions + 1 /\ \A q \in Questions : ~(q < 1)
  BY Bounds
<1>2. /\ Unanswered \in Answers /\ Typed \in Answers /\ Skipped \in Answers
      /\ \A q \in Questions : SavedValue(q) \in Answers /\ SavedValue(q) # Unanswered
      /\ Typed # Unanswered /\ Skipped # Unanswered
  BY DEF Answers, Typed, Skipped, Unanswered, SavedValue
<1>3. Blank \in SessionRecords /\ Blank.state = "none" /\ Blank.q = 1
      /\ Blank.answers = [q \in Questions |-> Unanswered]
  BY <1>1, <1>2 DEF Blank, SessionRecords, Absent
<1>4. InOrder(Blank)
  BY <1>1, <1>3 DEF InOrder
<1>5. Idle \in SlotRecords /\ Idle.pc = "idle"
  BY <1>2 DEF Idle, SlotRecords, Pcs
<1> QED
  BY <1>2, <1>3, <1>4, <1>5

LEMMA EventBound ==
    ASSUME TypeOK, Happens
    PROVE  events' \in 0 .. MaxEvents
BY Bounds DEF TypeOK, Happens

\* A step of a slot c outside finalize, or into it: what it may do to the sessions,
\* and what record r it leaves in the slot.
LEMMA HandleKeeps ==
    ASSUME IInv, NEW c \in Slots, slot[c].pc \notin Finalizing,
           NEW r \in SlotRecords, slot' = [slot EXCEPT ![c] = r],
           sessions' \in [Sids -> SessionRecords],
           \A t \in Sids :
              /\ InOrder(sessions'[t])
              /\ sessions[t].state \in Past => sessions'[t].state \in Past
              /\ sessions[t].state # "none" => sessions'[t].state # "none"
              /\ sessions'[t].state = "completed" =>
                    \/ sessions[t].state = "completed"
                    \/ sessions[t].state = "asking" /\ r.pc = "finalize" /\ r.sid = t,
           \A t, u \in Sids : Ongoing(sessions'[t]) /\ Ongoing(sessions'[u]) => t = u,
           r.pc \notin {"idle", "prune", "open"} =>
              r.sid \in Sids /\ sessions'[r.sid].state # "none",
           r.pc \in {"changeAnswer", "answer"} => r.value # Unanswered,
           r.pc = "open" => r.base \in Accounts,
           r.pc \in Finalizing =>
              r.pc = "finalize" /\ sessions[r.sid].state = "asking"
                /\ sessions'[r.sid].state = "completed",
           UNCHANGED calm, events' \in 0 .. MaxEvents
    PROVE  IInv'
<1>1. TypeOK
  BY DEF IInv
<1>2. /\ slot' \in [Slots -> SlotRecords] /\ slot'[c] = r
      /\ \A d \in Slots \ {c} : slot'[d] = slot[d]
  BY <1>1, Types
<1>3. UNCHANGED <<account, writer, boot, told, over>>
  BY DEF calm
<1>4. TypeOK'
  BY <1>1, <1>2, TypesSuffice
<1>5. SessionInv'
  BY DEF SessionInv
<1>6. /\ "build" \in Finalizing /\ "knowledge" \in Finalizing /\ "finalize" \in Finalizing
      /\ \A p \in Finalizing : p \notin {"idle", "prune", "open"}
      /\ "completed" \in Past /\ "asking" \notin Past
  BY DEF Finalizing, Past, Terminal
<1>7. SlotInv'
  <2>1. ASSUME NEW d \in Slots \ {c}
        PROVE  /\ slot'[d].pc \notin {"idle", "prune", "open"} =>
                     slot'[d].sid \in Sids /\ sessions'[slot'[d].sid].state # "none"
               /\ slot'[d].pc \in {"changeAnswer", "answer"} => slot'[d].value # Unanswered
               /\ slot'[d].pc \in {"open", "build"} => slot'[d].base \in Accounts
               /\ slot'[d].pc \in Finalizing => sessions'[slot'[d].sid].state \in Past
               /\ slot'[d].pc = "knowledge" => slot'[d].sid \in account'.log \cup over'
    BY <1>2, <1>3, <1>6 DEF IInv, SlotInv
  <2>2. /\ slot'[c].pc \notin {"idle", "prune", "open"} =>
              slot'[c].sid \in Sids /\ sessions'[slot'[c].sid].state # "none"
        /\ slot'[c].pc \in {"changeAnswer", "answer"} => slot'[c].value # Unanswered
        /\ slot'[c].pc \in {"open", "build"} => slot'[c].base \in Accounts
        /\ slot'[c].pc \in Finalizing => sessions'[slot'[c].sid].state \in Past
        /\ slot'[c].pc = "knowledge" => slot'[c].sid \in account'.log \cup over'
    BY <1>2, <1>6
  <2> QED
    BY <2>1, <2>2 DEF SlotInv
<1>8. EndInv'
  <2>1. \A d \in Slots \ {c}, t \in Sids : Finishes(d, t)' <=> Finishes(d, t)
    BY <1>2 DEF Finishes
  <2>2. \A t \in Sids : ~Finishes(c, t)
    BY DEF Finishes
  <2>3. \A t \in Sids : Finishes(c, t)' => sessions[t].state = "asking"
    BY <1>2 DEF Finishes
  <2>4. \A d \in Slots, t \in Sids : Finishes(d, t) => sessions[t].state \in Past
    BY DEF IInv, SlotInv, Finishes
  <2>5. \A t \in Sids : r.pc = "finalize" /\ r.sid = t => Finishes(c, t)'
    BY <1>2, <1>6 DEF Finishes
  <2>6. ASSUME NEW d \in Slots, NEW e \in Slots, NEW t \in Sids,
               Finishes(d, t)', Finishes(e, t)'
        PROVE  d = e
    <3>1. CASE d # c /\ e # c
      BY <2>1, <2>6, <3>1 DEF IInv, EndInv
    <3>2. CASE (d = c /\ e # c) \/ (d # c /\ e = c)
      BY <1>6, <2>1, <2>3, <2>4, <2>6, <3>2
    <3> QED
      BY <3>1, <3>2
  <2>7. ASSUME NEW t \in Sids, told'[t] # "no"
        PROVE  sessions'[t].state \in Past /\ \A d \in Slots : ~Finishes(d, t)'
    <3>1. sessions[t].state \in Past /\ \A d \in Slots : ~Finishes(d, t)
      BY <1>3, <2>7 DEF IInv, EndInv
    <3> QED
      BY <1>6, <2>1, <2>3, <3>1
  <2>8. \A t \in Sids : told'[t] = "applied" => boot'[t] # "none"
    BY <1>3 DEF IInv, EndInv
  <2>9. ASSUME NEW t \in Sids, sessions'[t].state = "completed", told'[t] = "no"
        PROVE  \E d \in Slots : Finishes(d, t)'
    <3>1. CASE sessions[t].state = "completed"
      <4>1. PICK d \in Slots : Finishes(d, t)
        BY <1>3, <2>9, <3>1 DEF IInv, EndInv
      <4> QED
        BY <2>1, <2>2, <4>1
    <3>2. CASE sessions[t].state # "completed"
      BY <2>5, <2>9, <3>2
    <3> QED
      BY <3>1, <3>2
  <2> QED
    BY <2>6, <2>7, <2>8, <2>9 DEF EndInv
<1>9. WriterInv' /\ AccountKeeps'
  BY <1>3 DEF IInv, WriterInv, AccountKeeps
<1> QED
  BY <1>4, <1>5, <1>7, <1>8, <1>9 DEF IInv

\* The same, for a step that changes one session s.
LEMMA PutKeeps ==
    ASSUME IInv, NEW c \in Slots, slot[c].pc \notin Finalizing,
           NEW s \in Sids, NEW new \in SessionRecords, Put(s, new), InOrder(new),
           Ongoing(new) => Ongoing(sessions[s]) \/ \A t \in Sids : ~Ongoing(sessions[t]),
           sessions[s].state \in Past => new.state \in Past,
           new.state # "none",
           NEW r \in SlotRecords, slot' = [slot EXCEPT ![c] = r],
           r.pc \notin {"idle", "prune", "open"} => r.sid = s,
           r.pc \in {"changeAnswer", "answer"} => r.value # Unanswered,
           r.pc = "open" => r.base \in Accounts,
           r.pc \in Finalizing =>
              r.pc = "finalize" /\ sessions[s].state = "asking" /\ new.state = "completed",
           new.state = "completed" =>
              sessions[s].state = "asking" /\ r.pc = "finalize" /\ r.sid = s,
           UNCHANGED calm, events' \in 0 .. MaxEvents
    PROVE  IInv'
<1>1. /\ \A t \in Sids : sessions'[t] = IF t = s THEN new ELSE sessions[t]
      /\ sessions' \in [Sids -> SessionRecords]
  BY Types DEF Put, IInv
<1>2. \A t, u \in Sids : Ongoing(sessions'[t]) /\ Ongoing(sessions'[u]) => t = u
  BY <1>1 DEF IInv, SessionInv
<1>3. \A p \in Finalizing : p \notin {"idle", "prune", "open"}
  BY DEF Finalizing
<1>4. \A t \in Sids : InOrder(sessions[t])
  BY DEF IInv, SessionInv
<1> QED
  BY <1>1, <1>2, <1>3, <1>4, HandleKeeps

\* The same, for a step that changes none.
LEMMA StayKeeps ==
    ASSUME IInv, NEW c \in Slots, slot[c].pc \notin Finalizing, UNCHANGED sessions,
           NEW r \in SlotRecords, slot' = [slot EXCEPT ![c] = r], r.pc \notin Finalizing,
           r.pc \notin {"idle", "prune", "open"} =>
              r.sid \in Sids /\ sessions[r.sid].state # "none",
           r.pc \in {"changeAnswer", "answer"} => r.value # Unanswered,
           r.pc = "open" => r.base \in Accounts,
           UNCHANGED calm, events' \in 0 .. MaxEvents
    PROVE  IInv'
<1>1. sessions' \in [Sids -> SessionRecords]
  BY Types DEF IInv
<1>2. /\ \A t \in Sids : InOrder(sessions[t])
      /\ \A t, u \in Sids : Ongoing(sessions[t]) /\ Ongoing(sessions[u]) => t = u
  BY DEF IInv, SessionInv
<1> QED
  BY <1>1, <1>2, HandleKeeps

LEMMA StepEvents ==
    ASSUME TypeOK, UNCHANGED others
    PROVE  UNCHANGED calm /\ events' \in 0 .. MaxEvents
BY DEF TypeOK, others, calm

\* A step that answers a session, or lets it be answered again.
LEMMA AskedKeeps ==
    ASSUME IInv, NEW c \in Slots, slot[c].pc \notin Finalizing,
           NEW s \in Sids, sessions[s].state = "asking",
           NEW new \in SessionRecords, Put(s, new), InOrder(new),
           Ongoing(new) => Ongoing(sessions[s]),
           NEW r \in SlotRecords, slot' = [slot EXCEPT ![c] = r],
           \/ new.state = "asking" /\ r.pc = "idle"
           \/ new.state = "asking" /\ r.pc = "answer" /\ r.sid = s /\ r.value # Unanswered
           \/ new.state = "completed" /\ r.pc = "finalize" /\ r.sid = s,
           UNCHANGED others
    PROVE  IInv'
<1>1. UNCHANGED calm /\ events' \in 0 .. MaxEvents
  BY StepEvents DEF IInv
<1>2. sessions[s].state \notin Past /\ new.state # "none"
  BY DEF Past, Terminal
<1>3. /\ r.pc \notin {"idle", "prune", "open"} => r.sid = s
      /\ r.pc \in {"changeAnswer", "answer"} => r.value # Unanswered
      /\ r.pc # "open"
  OBVIOUS
<1>4. /\ r.pc \in Finalizing => r.pc = "finalize" /\ new.state = "completed"
      /\ new.state = "completed" => r.pc = "finalize" /\ r.sid = s
  BY DEF Finalizing
<1> QED
  BY <1>1, <1>2, <1>3, <1>4, PutKeeps

LEMMA ReturnKeeps ==
    ASSUME IInv, NEW c \in Slots, slot[c].pc \notin Finalizing, UNCHANGED <<sessions, others>>,
           Returns(c)
    PROVE  IInv'
<1>1. Idle \in SlotRecords /\ Idle.pc = "idle" /\ Idle.pc \notin Finalizing
  BY ConstantFacts DEF Finalizing
<1> QED
  BY <1>1, StepEvents, StayKeeps DEF Returns, IInv

\* A slot that is past its look has a session.
LEMMA SlotFacts ==
    ASSUME IInv, NEW c \in Slots
    PROVE  /\ TypeOK /\ slot[c] \in SlotRecords
           /\ slot[c].pc \notin {"idle", "prune", "open"} =>
                 /\ slot[c].sid \in Sids /\ sessions[slot[c].sid] \in SessionRecords
                 /\ sessions[slot[c].sid].state # "none"
                 /\ InOrder(sessions[slot[c].sid])
           /\ slot[c].pc \in {"changeAnswer", "answer"} => slot[c].value # Unanswered
BY Types DEF IInv, SlotInv, SessionInv

\* A set of sessions that is not empty has a newest one.
LEMMA NewestOf ==
    ASSUME NEW n \in Nat, NEW S \in SUBSET (1 .. n), S # {}
    PROVE  \E x \in S : \A y \in S : y <= x
<1> DEFINE T == {n - x : x \in S}
<1>0. \A x \in S : x \in 1 .. n /\ n - x \in Nat
  OBVIOUS
<1>1. T \subseteq Nat /\ T # {}
  BY <1>0
<1>2. \E m \in T : \A y \in T : ~(<<y, m>> \in OpToRel(<, Nat))
  <2> HIDE DEF T
  <2> QED
    BY <1>1, WFMin, NatLessThanWellFounded
<1>3. PICK m \in T : \A y \in T : ~(y < m)
  BY <1>1, <1>2 DEF OpToRel
<1>4. PICK x \in S : m = n - x
  OBVIOUS
<1>5. ASSUME NEW y \in S
      PROVE  y <= x
  <2>1. n - y \in T
    OBVIOUS
  <2>2. ~(n - y < n - x)
    BY <2>1, <1>3, <1>4
  <2> QED
    BY <2>2
<1> QED
  BY <1>5

LEMMA ActiveIsLive == ASSUME Live # {} PROVE Active \in Live
<1>1. Live \in SUBSET (1 .. MaxSessions)
  BY DEF Live, Sids
<1> QED
  BY <1>1, NewestOf, Bounds DEF Active

LEMMA LookKeeps ==
    ASSUME IInv, NEW c \in Slots, Look(c)
    PROVE  IInv'
<1> DEFINE r == [slot[c] EXCEPT !.sid = Active,
                                !.pc = IF sessions[Active].quiet THEN "expire" ELSE "fresh"]
<1>1. /\ TypeOK /\ Happens /\ slot[c].pc = "idle" /\ Live # {} /\ slot' = [slot EXCEPT ![c] = r]
      /\ UNCHANGED <<sessions, calm>>
  BY DEF Look, IInv
<1>2. Active \in Sids /\ sessions[Active].state = "asking"
  BY <1>1, ActiveIsLive DEF Live
<1>3. r \in SlotRecords /\ r.sid = Active /\ r.pc \in {"expire", "fresh"}
  BY <1>1, <1>2, SlotFacts DEF SlotRecords, Pcs
<1> HIDE DEF r
<1>4. "idle" \notin Finalizing /\ r.pc \notin Finalizing
  BY <1>3 DEF Finalizing
<1> QED
  BY <1>1, <1>2, <1>3, <1>4, EventBound, StayKeeps

\* A session that is given another state, and what stays of it.
LEMMA Restated ==
    ASSUME NEW s \in SessionRecords, NEW v \in {"expired", "cancelled"},
           NEW n, n = Touched([s EXCEPT !.state = v])
    PROVE  /\ n \in SessionRecords /\ n.state = v /\ n.state \in Past
           /\ InOrder(s) => InOrder(n)
           /\ ~Ongoing(n)
<1>1. n \in SessionRecords /\ n.state = v /\ n.q = s.q /\ n.answers = s.answers
  BY DEF SessionRecords, Touched, Terminal
<1> QED
  BY <1>1 DEF InOrder, Ongoing, Past, Terminal

LEMMA EndsKeeps ==
    ASSUME IInv, NEW c \in Slots, slot[c].pc \notin Finalizing,
           NEW s \in Sids, sessions[s].state # "none", NEW v \in {"expired", "cancelled"},
           Put(s, Touched([sessions[s] EXCEPT !.state = v])), Returns(c), UNCHANGED others
    PROVE  IInv'
<1> DEFINE n == Touched([sessions[s] EXCEPT !.state = v])
<1>1. TypeOK /\ sessions[s] \in SessionRecords /\ InOrder(sessions[s])
  BY Types DEF IInv, SessionInv
<1>2. Put(s, n)
  OBVIOUS
<1>3. n \in SessionRecords /\ n.state = v /\ n.state \in Past /\ InOrder(n) /\ ~Ongoing(n)
  <2>1. /\ n \in SessionRecords /\ n.state = v /\ n.state \in Past
        /\ InOrder(sessions[s]) => InOrder(n)
        /\ ~Ongoing(n)
    BY <1>1, Restated
  <2> QED
    BY <1>1, <2>1
<1> HIDE DEF n
<1>4. Idle \in SlotRecords /\ Idle.pc = "idle" /\ Idle.pc \notin Finalizing
  BY ConstantFacts DEF Finalizing
<1>5. slot' = [slot EXCEPT ![c] = Idle] /\ UNCHANGED calm /\ events' \in 0 .. MaxEvents
  BY <1>1, StepEvents DEF Returns
<1>6. n.state # "none" /\ n.state # "completed"
  BY <1>3
<1> QED
  BY <1>2, <1>3, <1>4, <1>5, <1>6, PutKeeps

LEMMA ExpireKeeps ==
    ASSUME IInv, NEW c \in Slots, Expire(c)
    PROVE  IInv'
<1>1. /\ slot[c].pc = "expire" /\ Returns(c) /\ UNCHANGED others
      /\ slot[c].pc \notin Finalizing
  BY DEF Expire, Finalizing
<1>2. slot[c].sid \in Sids /\ sessions[slot[c].sid].state # "none"
  BY <1>1, SlotFacts
<1>3. CASE Found(slot[c].sid)
  BY <1>1, <1>2, <1>3, EndsKeeps DEF Expire
<1>4. CASE ~Found(slot[c].sid)
  BY <1>1, <1>4, ReturnKeeps DEF Expire
<1> QED
  BY <1>3, <1>4

LEMMA CancelKeeps ==
    ASSUME IInv, NEW c \in Slots, Cancel(c)
    PROVE  IInv'
<1>1. /\ slot[c].pc = "cancel" /\ Returns(c) /\ UNCHANGED others
      /\ slot[c].pc \notin Finalizing
  BY DEF Cancel, Finalizing
<1>2. slot[c].sid \in Sids /\ sessions[slot[c].sid].state # "none"
  BY <1>1, SlotFacts
<1>3. CASE Found(slot[c].sid) /\ ~Ended(slot[c].sid)
  BY <1>1, <1>2, <1>3, EndsKeeps DEF Cancel
<1>4. CASE ~(Found(slot[c].sid) /\ ~Ended(slot[c].sid))
  BY <1>1, <1>4, ReturnKeeps DEF Cancel
<1> QED
  BY <1>3, <1>4

LEMMA FreshKeeps ==
    ASSUME IInv, NEW c \in Slots, Fresh(c)
    PROVE  IInv'
<1>1. /\ TypeOK /\ slot[c].pc = "fresh" /\ slot[c].pc \notin Finalizing
      /\ UNCHANGED <<sessions, others>>
  BY DEF Fresh, Finalizing, IInv
<1>2. /\ slot[c].sid \in Sids /\ sessions[slot[c].sid].state # "none" /\ slot[c] \in SlotRecords
  BY <1>1, SlotFacts
<1>3. \/ Returns(c)
      \/ Goes(c, "cancel")
      \/ \E to \in Verdicts \cup {"answer"}, v \in {Typed, Skipped} :
            slot' = [slot EXCEPT ![c].pc = to, ![c].value = v]
  BY DEF Fresh
<1>4. CASE Returns(c)
  BY <1>1, <1>4, ReturnKeeps
<1>5. CASE Goes(c, "cancel")
  <2> DEFINE r == [slot[c] EXCEPT !.pc = "cancel"]
  <2>1. slot' = [slot EXCEPT ![c] = r]
    BY <1>5 DEF Goes
  <2>2. r \in SlotRecords /\ r.pc = "cancel" /\ r.sid = slot[c].sid
    BY <1>2 DEF SlotRecords, Pcs
  <2> HIDE DEF r
  <2> QED
    BY <1>1, <1>2, <2>1, <2>2, StepEvents, StayKeeps DEF Finalizing
<1>6. ASSUME NEW to \in Verdicts \cup {"answer"}, NEW v \in {Typed, Skipped},
             slot' = [slot EXCEPT ![c].pc = to, ![c].value = v]
      PROVE  IInv'
  <2> DEFINE r == [slot[c] EXCEPT !.pc = to, !.value = v]
  <2>1. slot' = [slot EXCEPT ![c] = r]
    BY <1>6
  <2>2. to \in Pcs /\ to \notin Finalizing /\ to # "open"
    BY DEF Verdicts, Pcs, Finalizing
  <2>3. r \in SlotRecords /\ r.pc = to /\ r.sid = slot[c].sid /\ r.value = v
    BY <1>2, <2>2, ConstantFacts DEF SlotRecords
  <2>4. v # Unanswered
    BY ConstantFacts
  <2> HIDE DEF r
  <2> QED
    BY <1>1, <1>2, <2>1, <2>2, <2>3, <2>4, StepEvents, StayKeeps
<1> QED
  BY <1>3, <1>4, <1>5, <1>6

LEMMA ClickKeeps ==
    ASSUME IInv, NEW c \in Slots, NEW s \in Sids, Click(c, s)
    PROVE  IInv'
<1>1. PICK to \in {"keep", "change", "cancel"} : slot' = [slot EXCEPT ![c].pc = to, ![c].sid = s]
  BY DEF Click
<1> DEFINE r == [slot[c] EXCEPT !.pc = to, !.sid = s]
<1>2. /\ TypeOK /\ Happens /\ slot[c].pc \notin Finalizing /\ sessions[s].state # "none"
      /\ slot' = [slot EXCEPT ![c] = r] /\ UNCHANGED <<sessions, calm>>
  BY <1>1 DEF Click, IInv, Finalizing
<1>3. r \in SlotRecords /\ r.pc = to /\ r.sid = s
  BY <1>2, SlotFacts DEF SlotRecords, Pcs
<1> HIDE DEF r
<1> QED
  BY <1>2, <1>3, EventBound, StayKeeps DEF Finalizing

LEMMA KeepKeeps ==
    ASSUME IInv, NEW c \in Slots, Keep(c)
    PROVE  IInv'
<1> DEFINE q == sessions[slot[c].sid].q
           r == [slot[c] EXCEPT !.pc = "answer", !.value = SavedValue(q)]
<1>1. /\ TypeOK /\ slot[c].pc = "keep" /\ slot[c].pc \notin Finalizing
      /\ UNCHANGED <<sessions, others>>
      /\ \/ q \in sessions[slot[c].sid].review /\ slot' = [slot EXCEPT ![c] = r]
         \/ Returns(c)
  BY DEF Keep, Finalizing, IInv
<1>2. CASE Returns(c)
  BY <1>1, <1>2, ReturnKeeps
<1>3. CASE q \in sessions[slot[c].sid].review /\ slot' = [slot EXCEPT ![c] = r]
  <2>1. slot[c].sid \in Sids /\ sessions[slot[c].sid].state # "none" /\ q \in Questions
    BY <1>1, <1>3, SlotFacts, SessionFields
  <2>2. SavedValue(q) \in Answers /\ SavedValue(q) # Unanswered
    BY <2>1, ConstantFacts
  <2> HIDE DEF q
  <2>3. /\ r \in SlotRecords /\ r.pc = "answer" /\ r.sid = slot[c].sid
        /\ r.value = SavedValue(q)
    BY <2>2, SlotFacts DEF SlotRecords, Pcs
  <2> HIDE DEF r
  <2> QED
    BY <1>1, <1>3, <2>1, <2>2, <2>3, StepEvents, StayKeeps DEF Finalizing
<1> QED
  BY <1>1, <1>2, <1>3

LEMMA AskingIf ==
    ASSUME NEW s \in Sids, sessions[s] \in SessionRecords
    PROVE  /\ Found(s) /\ ~Ended(s) => sessions[s].state = "asking"
           /\ sessions[s].state = "asking" => sessions[s].state \notin Past
BY SessionFields DEF Found, Ended, Absent, Past, Terminal

LEMMA ChangeKeeps ==
    ASSUME IInv, NEW c \in Slots, Change(c)
    PROVE  IInv'
<1> DEFINE s == slot[c].sid
           n == Touched([sessions[s] EXCEPT !.review = @ \ {sessions[s].q}])
           r == [slot[c] EXCEPT !.pc = "answer"]
<1>1. /\ TypeOK /\ slot[c].pc \in {"change", "changeAnswer"} /\ slot[c].pc \notin Finalizing
      /\ UNCHANGED others
  BY DEF Change, Finalizing, IInv
<1>2. /\ s \in Sids /\ sessions[s] \in SessionRecords /\ sessions[s].state # "none"
      /\ InOrder(sessions[s]) /\ slot[c] \in SlotRecords
  BY <1>1, SlotFacts
<1>3. CASE ~(Found(s) /\ ~Ended(s))
  <2>1. Returns(c) /\ UNCHANGED sessions
    BY <1>3 DEF Change
  <2> QED
    BY <1>1, <2>1, ReturnKeeps
<1>4. CASE Found(s) /\ ~Ended(s)
  <2>1. /\ Put(s, n)
        /\ \/ slot[c].pc = "changeAnswer" /\ slot' = [slot EXCEPT ![c] = r]
           \/ Returns(c)
    BY <1>4 DEF Change, Goes
  <2>2. sessions[s].state = "asking" /\ "asking" \notin Past
    BY <1>2, <1>4, AskingIf
  <2>3. /\ n \in SessionRecords /\ n.state = sessions[s].state /\ n.q = sessions[s].q
        /\ n.answers = sessions[s].answers /\ n.old = sessions[s].old
    BY <1>2 DEF SessionRecords, Touched
  <2> HIDE DEF n
  <2>4. InOrder(n) /\ (Ongoing(n) => Ongoing(sessions[s]))
    BY <1>2, <2>3 DEF InOrder, Ongoing
  <2>5. CASE slot[c].pc = "changeAnswer" /\ slot' = [slot EXCEPT ![c] = r]
    <3>1. slot[c].value # Unanswered
      BY <1>1, <2>5, SlotFacts
    <3>2. r \in SlotRecords /\ r.pc = "answer" /\ r.sid = s /\ r.value = slot[c].value
      BY <1>2 DEF SlotRecords, Pcs
    <3>3. /\ n.state = "asking" /\ r.pc = "answer" /\ r.sid = s /\ r.value # Unanswered
          /\ slot[c].pc \notin Finalizing /\ UNCHANGED others /\ s \in Sids
          /\ slot' = [slot EXCEPT ![c] = r]
      BY <1>1, <1>2, <2>2, <2>3, <2>5, <3>1, <3>2
    <3> HIDE DEF r, s
    <3> QED
      BY <2>1, <2>2, <2>3, <2>4, <3>2, <3>3, AskedKeeps
  <2>6. CASE Returns(c)
    <3>1. Idle \in SlotRecords /\ Idle.pc = "idle" /\ Idle.pc \notin Finalizing
      BY ConstantFacts DEF Finalizing
    <3>2. /\ slot[c].pc \notin Finalizing /\ UNCHANGED others /\ s \in Sids /\ Put(s, n)
          /\ slot' = [slot EXCEPT ![c] = Idle] /\ n.state = "asking"
      BY <1>1, <1>2, <2>1, <2>2, <2>3, <2>6 DEF Returns
    <3> HIDE DEF s
    <3> QED
      BY <2>2, <2>3, <2>4, <3>1, <3>2, AskedKeeps
  <2> QED
    BY <2>1, <2>5, <2>6
<1> QED
  BY <1>3, <1>4

\* What answering the current question makes of a session.
Answered(s, v) ==
    Touched([s EXCEPT !.answers[s.q] = v, !.review = @ \ {s.q}, !.q = @ + 1,
                      !.state = IF s.q = NumQuestions THEN "completed" ELSE "asking"])

LEMMA AnsweredFacts ==
    ASSUME NEW s \in SessionRecords, s.state = "asking", InOrder(s),
           NEW v \in Answers, v # Unanswered
    PROVE  /\ Answered(s, v) \in SessionRecords /\ InOrder(Answered(s, v))
           /\ Answered(s, v).state = IF s.q = NumQuestions THEN "completed" ELSE "asking"
<1> DEFINE n == Answered(s, v)
           answers == [s.answers EXCEPT ![s.q] = v]
           review == s.review \ {s.q}
           state == IF s.q = NumQuestions THEN "completed" ELSE "asking"
<1>1. /\ s.q \in Questions /\ s.q + 1 \in 1 .. NumQuestions + 1 /\ s.q \in Nat
      /\ s.answers \in [Questions -> Answers] /\ s.review \subseteq Questions
  BY Bounds, SessionFields DEF InOrder, Questions
<1>2. answers \in [Questions -> Answers] /\ review \subseteq Questions
      /\ state \in Terminal \cup Absent \cup {"asking"}
  BY <1>1 DEF Terminal
<1>3. \A k \in Questions : (answers[k] # Unanswered) <=> k < s.q + 1
  <2> SUFFICES ASSUME NEW k \in Questions PROVE (answers[k] # Unanswered) <=> k < s.q + 1
    OBVIOUS
  <2>1. (s.answers[k] # Unanswered) <=> k < s.q
    BY DEF InOrder
  <2>2. k \in Nat
    BY Bounds
  <2> QED
    BY <1>1, <2>1, <2>2
<1>4. n = [s EXCEPT !.answers = answers, !.review = review, !.q = s.q + 1, !.state = state,
                    !.quiet = FALSE]
  BY DEF Touched, Answered
<1>5. state = "completed" => s.q + 1 = NumQuestions + 1
  OBVIOUS
<1>6. state = "asking" => s.q + 1 \in Questions
  BY <1>1, Bounds DEF Questions
<1> HIDE DEF answers, review, state, n
<1>7. n \in SessionRecords /\ n.answers = answers /\ n.q = s.q + 1 /\ n.state = state
  BY <1>1, <1>2, <1>4 DEF SessionRecords
<1> QED
  BY <1>3, <1>5, <1>6, <1>7 DEF InOrder, state, n

LEMMA AnswerKeeps ==
    ASSUME IInv, NEW c \in Slots, Answer(c)
    PROVE  IInv'
<1> DEFINE s == slot[c].sid
           now == sessions[s]
           last == now.q = NumQuestions
           n == Answered(now, slot[c].value)
<1>1. /\ TypeOK /\ slot[c].pc = "answer" /\ slot[c].pc \notin Finalizing
      /\ UNCHANGED others
  BY DEF Answer, Finalizing, IInv
<1>2. /\ s \in Sids /\ now \in SessionRecords /\ now.state # "none" /\ InOrder(now)
      /\ slot[c] \in SlotRecords /\ slot[c].value \in Answers /\ slot[c].value # Unanswered
  BY <1>1, SlotFacts, SlotFields
<1>3. \/ Put(s, Touched([now EXCEPT !.state = "expired"])) /\ Returns(c)
      \/ Returns(c) /\ UNCHANGED sessions
      \/ /\ Found(s) /\ ~Ended(s) /\ ~now.old /\ Put(s, n)
         /\ IF last THEN slot' = [slot EXCEPT ![c].pc = "finalize"] ELSE Returns(c)
  BY DEF Answer, Goes, Answered
<1>4. CASE Put(s, Touched([now EXCEPT !.state = "expired"])) /\ Returns(c)
  BY <1>1, <1>2, <1>4, EndsKeeps
<1>5. CASE Returns(c) /\ UNCHANGED sessions
  BY <1>1, <1>5, ReturnKeeps
<1>6. CASE /\ Found(s) /\ ~Ended(s) /\ ~now.old /\ Put(s, n)
           /\ IF last THEN slot' = [slot EXCEPT ![c].pc = "finalize"] ELSE Returns(c)
  <2>1. now.state = "asking" /\ now.state \notin Past
    BY <1>2, <1>6, AskingIf
  <2>2. /\ n \in SessionRecords /\ InOrder(n)
        /\ n.state = IF last THEN "completed" ELSE "asking"
    BY <1>2, <1>6, <2>1, AnsweredFacts
  <2> HIDE DEF n
  <2>3. Ongoing(now)
    BY <1>6, <2>1 DEF Ongoing
  <2>4. CASE last
    <3> DEFINE r == [slot[c] EXCEPT !.pc = "finalize"]
    <3>1. slot' = [slot EXCEPT ![c] = r]
      BY <1>6, <2>4
    <3>2. r \in SlotRecords /\ r.pc = "finalize" /\ r.sid = s
      BY <1>2 DEF SlotRecords, Pcs, Finalizing
    <3>3. n.state = "completed"
      BY <2>2, <2>4
    <3>4. slot[c].pc \notin Finalizing /\ UNCHANGED others /\ s \in Sids /\ Put(s, n)
      BY <1>1, <1>2, <1>6
    <3> HIDE DEF r, s, last
    <3> QED
      BY <2>1, <2>2, <2>3, <3>1, <3>2, <3>3, <3>4, AskedKeeps
  <2>5. CASE ~last
    <3>1. Idle \in SlotRecords /\ Idle.pc = "idle" /\ Idle.pc \notin Finalizing
      BY ConstantFacts DEF Finalizing
    <3>2. Returns(c) /\ n.state = "asking"
      BY <1>6, <2>2, <2>5
    <3>3. /\ slot[c].pc \notin Finalizing /\ UNCHANGED others /\ s \in Sids /\ Put(s, n)
          /\ slot' = [slot EXCEPT ![c] = Idle]
      BY <1>1, <1>2, <1>6, <3>2 DEF Returns
    <3> HIDE DEF s, last
    <3> QED
      BY <2>1, <2>2, <2>3, <3>1, <3>2, <3>3, AskedKeeps
  <2> QED
    BY <2>4, <2>5
<1> QED
  BY <1>3, <1>4, <1>5, <1>6

-----------------------------------------------------------------------------
(* start.                                                                   *)

LEMMA BeginKeeps ==
    ASSUME IInv, NEW c \in Slots, Begin(c)
    PROVE  IInv'
<1> DEFINE r == [slot[c] EXCEPT !.pc = "prune"]
<1>1. /\ TypeOK /\ Happens /\ slot[c].pc \notin Finalizing /\ slot' = [slot EXCEPT ![c] = r]
      /\ UNCHANGED <<sessions, calm>>
  BY DEF Begin, Goes, Finalizing, IInv
<1>2. r \in SlotRecords /\ r.pc = "prune"
  BY SlotFacts DEF SlotRecords, Pcs
<1> HIDE DEF r
<1> QED
  BY <1>1, <1>2, EventBound, StayKeeps DEF Finalizing

LEMMA PruneKeeps ==
    ASSUME IInv, NEW c \in Slots, Prune(c)
    PROVE  IInv'
<1> DEFINE r == [slot[c] EXCEPT !.pc = "open", !.base = account]
           gone == [Blank EXCEPT !.state = "gone"]
<1>1. /\ TypeOK /\ slot[c].pc = "prune" /\ slot[c].pc \notin Finalizing
      /\ slot' = [slot EXCEPT ![c] = r]
      /\ sessions' = [s \in Sids |-> IF Found(s) /\ sessions[s].old THEN gone ELSE sessions[s]]
      /\ UNCHANGED others
  BY DEF Prune, Finalizing, IInv
<1>2. r \in SlotRecords /\ r.pc = "open" /\ r.base = account /\ account \in Accounts
  BY <1>1, SlotFacts, Types DEF SlotRecords, Pcs
<1> HIDE DEF r
<1>3. gone \in SessionRecords /\ gone.state = "gone" /\ gone.q = Blank.q
      /\ gone.answers = Blank.answers
  BY ConstantFacts DEF SessionRecords, Absent
<1> HIDE DEF gone
<1>4. InOrder(gone) /\ ~Ongoing(gone) /\ gone.state \in Past
  BY <1>3, ConstantFacts DEF InOrder, Ongoing, Past
<1>5. \A t \in Sids : sessions'[t] = gone \/ sessions'[t] = sessions[t]
  BY <1>1
<1>6. sessions' \in [Sids -> SessionRecords]
  BY <1>1, <1>3, Types
<1>7. \A t \in Sids :
         /\ InOrder(sessions'[t])
         /\ sessions[t].state \in Past => sessions'[t].state \in Past
         /\ sessions[t].state # "none" => sessions'[t].state # "none"
         /\ sessions'[t].state = "completed" => sessions[t].state = "completed"
         /\ Ongoing(sessions'[t]) => Ongoing(sessions[t])
  BY <1>3, <1>4, <1>5 DEF IInv, SessionInv
<1>8. \A t, u \in Sids : Ongoing(sessions'[t]) /\ Ongoing(sessions'[u]) => t = u
  BY <1>7 DEF IInv, SessionInv
<1>9. "open" \notin Finalizing
  BY DEF Finalizing
<1> QED
  BY <1>1, <1>2, <1>6, <1>7, <1>8, <1>9, StepEvents, HandleKeeps

LEMMA OpenKeeps ==
    ASSUME IInv, NEW c \in Slots, Open(c)
    PROVE  IInv'
<1>1. /\ TypeOK /\ slot[c].pc = "open" /\ slot[c].pc \notin Finalizing /\ Returns(c)
      /\ UNCHANGED others
  BY DEF Open, Finalizing, IInv
<1>2. CASE UNCHANGED sessions
  BY <1>1, <1>2, ReturnKeeps
<1>3. ASSUME Live = {}, NEW s \in Sids, sessions[s].state = "none",
             Put(s, [Blank EXCEPT !.state = "asking", !.review = slot[c].base.has])
      PROVE  IInv'
  <2> DEFINE n == [Blank EXCEPT !.state = "asking", !.review = slot[c].base.has]
  <2>1. slot[c].base \in Accounts
    BY <1>1 DEF IInv, SlotInv
  <2>2. slot[c].base.has \subseteq Questions
    BY <2>1, Bounds DEF Accounts
  <2>3. n \in SessionRecords /\ n.state = "asking" /\ n.q = Blank.q /\ n.answers = Blank.answers
    BY <2>2, ConstantFacts DEF SessionRecords
  <2>4. Put(s, n)
    BY <1>3
  <2> HIDE DEF n
  <2>5. 1 \in Questions
    BY Bounds DEF Questions
  <2>6. InOrder(n)
    BY <2>3, <2>5, ConstantFacts DEF InOrder
  <2>7. \A t \in Sids : ~Ongoing(sessions[t])
    BY <1>3 DEF Live, Ongoing
  <2>8. "none" \notin Past
    BY DEF Past, Terminal
  <2>9. Idle \in SlotRecords /\ Idle.pc = "idle" /\ Idle.pc \notin Finalizing
    BY ConstantFacts DEF Finalizing
  <2> QED
    BY <1>1, <1>3, <2>3, <2>4, <2>6, <2>7, <2>8, <2>9, StepEvents, PutKeeps DEF Returns
<1> QED
  BY <1>2, <1>3 DEF Open

-----------------------------------------------------------------------------
(* finalize.                                                                *)

LEMMA FinalizingFacts ==
    ASSUME IInv, NEW c \in Slots, slot[c].pc \in Finalizing
    PROVE  /\ TypeOK /\ slot[c] \in SlotRecords /\ slot[c].sid \in Sids
           /\ sessions[slot[c].sid].state \in Past
           /\ Finishes(c, slot[c].sid)
           /\ \A d \in Slots \ {c} : ~Finishes(d, slot[c].sid)
           /\ told[slot[c].sid] = "no"
           /\ told \in [Sids -> {"no", "applied", "failed", "died"}]
<1>1. slot[c].pc \notin {"idle", "prune", "open"} /\ TypeOK
  BY DEF Finalizing, IInv
<1>2. slot[c].sid \in Sids /\ sessions[slot[c].sid].state \in Past
  BY <1>1 DEF IInv, SlotInv
<1>3. Finishes(c, slot[c].sid)
  BY DEF Finishes
<1> QED
  BY <1>1, <1>2, <1>3, Types DEF IInv, EndInv, TypeOK

\* A step of finalize that goes on with the same session.
LEMMA GoesOn ==
    ASSUME IInv, NEW c \in Slots, slot[c].pc \in Finalizing,
           NEW r \in SlotRecords, slot' = [slot EXCEPT ![c] = r], r.pc \in Finalizing,
           r.sid = slot[c].sid, r.pc = "build" => r.base \in Accounts,
           r.pc = "knowledge" => r.sid \in account'.log \cup over',
           account' \in Accounts, over' \subseteq Writers \cup Sids,
           account.log \cup over \subseteq account'.log \cup over',
           UNCHANGED <<sessions, writer, boot, told, events>>
    PROVE  IInv'
<1>1. TypeOK /\ slot[c].sid \in Sids
  BY FinalizingFacts
<1>2. /\ slot' \in [Slots -> SlotRecords] /\ slot'[c] = r
      /\ \A d \in Slots \ {c} : slot'[d] = slot[d]
  BY <1>1, Types
<1>3. TypeOK'
  BY <1>1, <1>2 DEF TypeOK, SlotRecords
<1>4. SessionInv' /\ WriterInv'
  BY DEF IInv, SessionInv, WriterInv
<1>5. \A p \in Finalizing : p \notin {"idle", "prune", "open", "changeAnswer", "answer"}
  BY DEF Finalizing
<1>6. SlotInv'
  <2>1. ASSUME NEW d \in Slots \ {c}
        PROVE  /\ slot'[d].pc \notin {"idle", "prune", "open"} =>
                     slot'[d].sid \in Sids /\ sessions'[slot'[d].sid].state # "none"
               /\ slot'[d].pc \in {"changeAnswer", "answer"} => slot'[d].value # Unanswered
               /\ slot'[d].pc \in {"open", "build"} => slot'[d].base \in Accounts
               /\ slot'[d].pc \in Finalizing => sessions'[slot'[d].sid].state \in Past
               /\ slot'[d].pc = "knowledge" => slot'[d].sid \in account'.log \cup over'
    BY <1>2 DEF IInv, SlotInv
  <2>2. /\ slot'[c].sid \in Sids /\ sessions'[slot'[c].sid].state # "none"
        /\ sessions'[slot'[c].sid].state \in Past
    BY <1>1, <1>2, <1>5 DEF IInv, SlotInv
  <2> QED
    BY <1>2, <1>5, <2>1, <2>2 DEF SlotInv
<1>7. \A d \in Slots, t \in Sids : Finishes(d, t)' <=> Finishes(d, t)
  BY <1>2 DEF Finishes
<1>8. EndInv'
  BY <1>7 DEF IInv, EndInv
<1>9. AccountKeeps'
  BY DEF IInv, AccountKeeps
<1> QED
  BY <1>3, <1>4, <1>6, <1>8, <1>9 DEF IInv

\* A step that ends it: the customer is told.
LEMMA TellsKeeps ==
    ASSUME IInv, NEW c \in Slots, slot[c].pc \in Finalizing,
           NEW outcome \in {"applied", "failed"}, Tells(c, outcome),
           outcome = "applied" => boot'[slot[c].sid] # "none" /\ slot[c].pc = "knowledge",
           boot' = boot \/ boot' = [boot EXCEPT ![slot[c].sid] = "look"],
           UNCHANGED <<sessions, account, writer, over, events>>
    PROVE  IInv'
<1> DEFINE s == slot[c].sid
<1>1. /\ TypeOK /\ s \in Sids /\ sessions[s].state \in Past /\ told[s] = "no"
      /\ Finishes(c, s) /\ \A d \in Slots \ {c} : ~Finishes(d, s)
      /\ told \in [Sids -> {"no", "applied", "failed", "died"}]
  BY FinalizingFacts
<1>2. told' = [told EXCEPT ![s] = outcome] /\ slot' = [slot EXCEPT ![c] = Idle]
  BY DEF Tells, Returns
<1>3. Idle \in SlotRecords /\ Idle.pc = "idle" /\ Idle.pc \notin Finalizing
  BY ConstantFacts DEF Finalizing
<1>4. /\ slot' \in [Slots -> SlotRecords] /\ slot'[c] = Idle
      /\ \A d \in Slots \ {c} : slot'[d] = slot[d]
  BY <1>1, <1>2, <1>3, Types
<1>5. \A t \in Sids : told'[t] = IF t = s THEN outcome ELSE told[t]
  BY <1>1, <1>2
<1>6. \A t \in Sids : boot[t] # "none" => boot'[t] # "none"
  BY <1>1 DEF TypeOK
<1>7. TypeOK'
  <2>1. boot' \in [Sids -> {"none", "look", "post", "shown", "skipped", "escalated", "lost"}]
    BY <1>1 DEF TypeOK
  <2>2. told' \in [Sids -> {"no", "applied", "failed", "died"}]
    BY <1>1, <1>2
  <2> QED
    BY <1>1, <1>4, <2>1, <2>2 DEF TypeOK, SlotRecords
<1>8. SessionInv' /\ WriterInv'
  BY DEF IInv, SessionInv, WriterInv
<1> HIDE DEF s
<1>9. SlotInv'
  <2> SUFFICES ASSUME NEW d \in Slots
               PROVE  /\ slot'[d].pc \notin {"idle", "prune", "open"} =>
                            slot'[d].sid \in Sids /\ sessions'[slot'[d].sid].state # "none"
                      /\ slot'[d].pc \in {"changeAnswer", "answer"} => slot'[d].value # Unanswered
                      /\ slot'[d].pc \in {"open", "build"} => slot'[d].base \in Accounts
                      /\ slot'[d].pc \in Finalizing => sessions'[slot'[d].sid].state \in Past
                      /\ slot'[d].pc = "knowledge" => slot'[d].sid \in account'.log \cup over'
    BY DEF SlotInv
  <2>1. CASE d = c
    BY <1>3, <1>4, <2>1
  <2>2. CASE d # c
    BY <1>4, <2>2 DEF IInv, SlotInv
  <2> QED
    BY <2>1, <2>2
<1>10. EndInv'
  <2>1. \A d \in Slots \ {c}, t \in Sids : Finishes(d, t)' <=> Finishes(d, t)
    BY <1>4 DEF Finishes
  <2>2. \A t \in Sids : ~Finishes(c, t)'
    BY <1>3, <1>4 DEF Finishes
  <2>3. \A t \in Sids : Finishes(c, t) => t = s
    BY DEF Finishes, s
  <2>4. \A d, e \in Slots, t \in Sids : Finishes(d, t)' /\ Finishes(e, t)' => d = e
    BY <2>1, <2>2 DEF IInv, EndInv
  <2>5. ASSUME NEW t \in Sids, told'[t] # "no"
        PROVE  sessions'[t].state \in Past /\ \A d \in Slots : ~Finishes(d, t)'
    <3>1. CASE t = s
      BY <1>1, <2>1, <2>2, <3>1
    <3>2. CASE t # s
      BY <1>5, <2>1, <2>2, <2>5, <3>2 DEF IInv, EndInv
    <3> QED
      BY <3>1, <3>2
  <2>6. \A t \in Sids : told'[t] = "applied" => boot'[t] # "none"
    BY <1>5, <1>6 DEF IInv, EndInv, s
  <2>7. ASSUME NEW t \in Sids, sessions'[t].state = "completed", told'[t] = "no"
        PROVE  \E d \in Slots : Finishes(d, t)'
    <3>1. t # s /\ told[t] = "no"
      BY <1>5, <2>7
    <3>2. PICK d \in Slots : Finishes(d, t)
      BY <2>7, <3>1 DEF IInv, EndInv
    <3> QED
      BY <2>1, <2>3, <3>1, <3>2
  <2> QED
    BY <2>4, <2>5, <2>6, <2>7 DEF EndInv
<1>11. AccountKeeps'
  <2>1. slot[c].pc = "knowledge" => s \in account.log \cup over
    BY DEF IInv, SlotInv, s
  <2> QED
    BY <1>5, <2>1 DEF IInv, AccountKeeps, s
<1> QED
  BY <1>7, <1>8, <1>9, <1>10, <1>11 DEF IInv

LEMMA FinalizeKeeps ==
    ASSUME IInv, NEW c \in Slots, Finalize(c)
    PROVE  IInv'
<1> DEFINE r == [slot[c] EXCEPT !.pc = "build", !.base = account]
<1>1. /\ slot[c].pc \in Finalizing /\ UNCHANGED <<sessions, account, writer, boot, over, events>>
      /\ \/ slot' = [slot EXCEPT ![c] = r] /\ UNCHANGED told
         \/ Tells(c, "failed")
  BY DEF Finalize, Finalizing
<1>2. account \in Accounts /\ slot[c] \in SlotRecords /\ over \subseteq Writers \cup Sids
  BY <1>1, FinalizingFacts, Types DEF TypeOK
<1>3. r \in SlotRecords /\ r.pc = "build" /\ r.sid = slot[c].sid /\ r.base = account
  BY <1>2 DEF SlotRecords, Pcs, Finalizing
<1> HIDE DEF r
<1>4. CASE slot' = [slot EXCEPT ![c] = r] /\ UNCHANGED told
  BY <1>1, <1>2, <1>3, <1>4, GoesOn DEF Finalizing
<1>5. CASE Tells(c, "failed")
  BY <1>1, <1>5, TellsKeeps
<1> QED
  BY <1>1, <1>4, <1>5

\* What a writer of account.json leaves of the changes before it.
LEMMA SaveFacts ==
    ASSUME TypeOK, NEW base \in Accounts, NEW mine \in Writers \cup Sids,
           NEW has \in SUBSET Fields, Save(base, mine, has)
    PROVE  /\ account' \in Accounts /\ over' \subseteq Writers \cup Sids
           /\ account.log \cup over \subseteq account'.log \cup over'
           /\ mine \in account'.log
<1>1. /\ base.log \subseteq Writers \cup Sids /\ account.log \subseteq Writers \cup Sids
      /\ over \subseteq Writers \cup Sids
  BY DEF Accounts, TypeOK
<1>2. /\ account' = [log |-> base.log \cup {mine}, has |-> has]
      /\ over' = over \cup (account.log \ base.log)
  BY DEF Save
<1> QED
  BY <1>1, <1>2 DEF Accounts

LEMMA SaveAccountKeeps ==
    ASSUME IInv, NEW c \in Slots, SaveAccount(c)
    PROVE  IInv'
<1> DEFINE r == [slot[c] EXCEPT !.pc = "knowledge", !.base = None]
           has == {q \in Fields : sessions[slot[c].sid].answers[q] # Skipped}
<1>1. /\ slot[c].pc = "build" /\ slot[c].pc \in Finalizing
      /\ Save(slot[c].base, slot[c].sid, has)
      /\ slot' = [slot EXCEPT ![c] = r]
      /\ UNCHANGED <<sessions, writer, boot, told, events>>
  BY DEF SaveAccount, Finalizing
<1>2. TypeOK /\ slot[c] \in SlotRecords /\ slot[c].sid \in Sids /\ slot[c].base \in Accounts
  BY <1>1, FinalizingFacts DEF IInv, SlotInv
<1>3. r \in SlotRecords /\ r.pc = "knowledge" /\ r.sid = slot[c].sid
  BY <1>2 DEF SlotRecords, Pcs, Finalizing
<1>4. has \in SUBSET Fields
  OBVIOUS
<1> HIDE DEF r, has
<1>5. /\ account' \in Accounts /\ over' \subseteq Writers \cup Sids
      /\ account.log \cup over \subseteq account'.log \cup over'
      /\ slot[c].sid \in account'.log
  BY <1>1, <1>2, <1>4, SaveFacts
<1> QED
  BY <1>1, <1>3, <1>5, GoesOn DEF Finalizing

LEMMA FinalizeFailsKeeps ==
    ASSUME IInv, NEW c \in Slots, FinalizeFails(c)
    PROVE  IInv'
BY TellsKeeps DEF FinalizeFails, Finalizing

LEMMA StartPhaseKeeps ==
    ASSUME IInv, NEW c \in Slots, StartPhase(c)
    PROVE  IInv'
<1>1. /\ slot[c].pc = "knowledge" /\ slot[c].pc \in Finalizing
      /\ boot' = [boot EXCEPT ![slot[c].sid] = "look"]
      /\ Tells(c, "applied") /\ UNCHANGED <<sessions, account, writer, over, events>>
  BY DEF StartPhase, Finalizing
<1>2. boot'[slot[c].sid] = "look"
  BY <1>1, FinalizingFacts DEF TypeOK
<1> QED
  BY <1>1, <1>2, TellsKeeps

-----------------------------------------------------------------------------
(* The first draft, the other writers, time and death.                      *)

LEMMA BootKeeps ==
    ASSUME IInv, NEW s \in Sids, Boot(s)
    PROVE  IInv'
<1>1. PICK to \in {"skipped", "post", "shown", "escalated"} : boot' = [boot EXCEPT ![s] = to]
  BY DEF Boot, BootDraft, BootPost, BootFails
<1>2. UNCHANGED <<sessions, account, slot, writer, told, over, events>>
  BY DEF Boot, BootDraft, BootPost, BootFails
<1>3. TypeOK' /\ \A t \in Sids : boot[t] # "none" => boot'[t] # "none"
  BY <1>1, <1>2 DEF IInv, TypeOK
<1>4. SessionInv' /\ SlotInv' /\ WriterInv' /\ AccountKeeps'
  BY <1>2 DEF IInv, SessionInv, SlotInv, WriterInv, AccountKeeps
<1>5. \A d \in Slots, t \in Sids : Finishes(d, t)' <=> Finishes(d, t)
  BY <1>2 DEF Finishes
<1>6. EndInv'
  BY <1>2, <1>3, <1>5 DEF IInv, EndInv
<1> QED
  BY <1>3, <1>4, <1>6 DEF IInv

\* What the other parts of the invariant need of a step that leaves sessions,
\* slots and the customer alone.
LEMMA WriterKeeps ==
    ASSUME IInv, UNCHANGED <<sessions, slot, boot, told>>,
           account' \in Accounts, over' \subseteq Writers \cup Sids,
           account.log \cup over \subseteq account'.log \cup over',
           writer' \in [Writers -> [pc : {"idle", "loaded", "done"}, base : Accounts \cup {None}]],
           WriterInv', events' \in 0 .. MaxEvents,
           \A w \in Writers : writer'[w].pc = "done" =>
               writer[w].pc = "done" \/ w \in account'.log
    PROVE  IInv'
<1>1. TypeOK'
  BY DEF IInv, TypeOK
<1>2. SessionInv'
  BY DEF IInv, SessionInv
<1>3. SlotInv'
  BY DEF IInv, SlotInv
<1>4. \A d \in Slots, t \in Sids : Finishes(d, t)' <=> Finishes(d, t)
  BY DEF Finishes
<1>5. EndInv'
  BY <1>4 DEF IInv, EndInv
<1>6. AccountKeeps'
  BY DEF IInv, AccountKeeps
<1> QED
  BY <1>1, <1>2, <1>3, <1>5, <1>6 DEF IInv

LEMMA WriterLoadsKeeps ==
    ASSUME IInv, NEW w \in Writers, WriterLoads(w)
    PROVE  IInv'
<1> DEFINE r == [pc |-> "loaded", base |-> account]
<1>1. /\ TypeOK /\ Happens /\ writer' = [writer EXCEPT ![w] = r]
      /\ UNCHANGED <<sessions, account, slot, boot, told, over>>
  BY DEF WriterLoads, IInv
<1>2. account \in Accounts /\ over \subseteq Writers \cup Sids
      /\ writer \in [Writers -> [pc : {"idle", "loaded", "done"}, base : Accounts \cup {None}]]
  BY <1>1 DEF TypeOK
<1>3. r \in [pc : {"idle", "loaded", "done"}, base : Accounts \cup {None}]
      /\ r.pc = "loaded" /\ r.base \in Accounts
  BY <1>2
<1> HIDE DEF r
<1>4. \A v \in Writers : writer'[v] = IF v = w THEN r ELSE writer[v]
  BY <1>1, <1>2
<1>5. WriterInv'
  BY <1>3, <1>4 DEF IInv, WriterInv
<1>6. writer' \in [Writers -> [pc : {"idle", "loaded", "done"}, base : Accounts \cup {None}]]
  BY <1>1, <1>2, <1>3
<1> QED
  BY <1>1, <1>2, <1>3, <1>4, <1>5, <1>6, EventBound, WriterKeeps

LEMMA WriterSavesKeeps ==
    ASSUME IInv, NEW w \in Writers, WriterSaves(w)
    PROVE  IInv'
<1> DEFINE r == [pc |-> "done", base |-> None]
<1>1. /\ TypeOK /\ writer[w].pc = "loaded" /\ writer' = [writer EXCEPT ![w] = r]
      /\ Save(writer[w].base, w, writer[w].base.has)
      /\ UNCHANGED <<sessions, slot, boot, told, events>>
  BY DEF WriterSaves, IInv
<1>2. writer \in [Writers -> [pc : {"idle", "loaded", "done"}, base : Accounts \cup {None}]]
      /\ events \in 0 .. MaxEvents
  BY <1>1 DEF TypeOK
<1>3. r \in [pc : {"idle", "loaded", "done"}, base : Accounts \cup {None}] /\ r.pc = "done"
  OBVIOUS
<1> HIDE DEF r
<1>4. writer[w].base \in Accounts /\ writer[w].base.has \in SUBSET Fields
  BY <1>1 DEF IInv, WriterInv, Accounts
<1>5. /\ account' \in Accounts /\ over' \subseteq Writers \cup Sids
      /\ account.log \cup over \subseteq account'.log \cup over' /\ w \in account'.log
  BY <1>1, <1>4, SaveFacts
<1>6. \A v \in Writers : writer'[v] = IF v = w THEN r ELSE writer[v]
  BY <1>1, <1>2
<1>7. WriterInv'
  <2> SUFFICES ASSUME NEW v \in Writers, writer'[v].pc = "loaded"
               PROVE  writer'[v].base \in Accounts
    BY DEF WriterInv
  <2>1. writer'[v] = writer[v]
    BY <1>3, <1>6
  <2> QED
    BY <2>1 DEF IInv, WriterInv
<1>8. writer' \in [Writers -> [pc : {"idle", "loaded", "done"}, base : Accounts \cup {None}]]
  BY <1>1, <1>2, <1>3
<1> QED
  BY <1>1, <1>2, <1>3, <1>5, <1>6, <1>7, <1>8, WriterKeeps

\* Time passes for one session.
LEMMA AgeKeeps ==
    ASSUME IInv, NEW s \in Sids, Quiet(s) \/ Old(s)
    PROVE  IInv'
<1> DEFINE quiet == [sessions[s] EXCEPT !.quiet = TRUE]
           old == [sessions[s] EXCEPT !.old = TRUE]
<1>1. /\ TypeOK /\ Happens /\ UNCHANGED <<slot, calm>> /\ (Put(s, quiet) \/ Put(s, old))
  BY DEF Quiet, Old, IInv
<1>2. sessions[s] \in SessionRecords
  BY <1>1, Types
<1>3. PICK n \in SessionRecords :
         /\ Put(s, n) /\ n.state = sessions[s].state /\ n.q = sessions[s].q
         /\ n.answers = sessions[s].answers /\ (Ongoing(n) => Ongoing(sessions[s]))
  <2>1. /\ quiet \in SessionRecords /\ quiet.state = sessions[s].state
        /\ quiet.q = sessions[s].q /\ quiet.answers = sessions[s].answers
        /\ quiet.old = sessions[s].old
    BY <1>2 DEF SessionRecords
  <2>2. /\ old \in SessionRecords /\ old.state = sessions[s].state
        /\ old.q = sessions[s].q /\ old.answers = sessions[s].answers /\ old.old = TRUE
    BY <1>2 DEF SessionRecords
  <2> HIDE DEF quiet, old
  <2> QED
    BY <1>1, <2>1, <2>2 DEF Ongoing
<1>4. /\ \A t \in Sids : sessions'[t] = IF t = s THEN n ELSE sessions[t]
      /\ sessions' \in [Sids -> SessionRecords]
  BY <1>1, <1>3, Types DEF Put
<1>5. UNCHANGED <<account, writer, boot, told, over>> /\ slot \in [Slots -> SlotRecords]
  BY <1>1, Types DEF calm
<1>6. TypeOK'
  BY <1>1, <1>4, <1>5, EventBound, TypesSuffice
<1>7. SessionInv'
  BY <1>3, <1>4 DEF IInv, SessionInv, InOrder
<1>8. \A t \in Sids : sessions'[t].state = sessions[t].state
  BY <1>3, <1>4
<1>9. SlotInv'
  <2>1. \A d \in Slots : slot[d].pc \in Finalizing => slot[d].pc \notin {"idle", "prune", "open"}
    BY DEF Finalizing
  <2> QED
    BY <1>1, <1>5, <1>8, <2>1 DEF IInv, SlotInv
<1>10. \A d \in Slots, t \in Sids : Finishes(d, t)' <=> Finishes(d, t)
  BY <1>1 DEF Finishes
<1>11. EndInv'
  BY <1>5, <1>8, <1>10 DEF IInv, EndInv
<1>12. WriterInv' /\ AccountKeeps'
  BY <1>5 DEF IInv, WriterInv, AccountKeeps
<1> QED
  BY <1>6, <1>7, <1>9, <1>11, <1>12 DEF IInv

LEMMA CrashKeeps ==
    ASSUME IInv, Crash
    PROVE  IInv'
<1>1. /\ TypeOK /\ Happens /\ UNCHANGED <<sessions, account, over>>
      /\ told' = [s \in Sids |-> IF \E c \in Slots : Finishes(c, s) THEN "died" ELSE told[s]]
      /\ slot' = [c \in Slots |-> Idle]
      /\ writer' = [w \in Writers |-> IF writer[w].pc = "loaded"
                                      THEN [pc |-> "idle", base |-> None] ELSE writer[w]]
      /\ boot' = [s \in Sids |-> IF boot[s] \in {"look", "post"} THEN "lost" ELSE boot[s]]
  BY DEF Crash, Finishes, IInv
<1>2. Idle \in SlotRecords /\ Idle.pc = "idle" /\ Idle.pc \notin Finalizing
  BY ConstantFacts DEF Finalizing
<1>3. TypeOK'
  <2>1. slot' \in [Slots -> SlotRecords] /\ events' \in 0 .. MaxEvents
    BY <1>1, <1>2, EventBound
  <2>2. writer' \in [Writers -> [pc : {"idle", "loaded", "done"}, base : Accounts \cup {None}]]
    BY <1>1 DEF TypeOK
  <2>3. told' \in [Sids -> {"no", "applied", "failed", "died"}]
    BY <1>1 DEF TypeOK
  <2>4. boot' \in [Sids -> {"none", "look", "post", "shown", "skipped", "escalated", "lost"}]
    BY <1>1 DEF TypeOK
  <2> QED
    BY <1>1, <2>1, <2>2, <2>3, <2>4 DEF TypeOK, SlotRecords
<1>4. SessionInv' /\ SlotInv'
  BY <1>1, <1>2 DEF IInv, SessionInv, SlotInv
<1>5. WriterInv'
  BY <1>1 DEF IInv, WriterInv
<1>6. EndInv'
  <2>1. \A d \in Slots, t \in Sids : ~Finishes(d, t)'
    BY <1>1, <1>2 DEF Finishes
  <2>2. \A d \in Slots, t \in Sids : Finishes(d, t) => sessions[t].state \in Past
    BY DEF IInv, SlotInv, Finishes
  <2>3. ASSUME NEW t \in Sids
        PROVE  /\ told'[t] # "no" => sessions[t].state \in Past
               /\ told'[t] = "applied" => boot'[t] # "none"
               /\ ~(sessions[t].state = "completed" /\ told'[t] = "no")
    <3>1. CASE \E c \in Slots : Finishes(c, t)
      BY <1>1, <2>2, <3>1
    <3>2. CASE ~\E c \in Slots : Finishes(c, t)
      BY <1>1, <3>2 DEF IInv, EndInv
    <3> QED
      BY <3>1, <3>2
  <2> QED
    BY <1>1, <2>1, <2>3 DEF EndInv
<1>7. AccountKeeps'
  BY <1>1 DEF IInv, AccountKeeps
<1> QED
  BY <1>3, <1>4, <1>5, <1>6, <1>7 DEF IInv

-----------------------------------------------------------------------------

LEMMA InitHolds == Init => IInv
<1> SUFFICES ASSUME Init PROVE IInv
  OBVIOUS
<1>1. TypeOK
  BY ConstantFacts, Bounds DEF Init, TypeOK, SessionRecords, SlotRecords, Accounts
<1>2. /\ \A s \in Sids : sessions[s] = Blank /\ told[s] = "no"
      /\ \A c \in Slots : slot[c] = Idle
      /\ \A w \in Writers : writer[w].pc = "idle"
  BY DEF Init
<1>3. Idle.pc \notin Finalizing /\ ~Ongoing(Blank)
  BY ConstantFacts DEF Finalizing, Ongoing
<1>4. SessionInv /\ SlotInv
  BY <1>2, <1>3, ConstantFacts DEF SessionInv, SlotInv
<1>5. EndInv
  BY <1>2, <1>3, ConstantFacts DEF EndInv, Finishes
<1>6. WriterInv /\ AccountKeeps
  BY <1>2 DEF WriterInv, AccountKeeps
<1> QED
  BY <1>1, <1>4, <1>5, <1>6 DEF IInv

LEMMA StutterKeeps ==
    ASSUME IInv, UNCHANGED vars
    PROVE  IInv'
<1>1. UNCHANGED <<sessions, account, slot, writer, boot, told, over, events>>
  BY DEF vars
<1>2. TypeOK'
  BY <1>1 DEF IInv, TypeOK
<1>3. SessionInv' /\ SlotInv' /\ WriterInv' /\ AccountKeeps'
  BY <1>1 DEF IInv, SessionInv, SlotInv, WriterInv, AccountKeeps
<1>4. EndInv'
  BY <1>1 DEF IInv, EndInv, Finishes
<1> QED
  BY <1>2, <1>3, <1>4 DEF IInv

LEMMA NextKeeps ==
    ASSUME IInv, [Next]_vars
    PROVE  IInv'
<1>1. ASSUME NEW c \in Slots,
             Expire(c) \/ Fresh(c) \/ Keep(c) \/ Change(c) \/ Answer(c) \/ Cancel(c)
      PROVE  IInv'
  BY <1>1, ExpireKeeps, FreshKeeps, KeepKeeps, ChangeKeeps, AnswerKeeps, CancelKeeps
<1>2. ASSUME NEW c \in Slots, Look(c) \/ Begin(c) \/ Prune(c) \/ Open(c)
      PROVE  IInv'
  BY <1>2, LookKeeps, BeginKeeps, PruneKeeps, OpenKeeps
<1>3. ASSUME NEW c \in Slots, Finalize(c) \/ SaveAccount(c) \/ FinalizeFails(c) \/ StartPhase(c)
      PROVE  IInv'
  BY <1>3, FinalizeKeeps, SaveAccountKeeps, FinalizeFailsKeeps, StartPhaseKeeps
<1>4. ASSUME NEW c \in Slots, NEW s \in Sids, Click(c, s)
      PROVE  IInv'
  BY <1>4, ClickKeeps
<1>5. ASSUME NEW s \in Sids, Boot(s) \/ Quiet(s) \/ Old(s)
      PROVE  IInv'
  BY <1>5, BootKeeps, AgeKeeps
<1>6. ASSUME NEW w \in Writers, WriterLoads(w) \/ WriterSaves(w)
      PROVE  IInv'
  BY <1>6, WriterLoadsKeeps, WriterSavesKeeps
<1>7. CASE Crash \/ UNCHANGED vars
  BY <1>7, CrashKeeps, StutterKeeps
<1> QED
  BY <1>1, <1>2, <1>3, <1>4, <1>5, <1>6, <1>7 DEF Next, Handle

LEMMA Inductive == Spec => []IInv
<1>1. Init => IInv
  BY InitHolds
<1>2. IInv /\ [Next]_vars => IInv'
  BY NextKeeps
<1> QED
  BY <1>1, <1>2, PTL DEF Spec

\* However messages and buttons interleave, the questions answered are those before
\* the current one, a session that is completed has them all, and start never opens
\* a second session beside a live one (onboarding/collector.ts: answerCurrent,
\* changeCurrentReviewAnswer and start each decide on a session that was read earlier).
THEOREM WizardInvHolds == Spec => []WizardInv
<1>1. ASSUME IInv PROVE WizardInv
  <2>1. TypeOK /\ AnsweredInOrder
    BY <1>1 DEF IInv, SessionInv, AnsweredInOrder, InOrder
  <2>2. OneLiveSession
    <3>1. \A s, t \in Live : s = t
      BY <1>1 DEF IInv, SessionInv, Live, Ongoing
    <3>2. CASE Live = {}
      BY <3>2, FS_EmptySet DEF OneLiveSession
    <3>3. CASE Live # {}
      <4>1. PICK s : Live = {s}
        BY <3>1, <3>3
      <4>2. Cardinality(Live) = 1
        BY <4>1, FS_Singleton
      <4> QED
        BY <4>2 DEF OneLiveSession
    <3> QED
      BY <3>2, <3>3
  <2> QED
    BY <2>1, <2>2 DEF WizardInv
<1> QED
  BY <1>1, Inductive, PTL

\* A session that is completed is finalized by one handler, once, until the customer
\* is told how it ended; who is told that it was applied has a first draft under way
\* (handlers/onboarding.ts, discord/onboarding-buttons.ts: the caller whose answer
\* completed the session is the one that finalizes it).
THEOREM FinalizedOnceHolds == Spec => []FinalizedOnce
<1>1. ASSUME IInv PROVE FinalizedOnce
  <2> SUFFICES ASSUME NEW s \in Sids
               PROVE  LET at == {c \in Slots : slot[c].pc \in Finalizing /\ slot[c].sid = s} IN
                      /\ Cardinality(at) = (IF at # {} THEN 1 ELSE 0)
                      /\ told[s] # "no" => at = {}
                      /\ told[s] = "applied" => boot[s] # "none"
                      /\ sessions[s].state = "completed" /\ told[s] = "no" => at # {}
    BY DEF FinalizedOnce
  <2> DEFINE at == {c \in Slots : slot[c].pc \in Finalizing /\ slot[c].sid = s}
  <2>1. \A c, d \in at : c = d
    BY <1>1 DEF IInv, EndInv, Finishes
  <2>2. Cardinality(at) = (IF at # {} THEN 1 ELSE 0)
    <3> HIDE DEF at
    <3>1. CASE at = {}
      BY <3>1, FS_EmptySet
    <3>2. CASE at # {}
      <4>1. PICK c : at = {c}
        BY <2>1, <3>2
      <4> QED
        BY <4>1, FS_Singleton
    <3> QED
      BY <3>1, <3>2
  <2>3. /\ told[s] # "no" => at = {}
        /\ told[s] = "applied" => boot[s] # "none"
        /\ sessions[s].state = "completed" /\ told[s] = "no" => at # {}
    BY <1>1 DEF IInv, EndInv, Finishes
  <2> QED
    BY <2>2, <2>3
<1> QED
  BY <1>1, Inductive, PTL

\* A change of account.json that was made, by finalize or by another writer, is still
\* in it unless a writer that had read the file before it wrote after it
\* (handlers/onboarding.ts: loadAccount, then saveAccount, with no lock).
THEOREM AccountKeepsHolds == Spec => []AccountKeeps
<1>1. IInv => AccountKeeps
  BY DEF IInv
<1> QED
  BY <1>1, Inductive, PTL

=============================================================================
