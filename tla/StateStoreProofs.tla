-------------------------- MODULE StateStoreProofs --------------------------
(***************************************************************************)
(* state.json: who writes it, and what it holds.                           *)
(*                                                                         *)
(* StateStore.  For any calls, any staleness and patience of the lock, any *)
(* number of deaths and stalls: two calls are in the section of state.json *)
(* at once only if the lock of one went stale in its hands, and state.json *)
(* keeps every change but for what writers from outside the lock do.  The  *)
(* invariant says whose the lock is (HolderInv), that a lock is stale only *)
(* when its holder is dead or has been noted as overrun (StaleInv), and    *)
(* what a call has read: never more than there is (CopyInv), and under a   *)
(* good lock never less (SectionInv).                                      *)
(*                                                                         *)
(* AccountFiles.  For any names and any length of a field: what is loaded  *)
(* from whatever is found is in the form of this program, a form that is   *)
(* loaded as it is (FieldFixed, FixedStateSame), has the names that were   *)
(* there, and nothing that was finished is up for work in it (FieldFound). *)
(* The invariant (DocumentInv) carries this from what is found to whatever *)
(* bot, script and wizard write.                                           *)
(*                                                                         *)
(* Preflight.  A self-check keeps, of what was wrong at some moment and of *)
(* what was wrong all the time, what its gates have said (CheckInv).       *)
(***************************************************************************)
EXTENDS StateStore, Preflight, FiniteSetTheorems, TLAPS, WellFoundedInduction

HolderInv == \A c \in Calls : pc[c] \in Holding => lock = c \/ c \in overrun
StaleInv == age = StaleAfter /\ lock # None => lock \in overrun \/ pc[lock] \notin Holding
LockInv == TypeOK /\ HolderInv /\ StaleInv

CopyInv == \A c \in Calls : copy[c] \subseteq state \cup excused
SectionInv == \A c \in Sections : c \notin overrun => state \subseteq copy[c] \cup excused
StoreInv == LockInv /\ CopyInv /\ SectionInv

\* What the steps of a call do to the variables TypeOK speaks of, so that the
\* proofs below need not take records and functions apart each time.
LEMMA CallTypes ==
    ASSUME StoreAssumption, TypeOK, NEW c \in Calls,
           ReadOutside(c) \/ Start(c) \/ Step(c)
           \/ Stall(c) \/ Wake(c) \/ Compromised(c) \/ Crash(c)
    PROVE  TypeOK'
<1> USE DEF TypeOK, StoreAssumption, Pcs, Holding, Ended, Goes, files, locking, bounds
<1>1. CASE ReadOutside(c)
  BY <1>1 DEF ReadOutside
<1>2. CASE Start(c)
  BY <1>2 DEF Start
<1>3. CASE WriteOutside(c)
  BY <1>3 DEF WriteOutside, Trespass, Sections
<1>4. CASE Check(c)
  BY <1>4 DEF Check
<1>5. CASE Create(c)
  BY <1>5 DEF Create, Trespass, Sections
<1>6. CASE Acquire(c)
  BY <1>6 DEF Acquire
<1>7. CASE GiveUp(c)
  BY <1>7 DEF GiveUp
<1>8. CASE Read(c)
  BY <1>8 DEF Read
<1>9. CASE SaveAccount(c)
  BY <1>9 DEF SaveAccount
<1>10. CASE Write(c)
  BY <1>10 DEF Write, Trespass, Sections
<1>11. CASE Throws(c)
  BY <1>11 DEF Throws
<1>12. CASE Release(c)
  BY <1>12 DEF Release
<1>13. CASE Stall(c)
  BY <1>13 DEF Stall
<1>14. CASE Wake(c)
  BY <1>14 DEF Wake
<1>15. CASE Compromised(c)
  BY <1>15 DEF Compromised, Dies
<1>16. CASE Crash(c)
  BY <1>16 DEF Crash, Dies
<1> HIDE DEF TypeOK, StoreAssumption, Pcs, Holding, Ended, Goes, files, locking, bounds
<1>17. QED
  BY <1>1, <1>2, <1>3, <1>4, <1>5, <1>6, <1>7, <1>8, <1>9, <1>10, <1>11, <1>12,
     <1>13, <1>14, <1>15, <1>16 DEF Step

LEMMA TickTypes == ASSUME StoreAssumption, TypeOK, Tick PROVE TypeOK'
<1> USE DEF TypeOK, StoreAssumption, Tick, files, bounds
<1>1. age' \in 0 .. StaleAfter
  OBVIOUS
<1>2. patience' \in [Calls -> 0 .. Patience]
  OBVIOUS
<1>3. overrun' \subseteq Calls
  BY DEF Renewed
<1>4. QED
  BY <1>1, <1>2, <1>3

-----------------------------------------------------------------------------
(* The lock.                                                                *)

\* A call that acquires the lock takes it from nobody who still has it.
LEMMA AcquireKeepsLock ==
    ASSUME StoreAssumption, LockInv, NEW c \in Calls, Acquire(c)
    PROVE  HolderInv' /\ StaleInv'
<1>1. ASSUME NEW d \in Calls, pc'[d] \in Holding PROVE lock' = d \/ d \in overrun'
  <2>1. CASE d = c
    BY <2>1 DEF Acquire
  <2>2. CASE d # c
    <3>1. pc[d] \in Holding
      BY <1>1, <2>2 DEF Acquire, Goes, LockInv, TypeOK
    <3>2. lock = d \/ d \in overrun
      BY <3>1 DEF LockInv, HolderInv
    <3>3. d \in overrun
      BY <3>1, <3>2 DEF Acquire, IsFree, LockInv, StaleInv, StoreAssumption
    <3>4. QED
      BY <3>3 DEF Acquire
  <2>3. QED
    BY <2>1, <2>2
<1>2. StaleInv'
  BY DEF Acquire, StaleInv, StoreAssumption
<1>3. QED
  BY <1>1, <1>2 DEF HolderInv

\* Every other step of a call leaves a lock to its holder, or releases it.
LEMMA CallKeepsLock ==
    ASSUME StoreAssumption, LockInv, NEW c \in Calls,
           ReadOutside(c) \/ Start(c) \/ Step(c)
           \/ Stall(c) \/ Wake(c) \/ Compromised(c) \/ Crash(c)
    PROVE  HolderInv' /\ StaleInv'
<1>1. CASE Acquire(c)
  BY <1>1, AcquireKeepsLock
<1>2. CASE Release(c)
  <2>1. pc' = [pc EXCEPT ![c] = pc'[c]] /\ pc'[c] \notin Holding
    BY <1>2 DEF Release, Goes, Holding, LockInv, TypeOK
  <2>2. HolderInv'
    BY <1>2, <2>1 DEF Release, HolderInv, LockInv, TypeOK
  <2>3. StaleInv'
    BY <1>2, <2>1 DEF Release, StaleInv, LockInv, TypeOK, StoreAssumption
  <2>4. QED
    BY <2>2, <2>3
<1>3. CASE ReadOutside(c) \/ Start(c) \/ WriteOutside(c) \/ Check(c) \/ Create(c) \/ GiveUp(c)
           \/ Read(c) \/ SaveAccount(c) \/ Write(c) \/ Throws(c)
           \/ Stall(c) \/ Wake(c) \/ Compromised(c) \/ Crash(c)
  <2>1. UNCHANGED <<lock, age, overrun>>
    BY <1>3 DEF ReadOutside, Start, WriteOutside, Check, Create, GiveUp, Read, SaveAccount,
                Write, Throws, Stall, Wake, Compromised, Crash, Dies, locking, vars
  <2>2. \A d \in Calls : pc'[d] \in Holding => pc[d] \in Holding
    BY <1>3 DEF ReadOutside, Start, WriteOutside, Check, Create, GiveUp, Read, SaveAccount,
                Write, Throws, Stall, Wake, Compromised, Crash, Dies, Goes, Holding,
                LockInv, TypeOK
  <2>3. lock = None \/ lock \in Calls
    BY DEF LockInv, TypeOK
  <2>4. HolderInv'
    BY <2>1, <2>2 DEF HolderInv, LockInv
  <2>5. ASSUME age' = StaleAfter, lock' # None PROVE lock' \in overrun' \/ pc'[lock'] \notin Holding
    BY <2>1, <2>2, <2>3, <2>5 DEF StaleInv, LockInv
  <2>6. QED
    BY <2>4, <2>5 DEF StaleInv
<1>4. QED
  BY <1>1, <1>2, <1>3 DEF Step

LEMMA TickKeepsLock ==
    ASSUME StoreAssumption, LockInv, Tick
    PROVE  HolderInv' /\ StaleInv'
<1>1. HolderInv'
  BY DEF Tick, HolderInv, LockInv
<1>2. ASSUME age' = StaleAfter, lock' # None PROVE lock' \in overrun' \/ pc'[lock'] \notin Holding
  <2>1. CASE pc[lock] # "dead"
    BY <1>2, <2>1 DEF Tick
  <2>2. CASE pc[lock] = "dead"
    BY <1>2, <2>2 DEF Tick, Holding
  <2>3. QED
    BY <2>1, <2>2
<1>3. QED
  BY <1>1, <1>2 DEF StaleInv

LEMMA InitLocks == ASSUME StoreAssumption, Init PROVE LockInv
<1>1. TypeOK
  BY DEF Init, TypeOK, StoreAssumption, Pcs
<1>2. QED
  BY <1>1 DEF Init, LockInv, HolderInv, StaleInv, Holding, StoreAssumption

LEMMA NextKeepsLock == ASSUME StoreAssumption, LockInv, [Next]_vars PROVE LockInv'
<1>1. CASE Tick
  BY <1>1, TickTypes, TickKeepsLock DEF LockInv
<1>2. CASE \E c \in Calls : ReadOutside(c) \/ Start(c) \/ Step(c)
                            \/ Stall(c) \/ Wake(c) \/ Compromised(c) \/ Crash(c)
  BY <1>2, CallTypes, CallKeepsLock DEF LockInv
<1>3. CASE UNCHANGED vars
  BY <1>3 DEF vars, files, locking, bounds, LockInv, TypeOK, HolderInv, StaleInv
<1>4. QED
  BY <1>1, <1>2, <1>3 DEF Next

LEMMA LockExcludes == ASSUME LockInv PROVE MutualExclusion
  BY DEF LockInv, HolderInv, MutualExclusion

-----------------------------------------------------------------------------
(* The file.                                                                *)

\* A write from outside the lock leaves every change in the file, or excused.
LEMMA TrespassKeeps ==
    ASSUME NEW new, Trespass(new), state' = new
    PROVE  /\ state \cup excused \subseteq state' \cup excused'
           /\ excused \subseteq excused'
           /\ \A h \in Sections : state' \subseteq copy[h] \cup excused'
  BY DEF Trespass

\* What one step of a call does to the file, beside the rest of the state: a
\* file that is not written, a change added, or nothing lost.
Undone == state \cup excused \subseteq state' \cup excused'
Alone(c) == (state' \cup excused') \subseteq (state \cup excused \cup {c})

LEMMA WriteKeeps ==
    ASSUME StoreInv, NEW c \in Calls, Write(c)
    PROVE  /\ Undone /\ Alone(c) /\ excused \subseteq excused'
           /\ c \in overrun => \A h \in Sections : state' \subseteq copy[h] \cup excused'
<1> DEFINE new == copy[c] \cup {c}
<1>1. state' = new /\ c \in Sections
  BY DEF Write, Goes, Sections
<1>2. copy[c] \subseteq state \cup excused
  BY DEF StoreInv, CopyInv
<1>3. CASE c \in overrun
  <2>1. Trespass(new)
    BY <1>3 DEF Write
  <2>2. Undone /\ excused \subseteq excused' /\ \A h \in Sections : state' \subseteq copy[h] \cup excused'
    BY <1>1, <2>1, TrespassKeeps DEF Undone
  <2>3. excused' \subseteq state \cup excused \cup new
    BY <2>1 DEF Trespass
  <2>4. Alone(c)
    BY <1>1, <1>2, <2>3 DEF Alone
  <2>5. QED
    BY <2>2, <2>4
<1>4. CASE c \notin overrun
  <2>1. excused' = excused
    BY <1>4 DEF Write
  <2>2. state \subseteq copy[c] \cup excused
    BY <1>1, <1>4 DEF StoreInv, SectionInv
  <2>3. QED
    BY <1>1, <1>2, <1>4, <2>1, <2>2 DEF Undone, Alone
<1>5. QED
  BY <1>3, <1>4

LEMMA OutsideKeeps ==
    ASSUME StoreInv, NEW c \in Calls, WriteOutside(c)
    PROVE  /\ Undone /\ Alone(c) /\ excused \subseteq excused'
           /\ \A h \in Sections : state' \subseteq copy[h] \cup excused'
<1> DEFINE new == copy[c] \cup {c}
<1>1. state' = new /\ Trespass(new)
  BY DEF WriteOutside
<1>2. copy[c] \subseteq state \cup excused
  BY DEF StoreInv, CopyInv
<1>3. excused' \subseteq state \cup excused \cup new
  BY <1>1 DEF Trespass
<1>4. QED
  BY <1>1, <1>2, <1>3, TrespassKeeps DEF Undone, Alone

LEMMA CreateKeeps ==
    ASSUME NEW c \in Calls, Create(c)
    PROVE  /\ state' \cup excused' = state \cup excused
           /\ excused \subseteq excused'
           /\ \A h \in Sections : state' \subseteq copy[h] \cup excused'
  BY DEF Create, Trespass

\* A step that writes the file keeps what the other calls rely on.
LEMMA OthersKeep ==
    ASSUME StoreInv, NEW c \in Calls, Undone, excused \subseteq excused',
           Write(c) \/ WriteOutside(c) \/ Create(c),
           \/ c \in Sections /\ c \notin overrun
           \/ \A h \in Sections : state' \subseteq copy[h] \cup excused'
    PROVE  CopyInv' /\ SectionInv'
<1>1. overrun' = overrun
  BY DEF Write, WriteOutside, Create
<1>2. \A d \in Calls : copy'[d] = copy[d] \/ copy'[d] = {}
  BY DEF Write, WriteOutside, Create, StoreInv, LockInv, TypeOK
<1>3. CopyInv'
  BY <1>2 DEF CopyInv, StoreInv, Undone
<1>4. ASSUME NEW d \in Sections', d \notin overrun' PROVE state' \subseteq copy'[d] \cup excused'
  <2>1. d \in Calls /\ d \in Sections /\ d # c /\ copy'[d] = copy[d]
    BY <1>4 DEF Sections, Write, WriteOutside, Create, Goes, StoreInv, LockInv, TypeOK
  <2>2. d \in Sections
    BY <2>1
  <2>3. CASE c \in Sections /\ c \notin overrun
    <3>1. pc[c] \in Holding /\ pc[d] \in Holding /\ {c, d} \cap overrun = {}
      BY <1>1, <1>4, <2>1, <2>3 DEF Sections, Holding
    <3>2. FALSE
      BY <2>1, <3>1, LockExcludes DEF MutualExclusion, StoreInv
    <3>3. QED
      BY <3>2
  <2>4. CASE \A h \in Sections : state' \subseteq copy[h] \cup excused'
    BY <2>1, <2>4
  <2>5. QED
    BY <2>3, <2>4
<1>5. QED
  BY <1>3, <1>4 DEF SectionInv

\* Every other step leaves the file and what is excused alone.
Quiet(c) ==
    \/ ReadOutside(c) \/ Start(c) \/ Check(c) \/ Acquire(c) \/ GiveUp(c) \/ Read(c)
    \/ SaveAccount(c) \/ Throws(c) \/ Release(c)
    \/ Stall(c) \/ Wake(c) \/ Compromised(c) \/ Crash(c)

LEMMA QuietKeeps ==
    ASSUME StoreInv, NEW c \in Calls, Quiet(c)
    PROVE  CopyInv' /\ SectionInv' /\ UNCHANGED <<state, excused>>
<1> USE DEF ReadOutside, Start, Check, Acquire, GiveUp, Read, SaveAccount, Throws, Release,
            Stall, Wake, Compromised, Crash, Dies, files
<1>1. UNCHANGED <<state, excused, overrun>>
  BY DEF Quiet
<1>2. \A d \in Calls : copy'[d] \in {copy[d], state, {}}
  BY DEF Quiet, StoreInv, LockInv, TypeOK
<1>3. \A d \in Sections' : copy'[d] = state \/ (d \in Sections /\ copy'[d] = copy[d])
  BY DEF Quiet, StoreInv, LockInv, TypeOK, Sections, Goes, Holding
<1> HIDE DEF ReadOutside, Start, Check, Acquire, GiveUp, Read, SaveAccount, Throws, Release,
            Stall, Wake, Compromised, Crash, Dies, files
<1>4. CopyInv'
  BY <1>1, <1>2 DEF CopyInv, StoreInv
<1>5. SectionInv'
  BY <1>1, <1>3 DEF SectionInv, StoreInv
<1>6. QED
  BY <1>1, <1>4, <1>5

\* A step adds at most the change of the call that makes it.
LEMMA StepCommits ==
    ASSUME StoreAssumption, StoreInv, [Next]_vars
    PROVE  /\ CopyInv' /\ SectionInv'
           /\ Undone
           /\ \/ UNCHANGED (state \cup excused)
              \/ \E c \in Calls : (state \cup excused)' = (state \cup excused) \cup {c}
<1>1. ASSUME NEW c \in Calls, Write(c) \/ WriteOutside(c)
      PROVE  /\ CopyInv' /\ SectionInv' /\ Undone
             /\ (state \cup excused)' = (state \cup excused) \cup {c}
  <2>1. Undone /\ Alone(c) /\ excused \subseteq excused'
    BY <1>1, WriteKeeps, OutsideKeeps
  <2>2. c \in state'
    BY <1>1 DEF Write, WriteOutside
  <2>3. \/ c \in Sections /\ c \notin overrun
        \/ \A h \in Sections : state' \subseteq copy[h] \cup excused'
    <3>1. CASE WriteOutside(c)
      BY <3>1, OutsideKeeps
    <3>2. CASE Write(c)
      <4>1. c \in Sections
        BY <3>2 DEF Write, Goes, Sections
      <4>2. QED
        BY <3>2, <4>1, WriteKeeps
    <3>3. QED
      BY <1>1, <3>1, <3>2
  <2>4. CopyInv' /\ SectionInv'
    BY <1>1, <2>1, <2>3, OthersKeep
  <2>5. QED
    BY <2>1, <2>2, <2>4 DEF Undone, Alone
<1>2. ASSUME NEW c \in Calls, Create(c)
      PROVE  CopyInv' /\ SectionInv' /\ Undone /\ UNCHANGED (state \cup excused)
  BY <1>2, CreateKeeps, OthersKeep DEF Undone
<1>3. ASSUME NEW c \in Calls, Quiet(c)
      PROVE  CopyInv' /\ SectionInv' /\ Undone /\ UNCHANGED (state \cup excused)
  BY <1>3, QuietKeeps DEF Undone
<1>4. CASE Tick
  <2>1. UNCHANGED <<state, excused, pc, copy>> /\ overrun \subseteq overrun'
    BY <1>4 DEF Tick, files
  <2>2. QED
    BY <2>1 DEF StoreInv, CopyInv, SectionInv, Sections, Undone
<1>5. CASE UNCHANGED vars
  BY <1>5 DEF vars, files, StoreInv, CopyInv, SectionInv, Sections, Undone
<1>6. QED
  BY <1>1, <1>2, <1>3, <1>4, <1>5 DEF Next, Step, Quiet

-----------------------------------------------------------------------------
(* Theorems.                                                                *)

LEMMA InitStore == ASSUME StoreAssumption, Init PROVE StoreInv
  BY InitLocks DEF Init, StoreInv, CopyInv, SectionInv

LEMMA StoreInvHolds == Spec => []StoreInv
<1>1. Init => StoreInv
  BY InitStore, StoreAssumption
<1>2. StoreInv /\ [Next]_vars => StoreInv'
  BY NextKeepsLock, StepCommits, StoreAssumption DEF StoreInv
<1>3. QED
  BY <1>1, <1>2, PTL DEF Spec

\* Two calls hold the lock of state.json at once only if the lock of one of
\* them went stale in its hands (withStateLock of io.ts).
THEOREM MutualExclusionHolds == Spec => []MutualExclusion
<1>1. StoreInv => MutualExclusion
  BY LockExcludes DEF StoreInv
<1>2. QED
  BY <1>1, StoreInvHolds, PTL

\* The store implements the register of committed changes: no change that a
\* call has written is undone but by writers from outside the lock (withState
\* of repo.ts).
THEOREM StoreImplementsRegister == Spec => Implements
<1>1. Init => KeptLog!Init
  BY DEF Init, KeptLog!Init
<1>2. StoreInv /\ [Next]_vars => [KeptLog!Next]_(state \cup excused)
  <2> SUFFICES ASSUME StoreInv, [Next]_vars, ~UNCHANGED (state \cup excused)
               PROVE  KeptLog!Next
    OBVIOUS
  <2>1. PICK c \in Calls : (state \cup excused)' = (state \cup excused) \cup {c}
    BY StepCommits, StoreAssumption
  <2>2. c \notin state \cup excused
    BY <2>1
  <2>3. QED
    BY <2>1, <2>2 DEF KeptLog!Next, KeptLog!Commit
<1>3. QED
  BY <1>1, <1>2, StoreInvHolds, PTL DEF Spec, Implements, KeptLog!Spec

-----------------------------------------------------------------------------
(* account.json and state.json: what a field may hold.                      *)

\* An entry of a field: an object, or something that has no name.  A tweet that was
\* given up says so in both its fields.
Ent(f) ==
    {e \in [own : Ids \cup {NoName}, plain : BOOLEAN, status : Statuses[f] \cup Known[f] \cup {""},
            phase : {"", "open", "operator_escalated"}] :
        /\ e.plain \/ e.own = NoName
        /\ f = "target" /\ e.status = "operator_escalated" => e.phase = "operator_escalated"}

\* A value the field may have in a file.
IsVal(f, v) ==
    /\ v = [shape |-> v.shape, items |-> v.items]
    /\ v.shape \in {"missing", "scalar", "list", "map"}
    /\ v.shape \in {"missing", "scalar"} => v.items = <<>>
    /\ v.shape = "list" => v.items \in Seq(Ent(f))
    /\ v.shape = "map" =>
          /\ DOMAIN v.items \subseteq Ids /\ IsFiniteSet(DOMAIN v.items)
          /\ v.items \in [DOMAIN v.items -> Ent(f)]

ShapeOf(f) == IF f \in {"inbound", "target"} THEN "map" ELSE "list"

\* A value as the schema hands it out.
Clean(f, v) ==
    /\ IsVal(f, v) /\ v.shape = ShapeOf(f)
    /\ \A i \in DOMAIN v.items :
          /\ v.items[i].plain => v.items[i].status # ""
          /\ f # "plain" => /\ v.items[i].plain /\ v.items[i].status \in Known[f]
                            /\ f # "inbound" => v.items[i].own # NoName

-----------------------------------------------------------------------------
LEMMA Tables ==
    /\ Known["posting"] = PostingStates /\ Known["queue"] = PublishStatuses
    /\ Known["inbound"] = InboundStatuses /\ Known["target"] = TargetStatuses
    /\ Known["wizard"] = WizardStates /\ Known["digest"] = {"text"} /\ Known["plain"] = {"text"}
    /\ Default["posting"] = "created" /\ Default["queue"] = "scheduled"
    /\ Default["inbound"] = "open" /\ Default["target"] = "open"
    /\ Default["wizard"] = "created" /\ Default["digest"] = "text" /\ Default["plain"] = "text"
BY DEF Known, Default

LEMMA Defaults ==
    ASSUME NEW f \in Fields
    PROVE  "" \notin Known[f] /\ Default[f] \in Known[f]
<1>1. CASE f = "posting"
  BY <1>1, Tables DEF PostingStates
<1>2. CASE f = "queue"
  BY <1>2, Tables DEF PublishStatuses
<1>3. CASE f = "inbound"
  BY <1>3, Tables DEF InboundStatuses
<1>4. CASE f = "target"
  BY <1>4, Tables DEF TargetStatuses
<1>5. CASE f = "wizard"
  BY <1>5, Tables DEF WizardStates
<1>6. CASE f = "digest"
  BY <1>6, Tables
<1>7. CASE f = "plain"
  BY <1>7, Tables
<1> QED
  BY <1>1, <1>2, <1>3, <1>4, <1>5, <1>6, <1>7 DEF Fields

LEMMA Empty ==
    ASSUME NEW f
    PROVE  /\ IsVal(f, Missing) /\ IsVal(f, Scalar)
           /\ IsVal(f, List(<<>>)) /\ IsVal(f, Map(<<>>))
           /\ DOMAIN <<>> = {}
<1>1. DOMAIN <<>> = {}
  OBVIOUS
<1>2. <<>> \in Seq(Ent(f)) /\ <<>> \in [DOMAIN <<>> -> Ent(f)]
  BY <1>1
<1> QED
  BY <1>1, <1>2, FS_EmptySet DEF IsVal, Missing, Scalar, List, Map

LEMMA EntFacts ==
    ASSUME NEW f, NEW e \in Ent(f)
    PROVE  /\ e.plain \/ e.own = NoName
           /\ f = "target" /\ e.status = "operator_escalated" => e.phase = "operator_escalated"
           /\ e.phase \in {"", "open", "operator_escalated"}
           /\ e.own \in Ids \cup {NoName} /\ e.plain \in BOOLEAN
           /\ e.status \in Statuses[f] \cup Known[f] \cup {""}
           /\ e = [own |-> e.own, plain |-> e.plain, status |-> e.status, phase |-> e.phase]
BY DEF Ent

\* An entry put together of its fields.
LEMMA EntOf ==
    ASSUME NEW f, NEW own \in Ids \cup {NoName}, NEW plain \in BOOLEAN,
           NEW status \in Statuses[f] \cup Known[f] \cup {""},
           NEW phase \in {"", "open", "operator_escalated"},
           plain \/ own = NoName,
           f = "target" /\ status = "operator_escalated" => phase = "operator_escalated"
    PROVE  [own |-> own, plain |-> plain, status |-> status, phase |-> phase] \in Ent(f)
<1> DEFINE e == [own |-> own, plain |-> plain, status |-> status, phase |-> phase]
<1>1. /\ e.own = own /\ e.plain = plain /\ e.status = status /\ e.phase = phase
      /\ e \in [own : Ids \cup {NoName}, plain : BOOLEAN,
                status : Statuses[f] \cup Known[f] \cup {""},
                phase : {"", "open", "operator_escalated"}]
  OBVIOUS
<1> HIDE DEF e
<1>2. e \in Ent(f)
  BY <1>1 DEF Ent
<1> QED
  BY <1>2 DEF e

\* d is the entry e with another status.
Restated(f, e, d, status) ==
    /\ d \in Ent(f) /\ d.own = e.own /\ (d.plain <=> e.plain) /\ d.phase = e.phase
    /\ d.status = status

LEMMA EntTold ==
    ASSUME NEW f, NEW e \in Ent(f), NEW status \in Statuses[f] \cup Known[f] \cup {""},
           f = "target" /\ status = "operator_escalated" => e.phase = "operator_escalated"
    PROVE  Restated(f, e, [e EXCEPT !.status = status], status)
<1> DEFINE d == [e EXCEPT !.status = status]
<1>1. /\ d.own = e.own /\ d.plain = e.plain /\ d.status = status /\ d.phase = e.phase
      /\ d \in [own : Ids \cup {NoName}, plain : BOOLEAN,
                status : Statuses[f] \cup Known[f] \cup {""},
                phase : {"", "open", "operator_escalated"}]
  BY DEF Ent
<1> HIDE DEF d
<1>2. d \in Ent(f)
  BY <1>1, EntFacts DEF Ent
<1>3. Restated(f, e, d, status)
  BY <1>1, <1>2 DEF Restated
<1> QED
  BY <1>3 DEF d

LEMMA ItemFacts ==
    ASSUME NEW f, NEW v, IsVal(f, v), NEW i \in DOMAIN v.items
    PROVE  v.items[i] \in Ent(f) /\ v.shape \in {"list", "map"}
BY Empty DEF IsVal

-----------------------------------------------------------------------------
(* The two conversions.                                                     *)

\* The places of a list.
LEMMA Places ==
    ASSUME NEW n \in Nat
    PROVE  IsFiniteSet(1 .. n) /\ Cardinality(1 .. n) = n
<1>1. n \in Int /\ 1 \in Int
  OBVIOUS
<1>2. IsFiniteSet(1 .. n) /\ Cardinality(1 .. n) = IF 1 > n THEN 0 ELSE n - 1 + 1
  BY <1>1, FS_Interval
<1> QED
  BY <1>2

\* A map of entries put in some order: each key has exactly one place.
LEMMA Order ==
    ASSUME NEW S, IsFiniteSet(S)
    PROVE  LET order == SetToSeq(S) IN
           /\ Cardinality(S) \in Nat /\ order \in [1 .. Cardinality(S) -> S]
           /\ \A s \in S : \E i \in 1 .. Cardinality(S) : order[i] = s
<1> DEFINE n == Cardinality(S)
           order == SetToSeq(S)
<1>1. n \in Nat /\ ExistsBijection(1 .. n, S)
  BY FS_CardinalityType
<1>2. \E f \in [1 .. n -> S] : IsInjective(f)
  BY <1>1 DEF ExistsBijection, Bijection, Injection, IsInjective
<1>3. order \in [1 .. n -> S] /\ IsInjective(order)
  BY <1>2 DEF SetToSeq
<1>4. order \in Injection(1 .. n, S)
  BY <1>3 DEF Injection
<1>5. IsFiniteSet(1 .. n) /\ Cardinality(1 .. n) = n
  BY <1>1, Places
<1>6. order \in Surjection(1 .. n, S)
  BY <1>4, <1>5, FS_Injection
<1> QED
  BY <1>1, <1>3, <1>6 DEF Surjection

\* Of the places of a list some are looked for; if there is one, there is a last.
LEMMA LastPlace ==
    ASSUME NEW n \in Nat, NEW P \in SUBSET (1 .. n), P # {}
    PROVE  \E i \in P : \A j \in P : j <= i
<1> DEFINE D == {n - i : i \in P}
<1>0. \A i \in P : i \in 1 .. n /\ n - i \in Nat
  OBVIOUS
<1>1. D \subseteq Nat /\ D # {}
  BY <1>0
<1>2. \E d \in D : \A e \in D : ~(<<e, d>> \in OpToRel(<, Nat))
  <2> HIDE DEF D
  <2> QED
    BY <1>1, WFMin, NatLessThanWellFounded
<1>3. PICK d \in D : \A e \in D : ~(e < d)
  BY <1>1, <1>2 DEF OpToRel
<1>4. PICK i \in P : d = n - i
  OBVIOUS
<1>5. ASSUME NEW j \in P
      PROVE  j <= i
  <2>1. n - j \in D
    OBVIOUS
  <2>2. ~(n - j < n - i)
    BY <1>3, <1>4, <2>1
  <2> QED
    BY <1>0, <2>2
<1> QED
  BY <1>5

\* A map as a list: the entry of each key, with the key for its id if it had none.
LEMMA ListOfMap ==
    ASSUME NEW f \in Fields, NEW v, IsVal(f, v), v.shape = "map"
    PROVE  LET l == AsList(v.items) IN
           /\ IsVal(f, l) /\ l.shape = "list"
           /\ \A i \in DOMAIN l.items : \E k \in DOMAIN v.items :
                 l.items[i] = WithId(v.items[k], k)
           /\ \A k \in DOMAIN v.items : \E i \in DOMAIN l.items :
                 l.items[i] = WithId(v.items[k], k)
<1> DEFINE S == DOMAIN v.items
           n == Cardinality(S)
           order == SetToSeq(S)
           s == [i \in 1 .. n |-> WithId(v.items[order[i]], order[i])]
<1>1. S \subseteq Ids /\ IsFiniteSet(S) /\ v.items \in [S -> Ent(f)]
  BY DEF IsVal
<1>2. /\ n \in Nat /\ order \in [1 .. n -> S]
      /\ \A k \in S : \E i \in 1 .. n : order[i] = k
  BY <1>1, Order
<1>3. Len(order) = n
  BY <1>2
<1>4. AsList(v.items) = List(s)
  BY <1>3 DEF AsList
<1>5. ASSUME NEW k \in S
      PROVE  WithId(v.items[k], k) \in Ent(f)
  BY <1>1, <1>5 DEF Ent, WithId
<1> HIDE DEF order, n
<1>6. s \in Seq(Ent(f)) /\ DOMAIN s = 1 .. n
  BY <1>2, <1>5
<1>7. \A i \in 1 .. n : s[i] = WithId(v.items[order[i]], order[i]) /\ order[i] \in S
  BY <1>2
<1> HIDE DEF s, S
<1>8. LET l == List(s) IN l.items = s /\ l.shape = "list" /\ IsVal(f, l)
  BY <1>6 DEF List, IsVal
<1>9. /\ \A i \in 1 .. n : \E k \in S : s[i] = WithId(v.items[k], k)
      /\ \A k \in S : \E i \in 1 .. n : s[i] = WithId(v.items[k], k)
  BY <1>2, <1>7
<1> QED
  BY <1>4, <1>6, <1>8, <1>9 DEF S

\* A list as a map: of each name the last entry, and no name is lost.
LEMMA MapOfList ==
    ASSUME NEW f \in Fields, NEW v, IsVal(f, v), v.shape = "list"
    PROVE  LET m == AsMap(v.items) IN
           /\ IsVal(f, m) /\ m.shape = "map"
           /\ \A k \in DOMAIN m.items : m.items[k].own = k /\ m.items[k].plain
           /\ \A k \in Ids : k \in DOMAIN m.items <=>
                 \E i \in DOMAIN v.items : v.items[i].own = k
           /\ \A k \in DOMAIN m.items : \E i \in DOMAIN v.items : m.items[k] = v.items[i]
<1> DEFINE s == v.items
           n == Len(s)
           at(k) == {i \in DOMAIN s : s[i].plain /\ s[i].own = k}
           last(k) == CHOOSE i \in at(k) : \A j \in at(k) : j <= i
           K == {j \in Ids : at(j) # {}}
           m == [k \in K |-> s[last(k)]]
<1>1. s \in Seq(Ent(f)) /\ n \in Nat /\ DOMAIN s = 1 .. n
  BY DEF IsVal
<1>2. AsMap(s) = Map(m)
  BY DEF AsMap
<1>3. ASSUME NEW k \in K
      PROVE  last(k) \in at(k)
  <2>1. at(k) \in SUBSET (1 .. n) /\ at(k) # {}
    BY <1>1
  <2>2. \E i \in at(k) : \A j \in at(k) : j <= i
    <3> HIDE DEF at, n
    <3> QED
      BY <1>1, <2>1, LastPlace
  <2> HIDE DEF at
  <2> QED
    BY <2>2
<1>4. \A k \in K : last(k) \in DOMAIN s /\ s[last(k)].plain /\ s[last(k)].own = k
  BY <1>3
<1>5. \A k \in Ids : k \in K <=> \E i \in DOMAIN s : s[i].own = k
  <2>1. \A i \in DOMAIN s : s[i] \in Ent(f)
    BY <1>1
  <2>2. \A i \in DOMAIN s : s[i].plain \/ s[i].own = NoName
    BY <2>1 DEF Ent
  <2> QED
    BY <2>2, FilesAssumption
<1>6. IsFiniteSet(K)
  <2>1. IsFiniteSet({s[i].own : i \in 1 .. n})
    <3> DEFINE T == {s[i].own : i \in 1 .. n}
               g == [i \in 1 .. n |-> s[i].own]
    <3>1. g \in Surjection(1 .. n, T)
      BY DEF Surjection
    <3>2. IsFiniteSet(1 .. n)
      BY <1>1, Places
    <3> QED
      BY <3>1, <3>2, FS_Surjection
  <2>2. K \subseteq {s[i].own : i \in 1 .. n}
    BY <1>1
  <2> QED
    BY <2>1, <2>2, FS_Subset
<1> HIDE DEF last
<1>7. K \subseteq Ids
  OBVIOUS
<1> HIDE DEF K
<1>8. DOMAIN m = K /\ m \in [K -> Ent(f)]
  BY <1>1, <1>4
<1>9. \A k \in K : m[k] = s[last(k)]
  OBVIOUS
<1> HIDE DEF m, n
<1>10. LET x == Map(m) IN x.items = m /\ x.shape = "map" /\ IsVal(f, x)
  BY <1>6, <1>7, <1>8 DEF Map, IsVal
<1> QED
  BY <1>2, <1>4, <1>5, <1>8, <1>9, <1>10

-----------------------------------------------------------------------------
(* A field as it is loaded: brought to its shape, its statuses put into the *)
(* words of this program, those that are missing filled in.                 *)

Shaped(f, v) ==
    CASE f \in {"posting", "wizard"} -> SessionList(v)
      [] f \in {"inbound", "target"} -> SessionMap(v)
      [] f = "queue" -> QueueList(v)
      [] f = "digest" -> DigestList(v)
      [] f = "plain" -> PlainList(v)

Sessions == {"posting", "wizard", "inbound", "target", "queue"}

\* The names and, of each name, the statuses of one value are those of the other.
Same(f, v, w) ==
    /\ \A j \in DOMAIN w.items : \E i \in DOMAIN v.items :
          /\ NameIn(f, w, j) = NameIn(f, v, i)
          /\ v.items[i].plain => /\ w.items[j].plain
                                 /\ w.items[j].status = v.items[i].status
                                 /\ w.items[j].phase = v.items[i].phase
    /\ \A i \in DOMAIN v.items : NameIn(f, v, i) # NoName =>
          \E j \in DOMAIN w.items : NameIn(f, w, j) = NameIn(f, v, i)

WellShaped(f, v, w) ==
    /\ IsVal(f, w) /\ w.shape # "missing"
    /\ f \in {"posting", "wizard", "digest"} => w.shape = "list"
    /\ f \in {"inbound", "target"} => w.shape = "map"
    /\ f \in Sessions => Same(f, v, w)

LEMMA SameItself ==
    ASSUME NEW f, NEW v
    PROVE  Same(f, v, v)
BY DEF Same

LEMMA SameEmpty ==
    ASSUME NEW f, NEW v, NEW w, DOMAIN v.items = {}, DOMAIN w.items = {}
    PROVE  Same(f, v, w)
BY DEF Same

\* A name is the key of a map that stays one, else the id.
LEMMA NameFacts ==
    ASSUME NEW f, NEW v, NEW i
    PROVE  /\ v.shape # "map" => NameIn(f, v, i) = v.items[i].own
           /\ v.shape = "map" /\ f \in {"inbound", "target"} => NameIn(f, v, i) = i
           /\ v.shape = "map" /\ f \notin {"inbound", "target"} =>
                NameIn(f, v, i) = IF v.items[i].own = NoName THEN i ELSE v.items[i].own
BY DEF NameIn

LEMMA SameList ==
    ASSUME NEW f \in Fields \ {"inbound", "target"}, NEW v, IsVal(f, v), v.shape = "map"
    PROVE  IsVal(f, AsList(v.items)) /\ AsList(v.items).shape = "list"
           /\ Same(f, v, AsList(v.items))
<1> DEFINE l == AsList(v.items)
<1>1. /\ IsVal(f, l) /\ l.shape = "list"
      /\ \A j \in DOMAIN l.items : \E i \in DOMAIN v.items : l.items[j] = WithId(v.items[i], i)
      /\ \A i \in DOMAIN v.items : \E j \in DOMAIN l.items : l.items[j] = WithId(v.items[i], i)
  BY ListOfMap
<1> HIDE DEF l
<1>2. ASSUME NEW i \in DOMAIN v.items, NEW j \in DOMAIN l.items,
             l.items[j] = WithId(v.items[i], i)
      PROVE  /\ NameIn(f, l, j) = NameIn(f, v, i)
             /\ l.items[j].plain /\ l.items[j].status = v.items[i].status
             /\ l.items[j].phase = v.items[i].phase
  <2>1. v.items[i] \in Ent(f)
    BY ItemFacts
  <2>2. /\ l.items[j].own = (IF v.items[i].own = NoName THEN i ELSE v.items[i].own)
        /\ l.items[j].plain /\ l.items[j].status = v.items[i].status
        /\ l.items[j].phase = v.items[i].phase
    BY <1>2, <2>1 DEF WithId, Ent
  <2> QED
    BY <1>1, <2>2, NameFacts
<1>3. Same(f, v, l)
  BY <1>1, <1>2 DEF Same
<1> QED
  BY <1>1, <1>3 DEF l

LEMMA SameMap ==
    ASSUME NEW f \in {"inbound", "target"}, NEW v, IsVal(f, v), v.shape = "list"
    PROVE  IsVal(f, AsMap(v.items)) /\ AsMap(v.items).shape = "map"
           /\ Same(f, v, AsMap(v.items))
<1> DEFINE m == AsMap(v.items)
<1>0. f \in Fields
  BY DEF Fields
<1>1. /\ IsVal(f, m) /\ m.shape = "map"
      /\ \A k \in DOMAIN m.items : m.items[k].own = k /\ m.items[k].plain
      /\ \A k \in Ids : k \in DOMAIN m.items <=>
            \E i \in DOMAIN v.items : v.items[i].own = k
      /\ \A k \in DOMAIN m.items : \E i \in DOMAIN v.items : m.items[k] = v.items[i]
  BY <1>0, MapOfList
<1> HIDE DEF m
<1>2. /\ \A k \in DOMAIN m.items : NameIn(f, m, k) = k
      /\ \A i \in DOMAIN v.items : NameIn(f, v, i) = v.items[i].own
  BY <1>1, NameFacts
<1>3. \A i \in DOMAIN v.items : v.items[i].own \in Ids \cup {NoName}
  BY ItemFacts, EntFacts
<1>4. Same(f, v, m)
  BY <1>1, <1>2, <1>3 DEF Same
<1> QED
  BY <1>1, <1>4 DEF m

LEMMA Shapes ==
    ASSUME NEW f \in Fields, NEW v, IsVal(f, v)
    PROVE  WellShaped(f, v, Shaped(f, v))
<1>1. /\ v.shape \in {"missing", "scalar", "list", "map"}
      /\ v.shape \in {"missing", "scalar"} => DOMAIN v.items = {}
  BY Empty DEF IsVal
<1>2. /\ IsVal(f, List(<<>>)) /\ List(<<>>).shape = "list" /\ DOMAIN List(<<>>).items = {}
      /\ IsVal(f, Map(<<>>)) /\ Map(<<>>).shape = "map" /\ DOMAIN Map(<<>>).items = {}
  BY Empty DEF List, Map
<1>3. CASE f \in {"posting", "wizard"}
  <2>1. Shaped(f, v) = SessionList(v)
    BY <1>3 DEF Shaped
  <2>2. CASE v.shape = "map"
    BY <1>3, <2>1, <2>2, SameList DEF SessionList, WellShaped
  <2>3. CASE v.shape = "list"
    BY <1>3, <2>1, <2>3, SameItself DEF SessionList, WellShaped
  <2>4. CASE v.shape \in {"missing", "scalar"}
    BY <1>1, <1>2, <1>3, <2>1, <2>4, SameEmpty DEF SessionList, WellShaped
  <2> QED
    BY <1>1, <2>2, <2>3, <2>4
<1>4. CASE f \in {"inbound", "target"}
  <2>1. Shaped(f, v) = SessionMap(v)
    BY <1>4 DEF Shaped
  <2>2. CASE v.shape = "list"
    BY <1>4, <2>1, <2>2, SameMap DEF SessionMap, WellShaped
  <2>3. CASE v.shape = "map"
    BY <1>4, <2>1, <2>3, SameItself DEF SessionMap, WellShaped
  <2>4. CASE v.shape \in {"missing", "scalar"}
    BY <1>1, <1>2, <1>4, <2>1, <2>4, SameEmpty DEF SessionMap, WellShaped
  <2> QED
    BY <1>1, <2>2, <2>3, <2>4
<1>5. CASE f = "queue"
  <2>1. Shaped(f, v) = QueueList(v)
    BY <1>5 DEF Shaped
  <2>2. CASE v.shape = "map"
    BY <1>5, <2>1, <2>2, SameList DEF QueueList, WellShaped
  <2>3. CASE v.shape \in {"list", "scalar"}
    BY <1>5, <2>1, <2>3, SameItself DEF QueueList, WellShaped
  <2>4. CASE v.shape = "missing"
    BY <1>1, <1>2, <1>5, <2>1, <2>4, SameEmpty DEF QueueList, WellShaped
  <2> QED
    BY <1>1, <2>2, <2>3, <2>4
<1>6. CASE f = "digest"
  BY <1>1, <1>2, <1>6 DEF Shaped, DigestList, WellShaped, Sessions
<1>7. CASE f = "plain"
  BY <1>1, <1>2, <1>7 DEF Shaped, PlainList, WellShaped, Sessions
<1> QED
  BY <1>3, <1>4, <1>5, <1>6, <1>7 DEF Fields

\* The words of the Python program, put into those of this one.
Remap(f, s) ==
    CASE f = "posting" -> PostingRemap(s)
      [] f = "target" -> TargetRemap(s)
      [] OTHER -> s

\* The value m says of each entry of w what is left to say after the remap.
Remapped(f, w, m) ==
    /\ m.shape = w.shape /\ DOMAIN m.items = DOMAIN w.items
    /\ \A i \in DOMAIN w.items :
          /\ NameIn(f, m, i) = NameIn(f, w, i)
          /\ w.items[i].plain => /\ m.items[i].plain
                                 /\ m.items[i].status = Remap(f, w.items[i].status)
                                 /\ m.items[i].phase = w.items[i].phase
          /\ w.items[i].plain /\ w.items[i].own # NoName => m.items[i].own = w.items[i].own
          /\ ~w.items[i].plain => m.items[i] = w.items[i]

LEMMA StatusWords ==
    ASSUME NEW f \in Fields, NEW s \in Statuses[f] \cup Known[f] \cup {""}
    PROVE  /\ Remap(f, s) \in Statuses[f] \cup Known[f] \cup {""}
           /\ f = "target" => Remap(f, s) # "operator_escalated"
           /\ s \in Known[f] =>
                Remap(f, s) = IF f = "target" /\ s = "operator_escalated" THEN "open" ELSE s
<1>1. CASE f = "posting"
  BY <1>1, Tables DEF Remap, PostingRemap, PostingStates, Statuses
<1>2. CASE f = "target"
  BY <1>2, Tables DEF Remap, TargetRemap, TargetStatuses, Statuses
<1>3. CASE f \notin {"posting", "target"}
  BY <1>3 DEF Remap
<1> QED
  BY <1>1, <1>2, <1>3

LEMMA ReplacedFacts ==
    ASSUME NEW f, NEW v, IsVal(f, v), NEW items, DOMAIN items = DOMAIN v.items,
           items = [i \in DOMAIN items |-> items[i]],
           \A i \in DOMAIN v.items : v.items[i].plain => items[i] \in Ent(f)
    PROVE  LET m == Replaced(v, items) IN
           /\ IsVal(f, m) /\ m.shape = v.shape /\ DOMAIN m.items = DOMAIN v.items
           /\ \A i \in DOMAIN v.items :
                 m.items[i] = IF v.items[i].plain THEN items[i] ELSE v.items[i]
<1> DEFINE r == [i \in DOMAIN v.items |-> IF v.items[i].plain THEN items[i] ELSE v.items[i]]
           m == Replaced(v, items)
<1>1. \A i \in DOMAIN v.items : r[i] \in Ent(f) /\ v.items[i] \in Ent(f)
  BY ItemFacts
<1>2. m = [v EXCEPT !.items = r]
  BY DEF Replaced
<1>3. v = [shape |-> v.shape, items |-> v.items]
  BY DEF IsVal
<1> HIDE DEF r
<1>4. m = [shape |-> v.shape, items |-> r]
  BY <1>2, <1>3
<1>5. m.shape = v.shape /\ m.items = r /\ DOMAIN r = DOMAIN v.items
  BY <1>4 DEF r
<1> HIDE DEF m
<1>6. IsVal(f, m)
  <2>1. m = [shape |-> m.shape, items |-> m.items]
    BY <1>4, <1>5
  <2>2. r = [i \in DOMAIN r |-> r[i]]
    BY DEF r
  <2>3. r \in [DOMAIN r -> Ent(f)]
    BY <1>1, <1>5, <2>2
  <2>4. CASE v.shape \in {"missing", "scalar"}
    <3>1. DOMAIN r = {}
      BY <1>5, <2>4, Empty DEF IsVal
    <3>2. r = <<>>
      BY <2>2, <3>1
    <3> QED
      BY <1>5, <2>1, <2>4, <3>2 DEF IsVal
  <2>5. CASE v.shape = "list"
    <3>1. v.items \in Seq(Ent(f)) /\ DOMAIN v.items = 1 .. Len(v.items)
      BY <2>5 DEF IsVal
    <3>2. r \in Seq(Ent(f))
      BY <1>5, <2>3, <3>1
    <3> QED
      BY <1>5, <2>1, <2>5, <3>2 DEF IsVal
  <2>6. CASE v.shape = "map"
    BY <1>5, <2>1, <2>3, <2>6 DEF IsVal
  <2> QED
    BY <2>4, <2>5, <2>6 DEF IsVal
<1> QED
  BY <1>5, <1>6 DEF m, r

LEMMA Migrating ==
    ASSUME NEW f \in Fields, NEW v, IsVal(f, v)
    PROVE  /\ IsVal(f, MigratedField(f, v))
           /\ Remapped(f, Shaped(f, v), MigratedField(f, v))
<1> DEFINE w == Shaped(f, v)
           m == MigratedField(f, v)
<1>1. WellShaped(f, v, w)
  BY Shapes
<1>2. \A i \in DOMAIN w.items : w.items[i] \in Ent(f)
  BY <1>1, ItemFacts DEF WellShaped
<1>3. \A i \in DOMAIN w.items :
        Remap(f, w.items[i].status) \in Statuses[f] \cup Known[f] \cup {""}
  BY <1>2, EntFacts, StatusWords
<1>4. CASE f = "posting"
  <2> DEFINE items == [i \in DOMAIN w.items |-> [w.items[i] EXCEPT !.status = PostingRemap(@)]]
  <2>1. m = Replaced(w, items)
    BY <1>4 DEF MigratedField, RemapPosting, Shaped
  <2>2. \A i \in DOMAIN w.items : /\ items[i] \in Ent(f)
                                  /\ items[i].own = w.items[i].own
                                  /\ items[i].plain <=> w.items[i].plain
                                  /\ items[i].status = Remap(f, w.items[i].status)
                                  /\ items[i].phase = w.items[i].phase
    <3> SUFFICES ASSUME NEW i \in DOMAIN w.items
                 PROVE  /\ items[i] \in Ent(f)
                        /\ items[i].own = w.items[i].own
                        /\ items[i].plain <=> w.items[i].plain
                        /\ items[i].status = Remap(f, w.items[i].status)
                        /\ items[i].phase = w.items[i].phase
      OBVIOUS
    <3>1. w.items[i] \in Ent(f)
      BY <1>2
    <3>2. Remap(f, w.items[i].status) \in Statuses[f] \cup Known[f] \cup {""}
      BY <1>3
    <3>3. items[i] = [w.items[i] EXCEPT !.status = Remap(f, w.items[i].status)]
      BY <1>4 DEF Remap
    <3>4. f # "target"
      BY <1>4
    <3>5. Restated(f, w.items[i], items[i], Remap(f, w.items[i].status))
      <4> DEFINE e == w.items[i]
                 s == Remap(f, e.status)
      <4>1. e \in Ent(f) /\ s \in Statuses[f] \cup Known[f] \cup {""}
        BY <3>1, <3>2
      <4>2. items[i] = [e EXCEPT !.status = s]
        BY <3>3
      <4> HIDE DEF items, w, s, e
      <4>3. Restated(f, e, [e EXCEPT !.status = s], s)
        BY <3>4, <4>1, EntTold
      <4>4. Restated(f, e, items[i], s)
        BY <4>2, <4>3
      <4> QED
        BY <4>4 DEF e, s
    <3> HIDE DEF items, w
    <3> QED
      BY <3>5 DEF Restated
  <2> HIDE DEF w
  <2>3. DOMAIN items = DOMAIN w.items /\ items = [i \in DOMAIN items |-> items[i]]
    OBVIOUS
  <2> HIDE DEF items, m
  <2>4. /\ IsVal(f, m) /\ m.shape = w.shape /\ DOMAIN m.items = DOMAIN w.items
        /\ \A i \in DOMAIN w.items :
              m.items[i] = IF w.items[i].plain THEN items[i] ELSE w.items[i]
    BY <1>1, <2>1, <2>2, <2>3, ReplacedFacts DEF WellShaped
  <2>5. w.shape = "list"
    BY <1>1, <1>4 DEF WellShaped
  <2>6. \A i \in DOMAIN w.items : NameIn(f, m, i) = NameIn(f, w, i)
    BY <2>2, <2>4, <2>5, NameFacts
  <2> QED
    BY <2>2, <2>4, <2>6 DEF Remapped, w, m
<1>5. CASE f = "target"
  <2> DEFINE items == [k \in DOMAIN w.items |->
                          [WithId(w.items[k], k) EXCEPT !.status = TargetRemap(@)]]
  <2>1. m = Replaced(w, items)
    BY <1>5 DEF MigratedField, RemapTarget, Shaped
  <2>2. w.shape = "map" /\ DOMAIN w.items \subseteq Ids
    BY <1>1, <1>5 DEF WellShaped, IsVal
  <2>3. \A i \in DOMAIN w.items : /\ w.items[i].plain => items[i] \in Ent(f)
                                  /\ w.items[i].own # NoName => items[i].own = w.items[i].own
                                  /\ items[i].plain
                                  /\ items[i].status = Remap(f, w.items[i].status)
                                  /\ items[i].phase = w.items[i].phase
    <3> SUFFICES ASSUME NEW i \in DOMAIN w.items
                 PROVE  /\ w.items[i].plain => items[i] \in Ent(f)
                        /\ w.items[i].own # NoName => items[i].own = w.items[i].own
                        /\ items[i].plain
                        /\ items[i].status = Remap(f, w.items[i].status)
                        /\ items[i].phase = w.items[i].phase
      OBVIOUS
    <3>1. w.items[i] \in Ent(f) /\ i \in Ids
      BY <1>2, <2>2
    <3>2. Remap(f, w.items[i].status) # "operator_escalated"
      BY <1>5, <3>1, EntFacts, StatusWords
    <3>3. Remap(f, w.items[i].status) = TargetRemap(w.items[i].status)
      BY <1>5 DEF Remap
    <3>4. items[i] = [own |-> IF w.items[i].own = NoName THEN i ELSE w.items[i].own,
                      plain |-> TRUE, status |-> Remap(f, w.items[i].status),
                      phase |-> w.items[i].phase]
      BY <3>1, <3>3 DEF WithId, Ent
    <3>5. Remap(f, w.items[i].status) \in Statuses[f] \cup Known[f] \cup {""}
      BY <1>3
    <3> HIDE DEF items, w
    <3>6. items[i] \in Ent(f)
      <4>1. /\ (IF w.items[i].own = NoName THEN i ELSE w.items[i].own) \in Ids \cup {NoName}
            /\ w.items[i].phase \in {"", "open", "operator_escalated"}
        BY <3>1, EntFacts
      <4> DEFINE own == IF w.items[i].own = NoName THEN i ELSE w.items[i].own
                 status == Remap(f, w.items[i].status)
                 phase == w.items[i].phase
      <4>2. items[i] = [own |-> own, plain |-> TRUE, status |-> status, phase |-> phase]
        BY <3>4
      <4>3. /\ own \in Ids \cup {NoName} /\ phase \in {"", "open", "operator_escalated"}
            /\ status \in Statuses[f] \cup Known[f] \cup {""} /\ status # "operator_escalated"
        BY <3>2, <3>5, <4>1
      <4> HIDE DEF own, status, phase
      <4>4. [own |-> own, plain |-> TRUE, status |-> status, phase |-> phase] \in Ent(f)
        BY <4>3, EntOf
      <4> QED
        BY <4>2, <4>4
    <3> QED
      BY <3>4, <3>6
  <2> HIDE DEF w
  <2>4. DOMAIN items = DOMAIN w.items /\ items = [i \in DOMAIN items |-> items[i]]
    OBVIOUS
  <2> HIDE DEF items, m
  <2>5. /\ IsVal(f, m) /\ m.shape = w.shape /\ DOMAIN m.items = DOMAIN w.items
        /\ \A i \in DOMAIN w.items :
              m.items[i] = IF w.items[i].plain THEN items[i] ELSE w.items[i]
    BY <1>1, <2>1, <2>3, <2>4, ReplacedFacts DEF WellShaped
  <2>6. \A i \in DOMAIN w.items : NameIn(f, m, i) = NameIn(f, w, i)
    BY <1>5, <2>2, <2>5, NameFacts
  <2> QED
    BY <2>3, <2>5, <2>6 DEF Remapped, w, m
<1>6. CASE f \notin {"posting", "target"}
  <2>1. m = w
    BY <1>6 DEF MigratedField, Shaped, Fields
  <2>2. \A s : Remap(f, s) = s
    BY <1>6 DEF Remap
  <2> QED
    BY <1>1, <2>1, <2>2 DEF Remapped, WellShaped
<1> QED
  BY <1>4, <1>5, <1>6

\* The value p is w with the statuses that are missing filled in.
Filled(f, w, p) ==
    /\ p.shape = w.shape /\ DOMAIN p.items = DOMAIN w.items
    /\ \A i \in DOMAIN w.items :
          /\ NameIn(f, p, i) = NameIn(f, w, i)
          /\ w.items[i].plain =>
               Restated(f, w.items[i], p.items[i],
                        IF w.items[i].status = "" THEN Default[f] ELSE w.items[i].status)
          /\ ~w.items[i].plain => p.items[i] = w.items[i]

\* Of a value in its right shape the schema sees just that.
LEMMA Prepares ==
    ASSUME NEW f \in Fields, NEW w, w.shape = ShapeOf(f)
    PROVE  Prepared(f, w) = w
BY DEF Prepared, ShapeOf, SessionList, SessionMap, Fields

LEMMA AcceptFacts ==
    ASSUME NEW f \in Fields, NEW w, w.shape = ShapeOf(f)
    PROVE  AcceptsField(f, w) <=>
             (f # "plain" =>
                \A i \in DOMAIN w.items : /\ w.items[i].plain
                                          /\ f # "inbound" => w.items[i].own # NoName
                                          /\ w.items[i].status \in Known[f] \cup {""})
<1>1. Prepared(f, w) = w
  BY Prepares
<1> QED
  BY <1>1 DEF AcceptsField, Items, ShapeOf

LEMMA Parsing ==
    ASSUME NEW f \in Fields, NEW w, IsVal(f, w), w.shape = ShapeOf(f), AcceptsField(f, w)
    PROVE  /\ Clean(f, ParsedField(f, w))
           /\ Filled(f, w, ParsedField(f, w))
<1> DEFINE told(i) == IF w.items[i].status = "" THEN Default[f] ELSE w.items[i].status
           items == [i \in DOMAIN w.items |->
                        [w.items[i] EXCEPT !.status = IF @ = "" THEN Default[f] ELSE @]]
           p == ParsedField(f, w)
<1>1. Prepared(f, w) = w
  BY Prepares
<1>2. p = Replaced(w, items)
  BY <1>1 DEF ParsedField
<1>3. \A i \in DOMAIN w.items : Restated(f, w.items[i], items[i], told(i))
  <2> SUFFICES ASSUME NEW i \in DOMAIN w.items
               PROVE  Restated(f, w.items[i], items[i], told(i))
    OBVIOUS
  <2> DEFINE e == w.items[i]
             s == told(i)
  <2>1. e \in Ent(f)
    BY ItemFacts
  <2>2. s \in Statuses[f] \cup Known[f] \cup {""}
    BY <2>1, EntFacts, Defaults
  <2>3. items[i] = [e EXCEPT !.status = s]
    OBVIOUS
  <2>4. f = "target" /\ s = "operator_escalated" => e.phase = "operator_escalated"
    BY <2>1, EntFacts, Tables
  <2> HIDE DEF e, s, items
  <2>5. Restated(f, e, [e EXCEPT !.status = s], s)
    BY <2>1, <2>2, <2>4, EntTold
  <2>6. Restated(f, e, items[i], s)
    BY <2>3, <2>5
  <2> QED
    BY <2>6 DEF e, s
<1>4. DOMAIN items = DOMAIN w.items /\ items = [i \in DOMAIN items |-> items[i]]
  OBVIOUS
<1> HIDE DEF items, p
<1>5. /\ IsVal(f, p) /\ p.shape = w.shape /\ DOMAIN p.items = DOMAIN w.items
      /\ \A i \in DOMAIN w.items :
            p.items[i] = IF w.items[i].plain THEN items[i] ELSE w.items[i]
  <2>1. \A i \in DOMAIN w.items : w.items[i].plain => items[i] \in Ent(f)
    BY <1>3 DEF Restated
  <2> QED
    BY <1>2, <1>4, <2>1, ReplacedFacts
<1>6. \A i \in DOMAIN w.items : NameIn(f, p, i) = NameIn(f, w, i)
  <2>1. \A i \in DOMAIN w.items : p.items[i].own = w.items[i].own
    BY <1>3, <1>5 DEF Restated
  <2> QED
    BY <1>5, <2>1 DEF NameIn
<1>7. Filled(f, w, p)
  BY <1>3, <1>5, <1>6 DEF Filled
<1>8. Clean(f, p)
  <2> SUFFICES ASSUME NEW i \in DOMAIN w.items
               PROVE  /\ p.items[i].plain => p.items[i].status # ""
                      /\ f # "plain" => /\ p.items[i].plain /\ p.items[i].status \in Known[f]
                                        /\ f # "inbound" => p.items[i].own # NoName
    BY <1>5 DEF Clean
  <2>1. told(i) # ""
    BY Defaults
  <2>2. f # "plain" => /\ w.items[i].plain
                       /\ f # "inbound" => w.items[i].own # NoName
                       /\ w.items[i].status \in Known[f] \cup {""}
    BY AcceptFacts
  <2>3. f # "plain" => told(i) \in Known[f]
    BY <2>2, Defaults
  <2>4. /\ w.items[i].plain => Restated(f, w.items[i], p.items[i], told(i))
        /\ ~w.items[i].plain => p.items[i] = w.items[i]
    BY <1>7 DEF Filled
  <2> HIDE DEF told
  <2> QED
    BY <2>1, <2>2, <2>3, <2>4 DEF Restated
<1> QED
  BY <1>7, <1>8 DEF p

\* A value as a reader is handed it: no tweet is up as given up.
Fixed(f, v) ==
    /\ Clean(f, v)
    /\ f = "target" => \A i \in DOMAIN v.items : v.items[i].status # "operator_escalated"

LoadedField(f, v) == ParsedField(f, MigratedField(f, v))

LEMMA EntSame ==
    ASSUME NEW f, NEW e \in Ent(f), NEW d, Restated(f, e, d, e.status)
    PROVE  d = e
<1>1. /\ d = [own |-> d.own, plain |-> d.plain, status |-> d.status, phase |-> d.phase]
      /\ e = [own |-> e.own, plain |-> e.plain, status |-> e.status, phase |-> e.phase]
      /\ e.plain \in BOOLEAN /\ d.plain \in BOOLEAN
  BY EntFacts DEF Restated
<1>2. d.own = e.own /\ d.status = e.status /\ d.phase = e.phase
  BY DEF Restated
<1>3. d.plain = e.plain
  BY <1>1 DEF Restated
<1> QED
  BY <1>1, <1>2, <1>3

LEMMA ValueSame ==
    ASSUME NEW f, NEW v, NEW w, IsVal(f, v), IsVal(f, w), w.shape = v.shape,
           v.shape \in {"list", "map"}, DOMAIN w.items = DOMAIN v.items,
           \A i \in DOMAIN v.items : w.items[i] = v.items[i]
    PROVE  w = v
<1>1. /\ v = [shape |-> v.shape, items |-> v.items]
      /\ w = [shape |-> w.shape, items |-> w.items]
  BY DEF IsVal
<1>2. /\ v.items = [i \in DOMAIN v.items |-> v.items[i]]
      /\ w.items = [i \in DOMAIN w.items |-> w.items[i]]
  BY DEF IsVal
<1>3. w.items = v.items
  BY <1>2
<1> QED
  BY <1>1, <1>3

LEMMA ShapeAfter ==
    ASSUME NEW f \in Fields, NEW v, IsVal(f, v), AcceptsField(f, MigratedField(f, v))
    PROVE  MigratedField(f, v).shape = ShapeOf(f)
<1> DEFINE m == MigratedField(f, v)
           p == Prepared(f, m)
<1>1. p.shape = ShapeOf(f)
  BY DEF AcceptsField, ShapeOf
<1>2. WellShaped(f, v, Shaped(f, v)) /\ m.shape = Shaped(f, v).shape
  BY Shapes, Migrating DEF Remapped
<1> HIDE DEF m
<1>3. CASE f \in {"posting", "wizard", "digest"}
  <2>1. m.shape = "list"
    BY <1>2, <1>3 DEF WellShaped
  <2> QED
    BY <1>3, <2>1 DEF ShapeOf, m
<1>5. CASE f \in {"inbound", "target"}
  <2>1. m.shape = "map"
    BY <1>2, <1>5 DEF WellShaped
  <2> QED
    BY <1>5, <2>1 DEF ShapeOf, m
<1>4. CASE f \in {"queue", "plain"}
  <2>1. p = m
    BY <1>2, <1>4 DEF WellShaped, Prepared
  <2> QED
    BY <1>1, <2>1 DEF m
<1> QED
  BY <1>3, <1>4, <1>5 DEF Fields

LEMMA FieldFixed ==
    ASSUME NEW f \in Fields, NEW v, IsVal(f, v), AcceptsField(f, MigratedField(f, v))
    PROVE  Fixed(f, LoadedField(f, v))
<1> DEFINE w == Shaped(f, v)
           m == MigratedField(f, v)
           p == LoadedField(f, v)
<1>1. m.shape = ShapeOf(f) /\ IsVal(f, m) /\ Remapped(f, w, m)
  BY ShapeAfter, Migrating
<1>2. Clean(f, p) /\ Filled(f, m, p)
  BY <1>1, Parsing DEF LoadedField
<1>3. ASSUME f = "target", NEW i \in DOMAIN p.items
      PROVE  p.items[i].status # "operator_escalated"
  <2>1. i \in DOMAIN m.items /\ i \in DOMAIN w.items
    BY <1>1, <1>2 DEF Filled, Remapped
  <2>2. m.items[i].plain
    BY <1>1, <1>3, <2>1, AcceptFacts
  <2>3. w.items[i].plain
    BY <1>1, <2>1, <2>2 DEF Remapped
  <2>4. w.items[i] \in Ent(f)
    BY <2>1, Shapes, ItemFacts DEF WellShaped
  <2>5. m.items[i].status # "operator_escalated"
    <3>1. m.items[i].status = Remap(f, w.items[i].status)
      BY <1>1, <2>1, <2>3 DEF Remapped
    <3>2. w.items[i].status \in Statuses[f] \cup Known[f] \cup {""}
      BY <2>4, EntFacts
    <3>3. Remap(f, w.items[i].status) # "operator_escalated"
      BY <1>3, <3>2, StatusWords
    <3> QED
      BY <3>1, <3>3
  <2>6. Restated(f, m.items[i], p.items[i],
                 IF m.items[i].status = "" THEN Default[f] ELSE m.items[i].status)
    BY <1>2, <2>1, <2>2 DEF Filled
  <2> HIDE DEF w, m, p
  <2> QED
    BY <1>3, <2>5, <2>6, Tables DEF Restated
<1> QED
  BY <1>2, <1>3 DEF Fixed

LEMMA CleanSame ==
    ASSUME NEW f \in Fields, NEW v, Clean(f, v)
    PROVE  AcceptsField(f, v) /\ ParsedField(f, v) = v
<1> DEFINE p == ParsedField(f, v)
<1>1. IsVal(f, v) /\ v.shape = ShapeOf(f) /\ v.shape \in {"list", "map"}
  BY DEF Clean, ShapeOf
<1>2. AcceptsField(f, v)
  BY <1>1, AcceptFacts DEF Clean
<1>3. Clean(f, p) /\ Filled(f, v, p)
  BY <1>1, <1>2, Parsing
<1> HIDE DEF p
<1>4. ASSUME NEW i \in DOMAIN v.items
      PROVE  p.items[i] = v.items[i]
  <2>1. CASE v.items[i].plain
    <3>1. v.items[i].status # "" /\ v.items[i] \in Ent(f)
      BY <1>1, <2>1, ItemFacts DEF Clean
    <3>2. Restated(f, v.items[i], p.items[i], v.items[i].status)
      BY <1>3, <2>1, <3>1 DEF Filled
    <3> QED
      BY <3>1, <3>2, EntSame
  <2>2. CASE ~v.items[i].plain
    BY <1>3, <2>2 DEF Filled
  <2> QED
    BY <2>1, <2>2
<1>5. p = v
  BY <1>1, <1>3, <1>4, ValueSame DEF Clean, Filled
<1> QED
  BY <1>2, <1>5 DEF p

\* The shape a value is written in is not changed when it is read.
LEMMA CleanShaped ==
    ASSUME NEW f \in Fields, NEW v, Clean(f, v)
    PROVE  Shaped(f, v) = v
BY DEF Clean, ShapeOf, Shaped, SessionList, SessionMap, QueueList, DigestList, PlainList, Fields

\* The value p is v after the remap, entry by entry.
Settles(f, v, p) ==
    /\ p.shape = v.shape /\ DOMAIN p.items = DOMAIN v.items
    /\ \A i \in DOMAIN v.items :
          /\ NameIn(f, p, i) = NameIn(f, v, i)
          /\ v.items[i].plain =>
               /\ p.items[i].plain /\ p.items[i].phase = v.items[i].phase
               /\ p.items[i].status = Remap(f, v.items[i].status)

LEMMA CleanLoads ==
    ASSUME NEW f \in Fields, NEW v, Clean(f, v)
    PROVE  /\ AcceptsField(f, MigratedField(f, v))
           /\ f # "plain" => Settles(f, v, LoadedField(f, v))
<1> DEFINE m == MigratedField(f, v)
           p == LoadedField(f, v)
<1>1. IsVal(f, v) /\ v.shape = ShapeOf(f)
  BY DEF Clean
<1>2. Remapped(f, v, m) /\ IsVal(f, m)
  BY <1>1, Migrating, CleanShaped
<1>3. m.shape = ShapeOf(f)
  BY <1>1, <1>2 DEF Remapped
<1> HIDE DEF m
<1>4. ASSUME f # "plain", NEW i \in DOMAIN v.items
      PROVE  /\ v.items[i].plain /\ m.items[i].plain
             /\ f # "inbound" => m.items[i].own # NoName
             /\ m.items[i].status = Remap(f, v.items[i].status)
             /\ m.items[i].status \in Known[f] /\ m.items[i].status # ""
  <2>1. /\ v.items[i].plain /\ v.items[i].status \in Known[f]
        /\ f # "inbound" => v.items[i].own # NoName
    BY <1>4 DEF Clean
  <2>2. /\ m.items[i].plain /\ m.items[i].status = Remap(f, v.items[i].status)
        /\ v.items[i].own # NoName => m.items[i].own = v.items[i].own
    BY <1>2, <1>4, <2>1 DEF Remapped
  <2>3. Remap(f, v.items[i].status) \in Known[f]
    <3>1. "open" \in Known["target"]
      BY Tables DEF TargetStatuses
    <3> QED
      BY <2>1, <3>1, StatusWords
  <2>4. f # "inbound" => m.items[i].own # NoName
    BY <2>1, <2>2
  <2> QED
    BY <2>1, <2>2, <2>3, <2>4, Defaults
<1>5. AcceptsField(f, m)
  BY <1>2, <1>3, <1>4, AcceptFacts DEF Remapped
<1>6. Filled(f, m, p)
  BY <1>2, <1>3, <1>5, Parsing DEF LoadedField, m
<1> HIDE DEF p
<1>7. ASSUME f # "plain"
      PROVE  Settles(f, v, p)
  <2>1. ASSUME NEW i \in DOMAIN v.items
        PROVE  Restated(f, m.items[i], p.items[i], m.items[i].status)
    BY <1>2, <1>4, <1>6, <1>7, <2>1 DEF Filled, Remapped
  <2>2. ASSUME NEW i \in DOMAIN v.items
        PROVE  /\ p.items[i].plain /\ p.items[i].phase = v.items[i].phase
               /\ p.items[i].status = Remap(f, v.items[i].status)
    BY <1>2, <1>4, <1>7, <2>1, <2>2 DEF Remapped, Restated
  <2> QED
    BY <1>2, <1>6, <2>2 DEF Settles, Filled, Remapped
<1> QED
  BY <1>5, <1>7 DEF m, p

LEMMA FixedSame ==
    ASSUME NEW f \in Fields, NEW v, Fixed(f, v)
    PROVE  MigratedField(f, v) = v
<1>1. Clean(f, v) /\ IsVal(f, v) /\ Shaped(f, v) = v
  BY CleanShaped DEF Fixed, Clean
<1>2. CASE f \in {"posting", "target"}
  <2> DEFINE m == MigratedField(f, v)
  <2>1. Remapped(f, v, m) /\ IsVal(f, m)
    BY <1>1, Migrating
  <2> HIDE DEF m
  <2>2. ASSUME NEW i \in DOMAIN v.items
        PROVE  m.items[i] = v.items[i]
    <3>1. /\ v.items[i].plain /\ v.items[i].status \in Known[f] /\ v.items[i].own # NoName
          /\ v.items[i] \in Ent(f) /\ m.items[i] \in Ent(f)
      BY <1>1, <1>2, <2>1, ItemFacts DEF Clean, Remapped
    <3>2. Remap(f, v.items[i].status) = v.items[i].status
      BY <3>1, StatusWords DEF Fixed
    <3>3. Restated(f, v.items[i], m.items[i], v.items[i].status)
      BY <2>1, <3>1, <3>2 DEF Remapped, Restated
    <3> QED
      BY <3>1, <3>3, EntSame
  <2>3. v.shape \in {"list", "map"}
    BY <1>1 DEF Clean, ShapeOf
  <2>4. m = v
    BY <1>1, <2>1, <2>2, <2>3, ValueSame DEF Remapped
  <2> QED
    BY <2>4 DEF m
<1>3. CASE f \notin {"posting", "target"}
  BY <1>1, <1>3 DEF MigratedField, Shaped, Fields
<1> QED
  BY <1>2, <1>3

-----------------------------------------------------------------------------
(* What is found is what was there.                                         *)

LEMMA DoneIsDone ==
    ASSUME NEW f \in Sessions, NEW e \in Ent(f), Done(f, e), NEW d, d.phase = e.phase,
           d.status = Remap(f, e.status) \/ Remap(f, e.status) = ""
    PROVE  ~UpForWork(f, d)
<1>1. e.status \in Statuses[f] \cup Known[f] \cup {""}
  BY EntFacts
<1>2. CASE f = "posting"
  <2>1. e.status \in {"published", "failed_terminal", "expired", "completed", "failed", "cancelled"}
    BY <1>1, <1>2, Tables DEF Done, UpForWork, Statuses, PostingStates, DoneInPython
  <2>2. d.status \in {"published", "failed_terminal", "expired"}
    BY <1>2, <2>1 DEF Remap, PostingRemap
  <2> QED
    BY <1>2, <2>2 DEF UpForWork
<1>3. CASE f = "target"
  <2>1. \/ e.status \in {"posted", "skipped", "error", "done"}
        \/ e.status \in {"open", "operator_escalated"} /\ e.phase = "operator_escalated"
    BY <1>1, <1>3, Tables, EntFacts
       DEF Done, UpForWork, Statuses, TargetStatuses, DoneInPython
  <2>2. \/ d.status \in {"posted", "skipped", "error"}
        \/ d.phase = "operator_escalated"
    BY <1>3, <2>1 DEF Remap, TargetRemap
  <2> QED
    BY <1>3, <2>2 DEF UpForWork
<1>4. CASE f \in {"wizard", "inbound", "queue"}
  <2>1. e.status \in Known[f] /\ ~UpForWork(f, e)
    BY <1>4 DEF Done
  <2>2. d.status = e.status
    BY <1>4, <2>1, Defaults DEF Remap, Fields
  <2> QED
    BY <1>4, <2>1, <2>2 DEF UpForWork
<1> QED
  BY <1>2, <1>3, <1>4 DEF Sessions

\* Of a name, what is loaded comes from what was there.
LEMMA FieldFound ==
    ASSUME NEW f \in Sessions, NEW v, IsVal(f, v), AcceptsField(f, MigratedField(f, v))
    PROVE  /\ Names(f, LoadedField(f, v)) = Names(f, v)
           /\ \A k : (\A e \in NamedItems(f, v, k) : Done(f, e))
                       => \A d \in NamedItems(f, LoadedField(f, v), k) : ~UpForWork(f, d)
<1> DEFINE w == Shaped(f, v)
           m == MigratedField(f, v)
           p == LoadedField(f, v)
<1>1. f \in Fields
  BY DEF Sessions, Fields
<1>2. Same(f, v, w) /\ IsVal(f, w)
  BY <1>1, Shapes DEF WellShaped
<1>3. IsVal(f, m) /\ Remapped(f, w, m) /\ m.shape = ShapeOf(f)
  BY <1>1, Migrating, ShapeAfter
<1>4. Filled(f, m, p)
  BY <1>1, <1>3, Parsing DEF LoadedField
<1> HIDE DEF w, m, p
<1>5. /\ DOMAIN p.items = DOMAIN w.items
      /\ \A j \in DOMAIN w.items : NameIn(f, p, j) = NameIn(f, w, j)
  BY <1>3, <1>4 DEF Remapped, Filled
<1>6. Names(f, p) = Names(f, v)
  BY <1>2, <1>5 DEF Names, Same
<1>7. ASSUME NEW k, \A e \in NamedItems(f, v, k) : Done(f, e),
             NEW d \in NamedItems(f, p, k)
      PROVE  ~UpForWork(f, d)
  <2>1. PICK j \in DOMAIN p.items : NameIn(f, p, j) = k /\ d = p.items[j]
    BY DEF NamedItems
  <2>2. PICK i \in DOMAIN v.items :
          /\ NameIn(f, w, j) = NameIn(f, v, i)
          /\ v.items[i].plain => /\ w.items[j].plain
                                 /\ w.items[j].status = v.items[i].status
                                 /\ w.items[j].phase = v.items[i].phase
    BY <1>2, <1>5, <2>1 DEF Same
  <2>3. Done(f, v.items[i]) /\ v.items[i].plain /\ v.items[i] \in Ent(f)
    <3>1. v.items[i] \in NamedItems(f, v, k)
      BY <1>5, <2>1, <2>2 DEF NamedItems
    <3> QED
      BY <1>7, <3>1, ItemFacts DEF Done
  <2>4. /\ m.items[j].plain /\ m.items[j].status = Remap(f, v.items[i].status)
        /\ m.items[j].phase = v.items[i].phase
    BY <1>3, <1>5, <2>1, <2>2, <2>3 DEF Remapped
  <2>5. Restated(f, m.items[j], d,
                 IF m.items[j].status = "" THEN Default[f] ELSE m.items[j].status)
    BY <1>3, <1>4, <1>5, <2>1, <2>4 DEF Filled, Remapped
  <2>6. /\ d.phase = v.items[i].phase
        /\ d.status = Remap(f, v.items[i].status) \/ Remap(f, v.items[i].status) = ""
    BY <2>4, <2>5 DEF Restated
  <2> QED
    BY <2>3, <2>6, DoneIsDone
<1> QED
  BY <1>6, <1>7 DEF p

-----------------------------------------------------------------------------
(* Files.                                                                   *)

IsState(x) ==
    /\ x = Object(x.fields) /\ x.fields = [f \in Fields |-> x.fields[f]]
    /\ \A f \in Fields : IsVal(f, x.fields[f])
CleanState(x) == IsState(x) /\ \A f \in Fields : Clean(f, x.fields[f])
FixedState(x) == IsState(x) /\ \A f \in Fields : Fixed(f, x.fields[f])

LEMMA ObjectFacts ==
    ASSUME NEW fields
    PROVE  Object(fields).kind = "object" /\ Object(fields).fields = fields
BY DEF Object

LEMMA StateOf ==
    ASSUME NEW fields, DOMAIN fields = Fields, fields = [f \in DOMAIN fields |-> fields[f]],
           \A f \in Fields : IsVal(f, fields[f])
    PROVE  IsState(Object(fields))
BY ObjectFacts DEF IsState

LEMMA CleanStateSame ==
    ASSUME NEW x, CleanState(x)
    PROVE  Accepts(x) /\ Parsed(x) = x
<1>1. x.kind = "object" /\ x = Object(x.fields) /\ x.fields = [f \in Fields |-> x.fields[f]]
  BY ObjectFacts DEF CleanState, IsState
<1>2. \A f \in Fields : AcceptsField(f, x.fields[f]) /\ ParsedField(f, x.fields[f]) = x.fields[f]
  BY CleanSame DEF CleanState
<1>3. [f \in Fields |-> ParsedField(f, x.fields[f])] = [f \in Fields |-> x.fields[f]]
  BY <1>2
<1> QED
  BY <1>1, <1>2, <1>3 DEF Accepts, Parsed

LEMMA FixedStateSame ==
    ASSUME NEW x, FixedState(x)
    PROVE  CleanState(x) /\ Migrated(x) = x /\ Loads(x) /\ Loaded(x) = x
<1>1. x.kind = "object" /\ x = Object(x.fields) /\ x.fields = [f \in Fields |-> x.fields[f]]
  BY ObjectFacts DEF FixedState, IsState
<1>2. \A f \in Fields : MigratedField(f, x.fields[f]) = x.fields[f]
  BY FixedSame DEF FixedState
<1>3. [f \in Fields |-> MigratedField(f, x.fields[f])] = [f \in Fields |-> x.fields[f]]
  BY <1>2
<1>4. Migrated(x) = x
  BY <1>1, <1>3 DEF Migrated
<1>5. CleanState(x)
  BY DEF CleanState, FixedState, Fixed
<1> QED
  BY <1>1, <1>4, <1>5, CleanStateSame DEF Loads, Loaded

\* The field a reader starts from, and what it makes of it.
Raw(x, f) == IF x.kind = "object" THEN x.fields[f] ELSE Missing

LEMMA LoadFacts ==
    ASSUME NEW x
    PROVE  /\ Loaded(x) = Object([f \in Fields |-> LoadedField(f, Raw(x, f))])
           /\ Loads(x) <=> /\ x.kind \in {"object", "other"}
                           /\ \A f \in Fields : AcceptsField(f, MigratedField(f, Raw(x, f)))
<1> DEFINE m == [f \in Fields |-> MigratedField(f, Raw(x, f))]
<1>1. Migrated(x) = Object(m)
  BY DEF Migrated, Raw
<1>2. Migrated(x).kind = "object" /\ Migrated(x).fields = m
  BY <1>1, ObjectFacts
<1>3. \A f \in Fields : m[f] = MigratedField(f, Raw(x, f))
  OBVIOUS
<1> HIDE DEF m
<1>4. Accepts(Migrated(x)) <=> \A f \in Fields : AcceptsField(f, MigratedField(f, Raw(x, f)))
  BY <1>2, <1>3 DEF Accepts
<1>5. [f \in Fields |-> ParsedField(f, m[f])] = [f \in Fields |-> LoadedField(f, Raw(x, f))]
  BY <1>3 DEF LoadedField
<1> QED
  BY <1>2, <1>4, <1>5 DEF Loads, Loaded, Parsed

LEMMA LoadedFixed ==
    ASSUME NEW x, x.kind = "object" => IsState(x), Loads(x)
    PROVE  FixedState(Loaded(x))
<1> DEFINE p == [f \in Fields |-> LoadedField(f, Raw(x, f))]
<1>1. Loaded(x) = Object(p) /\ \A f \in Fields : AcceptsField(f, MigratedField(f, Raw(x, f)))
  BY LoadFacts
<1>2. \A f \in Fields : IsVal(f, Raw(x, f))
  BY Empty DEF Raw, IsState
<1>3. \A f \in Fields : Fixed(f, p[f])
  BY <1>1, <1>2, FieldFixed
<1>4. DOMAIN p = Fields /\ p = [f \in DOMAIN p |-> p[f]]
  OBVIOUS
<1> HIDE DEF p
<1>5. IsState(Object(p))
  BY <1>3, <1>4, StateOf DEF Fixed, Clean
<1> QED
  BY <1>1, <1>3, <1>5, ObjectFacts DEF FixedState

\* A field of what was loaded is written anew.
LEMMA WriteFacts ==
    ASSUME NEW x, FixedState(x), NEW f \in Fields, NEW v, Clean(f, v)
    PROVE  LET y == Object([x.fields EXCEPT ![f] = v]) IN
           /\ CleanState(y) /\ Parsed(y) = y /\ Loads(y) /\ y.kind = "object"
           /\ Loaded(y).fields[f] = LoadedField(f, v)
           /\ \A g \in Fields \ {f} : Loaded(y).fields[g] = x.fields[g]
<1> DEFINE d == [x.fields EXCEPT ![f] = v]
           y == Object(d)
<1>1. x.fields = [g \in Fields |-> x.fields[g]] /\ \A g \in Fields : Fixed(g, x.fields[g])
  BY DEF FixedState, IsState
<1>2. /\ DOMAIN d = Fields /\ d = [g \in DOMAIN d |-> d[g]] /\ d[f] = v
      /\ \A g \in Fields \ {f} : d[g] = x.fields[g]
  BY <1>1
<1> HIDE DEF d
<1>3. \A g \in Fields : Clean(g, d[g])
  BY <1>1, <1>2 DEF Fixed
<1>4. IsState(y)
  BY <1>2, <1>3, StateOf DEF Clean
<1>5. y.kind = "object" /\ y.fields = d /\ CleanState(y)
  BY <1>3, <1>4, ObjectFacts DEF CleanState
<1> HIDE DEF y
<1>6. \A g \in Fields : Raw(y, g) = d[g]
  BY <1>5 DEF Raw
<1>7. Loads(y)
  BY <1>3, <1>5, <1>6, CleanLoads, LoadFacts
<1>8. \A g \in Fields : Loaded(y).fields[g] = LoadedField(g, d[g])
  <2> DEFINE l == [g \in Fields |-> LoadedField(g, Raw(y, g))]
  <2>1. Loaded(y).fields = l
    BY LoadFacts, ObjectFacts
  <2>2. \A g \in Fields : l[g] = LoadedField(g, d[g])
    BY <1>6
  <2> HIDE DEF l
  <2> QED
    BY <2>1, <2>2
<1>9. \A g \in Fields \ {f} : LoadedField(g, d[g]) = x.fields[g]
  BY <1>1, <1>2, FixedSame, CleanSame DEF LoadedField, Fixed
<1> QED
  BY <1>2, <1>5, <1>7, <1>8, <1>9, CleanStateSame DEF y, d

-----------------------------------------------------------------------------
(* account.json.                                                            *)

IsAccount(x) ==
    x \in {Absent, Garbage, NoObject} \cup AccountRecords

LEMMA AccountKinds ==
    /\ Absent.kind = "absent" /\ Garbage.kind = "garbage" /\ NoObject.kind = "other"
    /\ IsAccount(NoAccount) /\ NoAccount.kind = "object"
    /\ AcceptsAccount(MigratedAccount(NoAccount)) /\ MigratedAccount(NoAccount) = NoAccount
BY DEF Absent, Garbage, NoObject, IsAccount, AccountRecords, NoAccount, Account,
       AcceptsAccount, MigratedAccount

LEMMA ParsedAccountFacts ==
    ASSUME NEW x, IsAccount(x), x.kind = "object"
    PROVE  /\ IsAccount(ParsedAccount(x)) /\ AcceptsAccount(ParsedAccount(x))
           /\ ParsedAccount(x).kind = "object" /\ ParsedAccount(x).assets = x.assets
           /\ ParsedAccount(x).level = "right" /\ ParsedAccount(ParsedAccount(x)) = ParsedAccount(x)
<1> DEFINE p == PartsAre("news", "right")
           y == ParsedAccount(x)
<1>1. p \in [Parts -> {"missing", "right", "wrong"}] /\ \A q \in Parts : p[q] = "right"
  BY DEF PartsAre
<1> HIDE DEF p
<1>2. x \in AccountRecords
  BY AccountKinds DEF IsAccount
<1>3. y = [kind |-> "object", assets |-> x.assets, level |-> "right", parts |-> p]
  <2>1. y = [x EXCEPT !.level = "right", !.parts = p]
    BY DEF ParsedAccount, p
  <2> HIDE DEF y
  <2> QED
    BY <1>2, <2>1 DEF AccountRecords
<1> HIDE DEF y
<1>4. ParsedAccount(y) = [kind |-> "object", assets |-> x.assets, level |-> "right", parts |-> p]
  <2>1. ParsedAccount(y) = [y EXCEPT !.level = "right", !.parts = p]
    BY DEF ParsedAccount, p
  <2> QED
    BY <1>3, <2>1
<1>5. y.kind = "object" /\ y.assets = x.assets /\ y.level = "right" /\ y.parts = p
  BY <1>3
<1>6. IsAccount(y)
  BY <1>1, <1>2, <1>3 DEF IsAccount, AccountRecords
<1>7. AcceptsAccount(y)
  BY <1>1, <1>5 DEF AcceptsAccount
<1>8. ParsedAccount(y) = y
  BY <1>3, <1>4
<1> QED
  BY <1>5, <1>6, <1>7, <1>8 DEF y

LEMMA LevelSet ==
    ASSUME NEW x, IsAccount(x), x.kind = "object"
    PROVE  IsAccount([x EXCEPT !.level = "right"]) /\ [x EXCEPT !.level = "right"].kind = "object"
<1>1. x \in AccountRecords
  BY AccountKinds DEF IsAccount
<1> QED
  BY <1>1 DEF IsAccount, AccountRecords

LEMMA AccountLoadedFacts ==
    ASSUME NEW x, IsAccount(x), AccountLoads(x)
    PROVE  /\ IsAccount(AccountLoaded(x)) /\ AcceptsAccount(AccountLoaded(x))
           /\ AccountLoaded(x).kind = "object" /\ AccountLoaded(AccountLoaded(x)) = AccountLoaded(x)
<1> DEFINE m == MigratedAccount(x)
           y == AccountLoaded(x)
<1>1. IsAccount(m) /\ m.kind = "object" /\ m.assets # "strings"
  <2>1. CASE x.kind = "object"
    <3>1. x \in AccountRecords
      BY <2>1, AccountKinds DEF IsAccount
    <3>2. m = [kind |-> "object",
               assets |-> IF x.assets = "strings" THEN "objects" ELSE x.assets,
               level |-> IF x.level = "missing" THEN "right" ELSE x.level, parts |-> x.parts]
      BY <2>1, <3>1 DEF MigratedAccount, AccountRecords
    <3> HIDE DEF m
    <3> QED
      BY <3>1, <3>2 DEF IsAccount, AccountRecords
  <2>2. CASE x.kind # "object"
    <3>1. m = NoAccount
      BY <2>2 DEF MigratedAccount
    <3>2. NoAccount.assets = "missing"
      BY DEF NoAccount, Account
    <3> QED
      BY <3>1, <3>2, AccountKinds
  <2> QED
    BY <2>1, <2>2
<1>2. y = ParsedAccount(m)
  BY DEF AccountLoaded
<1> HIDE DEF m
<1>3. /\ IsAccount(y) /\ AcceptsAccount(y) /\ y.kind = "object" /\ y.assets # "strings"
      /\ y.level = "right" /\ ParsedAccount(y) = y
  BY <1>1, <1>2, ParsedAccountFacts
<1> HIDE DEF y
<1>4. MigratedAccount(y) = y
  <2>1. y \in AccountRecords
    BY <1>3, AccountKinds DEF IsAccount
  <2>2. y = [kind |-> y.kind, assets |-> y.assets, level |-> y.level, parts |-> y.parts]
    BY <2>1 DEF AccountRecords
  <2>3. MigratedAccount(y) = [y EXCEPT !.assets = y.assets, !.level = y.level]
    BY <1>3 DEF MigratedAccount
  <2> QED
    BY <2>2, <2>3
<1>5. AccountLoaded(y) = y
  BY <1>3, <1>4 DEF AccountLoaded
<1> QED
  BY <1>3, <1>5 DEF y

-----------------------------------------------------------------------------
(* What state.json holds of the entries there were.                         *)

\* Of a state as it is loaded: the sessions are just those there were, no digest
\* is lost, and none that was finished is up for work.
Kept(x, names, ends) ==
    /\ \A f \in Sessions, k \in Ids : <<f, k>> \in names <=> k \in Names(f, x.fields[f])
    /\ \A k \in Ids : <<"digest", k>> \in names => k \in Names("digest", x.fields["digest"])
    /\ \A f \in Sessions, k \in Ids : <<f, k>> \in ends =>
          \A e \in NamedItems(f, x.fields[f], k) : ~UpForWork(f, e)

Holds(x, names, ends) ==
    /\ x.kind \in {"absent", "garbage", "other", "object"}
    /\ x.kind = "object" => IsState(x)
    /\ x.kind # "object" => names = {}
    /\ names \subseteq (Fields \ {"plain"}) \X Ids /\ ends \subseteq names
    /\ Loads(x) => Kept(Loaded(x), names, ends)

LEMMA NamesAreIds ==
    ASSUME NEW f \in Fields, NEW v, IsVal(f, v)
    PROVE  /\ \A i \in DOMAIN v.items : NameIn(f, v, i) \in Ids \cup {NoName}
           /\ Names(f, v) \subseteq Ids
<1>1. ASSUME NEW i \in DOMAIN v.items
      PROVE  NameIn(f, v, i) \in Ids \cup {NoName}
  <2>1. v.items[i].own \in Ids \cup {NoName}
    BY ItemFacts, EntFacts
  <2>2. v.shape = "map" => i \in Ids
    BY DEF IsVal
  <2> QED
    BY <2>1, <2>2 DEF NameIn
<1> QED
  BY <1>1 DEF Names

\* A value as it is loaded has a name for every entry.
LEMMA FixedNamed ==
    ASSUME NEW f \in Fields, f # "plain", NEW v, Clean(f, v), NEW i \in DOMAIN v.items
    PROVE  NameIn(f, v, i) \in Ids /\ NameIn(f, v, i) \in Names(f, v)
<1>1. NameIn(f, v, i) # NoName
  <2>1. CASE f \in {"inbound", "target"}
    <3>1. v.shape = "map" /\ i \in Ids
      BY <2>1 DEF Clean, IsVal, ShapeOf
    <3> QED
      BY <2>1, <3>1, NameFacts, FilesAssumption
  <2>2. CASE f \notin {"inbound", "target"}
    <3>1. v.shape = "list" /\ v.items[i].own # NoName
      BY <2>2 DEF Clean, ShapeOf
    <3> QED
      BY <3>1, NameFacts
  <2> QED
    BY <2>1, <2>2
<1>2. NameIn(f, v, i) \in Ids \cup {NoName}
  BY NamesAreIds DEF Clean
<1> QED
  BY <1>1, <1>2 DEF Names

LEMMA LoadedKept ==
    ASSUME NEW x, NEW names, NEW ends, Holds(x, names, ends), Loads(x)
    PROVE  /\ FixedState(Loaded(x)) /\ Loaded(x).kind = "object"
           /\ Holds(Loaded(x), names, ends)
<1>1. FixedState(Loaded(x)) /\ Kept(Loaded(x), names, ends)
  BY LoadedFixed DEF Holds
<1>2. Loaded(x).kind = "object" /\ IsState(Loaded(x)) /\ Loaded(Loaded(x)) = Loaded(x)
  BY <1>1, FixedStateSame, ObjectFacts DEF FixedState, IsState
<1> QED
  BY <1>1, <1>2 DEF Holds

\* The names and ends of the other fields are what they were.
Elsewhere(f, names, ends, names2, ends2) ==
    /\ names2 \subseteq (Fields \ {"plain"}) \X Ids /\ ends2 \subseteq names2
    /\ \A g \in Fields \ {f}, k \in Ids :
          /\ <<g, k>> \in names2 <=> <<g, k>> \in names
          /\ <<g, k>> \in ends2 <=> <<g, k>> \in ends

\* The names and ends of the field f are those of the value p.
InPlace(f, p, names, ends) ==
    /\ \A k \in Ids : <<f, k>> \in names => k \in Names(f, p)
    /\ f \in Sessions => \A k \in Ids : k \in Names(f, p) => <<f, k>> \in names
    /\ f \in Sessions => \A k \in Ids : <<f, k>> \in ends =>
                             \A e \in NamedItems(f, p, k) : ~UpForWork(f, e)

\* What is written is held when it is what is loaded, but for a field f of which the
\* value that is loaded in its place holds its part.
LEMMA FieldWriteKeeps ==
    ASSUME NEW x, NEW names, NEW ends, FixedState(x), Kept(x, names, ends),
           NEW f \in Fields \ {"plain"}, NEW v, Clean(f, v), NEW p, p = LoadedField(f, v),
           NEW names2, NEW ends2,
           Elsewhere(f, names, ends, names2, ends2), InPlace(f, p, names2, ends2)
    PROVE  LET y == Object([x.fields EXCEPT ![f] = v]) IN
           CleanState(y) /\ Parsed(y) = y /\ Holds(y, names2, ends2)
<1> DEFINE y == Object([x.fields EXCEPT ![f] = v])
<1>1. /\ CleanState(y) /\ Parsed(y) = y /\ Loads(y) /\ y.kind = "object"
      /\ Loaded(y).fields[f] = p
      /\ \A g \in Fields \ {f} : Loaded(y).fields[g] = x.fields[g]
  BY WriteFacts
<1> HIDE DEF y
<1>2. "digest" \in Fields /\ "digest" \notin Sessions /\ Sessions \subseteq Fields
  BY DEF Fields, Sessions
<1>3. ASSUME NEW g \in Sessions, NEW k \in Ids
      PROVE  /\ <<g, k>> \in names2 <=> k \in Names(g, Loaded(y).fields[g])
             /\ <<g, k>> \in ends2 =>
                  \A e \in NamedItems(g, Loaded(y).fields[g], k) : ~UpForWork(g, e)
  <2>1. CASE g = f
    BY <1>1, <2>1 DEF InPlace
  <2>2. CASE g # f
    <3>1. Loaded(y).fields[g] = x.fields[g] /\ g \in Fields \ {f}
      BY <1>1, <1>2, <2>2
    <3> QED
      BY <3>1 DEF Kept, Elsewhere
  <2> QED
    BY <2>1, <2>2
<1>4. ASSUME NEW k \in Ids, <<"digest", k>> \in names2
      PROVE  k \in Names("digest", Loaded(y).fields["digest"])
  <2>1. CASE f = "digest"
    BY <1>1, <1>4, <2>1 DEF InPlace
  <2>2. CASE f # "digest"
    <3>1. Loaded(y).fields["digest"] = x.fields["digest"] /\ "digest" \in Fields \ {f}
      BY <1>1, <1>2, <2>2
    <3> QED
      BY <1>4, <3>1 DEF Kept, Elsewhere
  <2> QED
    BY <2>1, <2>2
<1>5. Kept(Loaded(y), names2, ends2)
  BY <1>3, <1>4 DEF Kept
<1>6. Holds(y, names2, ends2)
  BY <1>1, <1>5 DEF Holds, CleanState, Elsewhere
<1> QED
  BY <1>1, <1>6 DEF y

\* A value with an entry more.
With(f, w, k) ==
    LET e == Entry(k, Default[f], "") IN
    IF w.shape = "map"
    THEN Map([j \in DOMAIN w.items \cup {k} |-> IF j = k THEN e ELSE w.items[j]])
    ELSE List(Append(w.items, e))

LEMMA NewEntry ==
    ASSUME NEW f \in Fields, NEW k \in Ids
    PROVE  LET e == Entry(k, Default[f], "") IN
           /\ e \in Ent(f) /\ e.plain /\ e.own = k /\ k # NoName
           /\ e.status = Default[f] /\ e.status \in Known[f] /\ e.status # ""
           /\ f = "target" => e.status # "operator_escalated"
<1> DEFINE e == Entry(k, Default[f], "")
<1>1. e.plain = TRUE /\ e.own = k /\ e.status = Default[f] /\ e.phase = ""
  BY DEF Entry
<1>2. Default[f] \in Known[f] /\ Default[f] # "" /\ k # NoName
  BY Defaults, FilesAssumption
<1>3. f = "target" => Default[f] # "operator_escalated"
  BY Tables
<1>4. e \in Ent(f)
  BY <1>2, <1>3, EntOf DEF Entry
<1> QED
  BY <1>1, <1>2, <1>3, <1>4

\* s is the list q, which has n entries, with e for one more.
Longer(S, q, n, e, s) ==
    /\ s \in Seq(S) /\ n \in Nat /\ DOMAIN q = 1 .. n /\ DOMAIN s = 1 .. (n + 1)
    /\ s[n + 1] = e /\ \A i \in 1 .. n : s[i] = q[i]

LEMMA AppendFacts ==
    ASSUME NEW S, NEW q \in Seq(S), NEW e \in S
    PROVE  Longer(S, q, Len(q), e, Append(q, e))
BY DEF Longer

LEMMA WithFacts ==
    ASSUME NEW f \in Fields, f # "plain", NEW w, Fixed(f, w), NEW k \in Ids, k \notin Names(f, w)
    PROVE  /\ Fixed(f, With(f, w, k))
           /\ Names(f, With(f, w, k)) = Names(f, w) \cup {k}
           /\ \A j : j # k => NamedItems(f, With(f, w, k), j) \subseteq NamedItems(f, w, j)
<1> DEFINE e == Entry(k, Default[f], "")
           v == With(f, w, k)
<1>1. /\ e \in Ent(f) /\ e.plain /\ e.own = k /\ k # NoName
      /\ e.status \in Known[f] /\ e.status # ""
      /\ f = "target" => e.status # "operator_escalated"
  BY NewEntry
<1> HIDE DEF e
<1>2. Clean(f, w) /\ IsVal(f, w) /\ w.shape = ShapeOf(f)
  BY DEF Fixed, Clean
<1>3. \A i \in DOMAIN w.items : /\ w.items[i].plain /\ w.items[i].status \in Known[f]
                                /\ f # "inbound" => w.items[i].own # NoName
                                /\ f = "target" => w.items[i].status # "operator_escalated"
                                /\ w.items[i] \in Ent(f) /\ w.items[i].status # ""
  BY <1>2, ItemFacts DEF Fixed, Clean
<1>4. CASE f \in {"inbound", "target"}
  <2> DEFINE D == DOMAIN w.items \cup {k}
             m == [j \in D |-> IF j = k THEN e ELSE w.items[j]]
  <2>1. w.shape = "map" /\ DOMAIN w.items \subseteq Ids /\ IsFiniteSet(DOMAIN w.items)
    BY <1>2, <1>4 DEF IsVal, ShapeOf
  <2>2. v = Map(m)
    BY <2>1 DEF With, e
  <2>3. D \subseteq Ids /\ IsFiniteSet(D)
    BY <2>1, FS_AddElement
  <2>4. DOMAIN m = D /\ m[k] = e /\ \A j \in DOMAIN w.items \ {k} : m[j] = w.items[j]
    OBVIOUS
  <2>5. m \in [D -> Ent(f)]
    BY <1>1, <1>3
  <2> HIDE DEF m
  <2>6. v.shape = "map" /\ v.items = m /\ IsVal(f, v)
    BY <2>2, <2>3, <2>4, <2>5 DEF Map, IsVal
  <2> HIDE DEF v
  <2>7. Clean(f, v) /\ Fixed(f, v)
    <3>1. \A i \in D : /\ m[i].plain /\ m[i].status \in Known[f] /\ m[i].status # ""
                       /\ f # "inbound" => m[i].own # NoName
                       /\ f = "target" => m[i].status # "operator_escalated"
      <4> SUFFICES ASSUME NEW i \in D
                   PROVE  /\ m[i].plain /\ m[i].status \in Known[f] /\ m[i].status # ""
                          /\ f # "inbound" => m[i].own # NoName
                          /\ f = "target" => m[i].status # "operator_escalated"
        OBVIOUS
      <4>1. CASE i = k
        BY <1>1, <2>4, <4>1
      <4>2. CASE i # k
        <5>1. i \in DOMAIN w.items /\ m[i] = w.items[i]
          BY <2>4, <4>2
        <5> QED
          BY <1>3, <5>1
      <4> QED
        BY <4>1, <4>2
    <3>2. v.shape = ShapeOf(f)
      BY <1>2, <2>1, <2>6
    <3> QED
      BY <2>4, <2>6, <3>1, <3>2 DEF Clean, Fixed
  <2>8. /\ \A i : NameIn(f, v, i) = i
        /\ \A i : NameIn(f, w, i) = i
    BY <1>4, <2>1, <2>6, NameFacts
  <2>9. Names(f, v) = Names(f, w) \cup {k}
    <3>1. \A x : x \in Names(f, v) <=> x \in D /\ x # NoName
      BY <2>4, <2>6, <2>8 DEF Names
    <3>2. \A x : x \in Names(f, w) <=> x \in DOMAIN w.items /\ x # NoName
      BY <2>8 DEF Names
    <3> QED
      BY <1>1, <3>1, <3>2
  <2>10. ASSUME NEW j, j # k
         PROVE  NamedItems(f, v, j) \subseteq NamedItems(f, w, j)
    BY <2>4, <2>6, <2>8, <2>10 DEF NamedItems
  <2> QED
    BY <2>7, <2>9, <2>10 DEF v
<1>5. CASE f \notin {"inbound", "target"}
  <2> DEFINE s == Append(w.items, e)
             n == Len(w.items)
  <2>1. w.shape = "list" /\ w.items \in Seq(Ent(f))
    BY <1>2, <1>5 DEF IsVal, ShapeOf
  <2>2. v = List(s)
    BY <2>1 DEF With, e
  <2>3. /\ s \in Seq(Ent(f)) /\ n \in Nat /\ DOMAIN w.items = 1 .. n /\ DOMAIN s = 1 .. (n + 1)
        /\ s[n + 1] = e /\ \A i \in 1 .. n : s[i] = w.items[i]
    <3>1. Longer(Ent(f), w.items, n, e, s)
      BY <1>1, <2>1, AppendFacts
    <3> HIDE DEF n, s
    <3> QED
      BY <3>1 DEF Longer
  <2>4. \A i \in 1 .. (n + 1) : i \in 1 .. n \/ i = n + 1
    BY <2>3
  <2>5. \A i \in 1 .. n : i \in 1 .. (n + 1)
    BY <2>3
  <2>6. n + 1 \in 1 .. (n + 1)
    BY <2>3
  <2> HIDE DEF s
  <2>7. v.shape = "list" /\ v.items = s /\ IsVal(f, v)
    BY <2>2, <2>3 DEF List, IsVal
  <2> HIDE DEF v, n
  <2>8. Clean(f, v) /\ Fixed(f, v)
    <3>1. \A i \in 1 .. (n + 1) : /\ s[i].plain /\ s[i].status \in Known[f] /\ s[i].status # ""
                                  /\ s[i].own # NoName
      BY <1>1, <1>3, <1>5, <2>3, <2>4
    <3>2. v.shape = ShapeOf(f)
      BY <1>2, <2>1, <2>7
    <3> QED
      BY <1>5, <2>3, <2>7, <3>1, <3>2 DEF Clean, Fixed
  <2>9. /\ \A i : NameIn(f, v, i) = s[i].own
        /\ \A i : NameIn(f, w, i) = w.items[i].own
    BY <2>1, <2>7, NameFacts
  <2>10. \A i \in 1 .. n : NameIn(f, v, i) = NameIn(f, w, i)
    BY <2>3, <2>9
  <2>11. NameIn(f, v, n + 1) = k
    BY <1>1, <2>3, <2>9
  <2>12. Names(f, v) = Names(f, w) \cup {k}
    <3>1. \A x : x \in Names(f, v) <=> x # NoName /\ \E i \in 1 .. (n + 1) : NameIn(f, v, i) = x
      BY <2>3, <2>7 DEF Names
    <3>2. \A x : x \in Names(f, w) <=> x # NoName /\ \E i \in 1 .. n : NameIn(f, w, i) = x
      BY <2>3 DEF Names
    <3>3. ASSUME NEW x
          PROVE  x \in Names(f, v) <=> x \in Names(f, w) \cup {k}
      <4>1. (\E i \in 1 .. (n + 1) : NameIn(f, v, i) = x)
              <=> x = k \/ \E i \in 1 .. n : NameIn(f, w, i) = x
        BY <2>4, <2>5, <2>6, <2>10, <2>11
      <4> QED
        BY <1>1, <3>1, <3>2, <4>1
    <3> QED
      BY <3>3
  <2>13. ASSUME NEW j, j # k
         PROVE  NamedItems(f, v, j) \subseteq NamedItems(f, w, j)
    <3> SUFFICES ASSUME NEW d \in NamedItems(f, v, j)
                 PROVE  d \in NamedItems(f, w, j)
      OBVIOUS
    <3>1. PICK i \in 1 .. (n + 1) : NameIn(f, v, i) = j /\ d = s[i]
      BY <2>3, <2>7 DEF NamedItems
    <3>2. i \in 1 .. n
      BY <2>4, <2>11, <2>13, <3>1
    <3> QED
      BY <2>3, <2>10, <3>1, <3>2 DEF NamedItems
  <2> QED
    BY <2>8, <2>12, <2>13 DEF v
<1> QED
  BY <1>4, <1>5

LEMMA FixedLoaded ==
    ASSUME NEW f \in Fields, NEW v, Fixed(f, v)
    PROVE  LoadedField(f, v) = v
BY FixedSame, CleanSame DEF LoadedField, Fixed

-----------------------------------------------------------------------------
\* A value with an entry brought to its end.
Concluded(f, w, i) ==
    [w EXCEPT !.items[i] =
        [w.items[i] EXCEPT !.status = Ends[f],
                           !.phase = IF f = "target" THEN "operator_escalated" ELSE @]]

LEMMA EndTables ==
    /\ DOMAIN Ends = Sessions
    /\ Ends["posting"] = "published" /\ Ends["queue"] = "published"
    /\ Ends["inbound"] = "posted" /\ Ends["target"] = "operator_escalated"
    /\ Ends["wizard"] = "completed"
BY DEF Ends, Sessions

LEMMA EndFacts ==
    ASSUME NEW f \in Sessions
    PROVE  Ends[f] \in Known[f] /\ Ends[f] # ""
<1>1. CASE f = "posting"
  BY <1>1, Tables, EndTables DEF PostingStates
<1>2. CASE f = "queue"
  BY <1>2, Tables, EndTables DEF PublishStatuses
<1>3. CASE f = "inbound"
  BY <1>3, Tables, EndTables DEF InboundStatuses
<1>4. CASE f = "target"
  BY <1>4, Tables, EndTables DEF TargetStatuses
<1>5. CASE f = "wizard"
  BY <1>5, Tables, EndTables DEF WizardStates
<1> QED
  BY <1>1, <1>2, <1>3, <1>4, <1>5 DEF Sessions

\* What has come to its end is not up for work when it is read again.
LEMMA ConcludedDone ==
    ASSUME NEW f \in Sessions, NEW d, d.status = Remap(f, Ends[f]),
           f = "target" => d.phase = "operator_escalated"
    PROVE  ~UpForWork(f, d)
<1>1. CASE f = "posting"
  BY <1>1, EndTables DEF Remap, PostingRemap, UpForWork
<1>2. CASE f = "target"
  BY <1>2 DEF UpForWork
<1>3. CASE f \in {"queue", "inbound", "wizard"}
  BY <1>3, EndTables DEF Remap, UpForWork
<1> QED
  BY <1>1, <1>2, <1>3 DEF Sessions

LEMMA ConcludedFacts ==
    ASSUME NEW f \in Sessions, NEW w, Fixed(f, w), NEW i \in DOMAIN w.items
    PROVE  LET v == Concluded(f, w, i) IN
           /\ Clean(f, v) /\ v.shape = w.shape /\ DOMAIN v.items = DOMAIN w.items
           /\ \A j \in DOMAIN w.items : NameIn(f, v, j) = NameIn(f, w, j)
           /\ \A j \in DOMAIN w.items \ {i} : v.items[j] = w.items[j]
           /\ v.items[i].plain /\ v.items[i].status = Ends[f]
           /\ f = "target" => v.items[i].phase = "operator_escalated"
<1> DEFINE phase == IF f = "target" THEN "operator_escalated" ELSE w.items[i].phase
           d == [w.items[i] EXCEPT !.status = Ends[f], !.phase = phase]
           s == [w.items EXCEPT ![i] = d]
           v == Concluded(f, w, i)
<1>0. f \in Fields
  BY DEF Sessions, Fields
<1>1. Clean(f, w) /\ IsVal(f, w) /\ w.shape = ShapeOf(f) /\ f # "plain"
  BY DEF Fixed, Clean, Sessions
<1>2. w.items[i] \in Ent(f) /\ w.items[i].plain
  BY <1>1, ItemFacts DEF Clean
<1>3. phase \in {"", "open", "operator_escalated"}
  BY <1>2, EntFacts
<1>4. f = "target" => phase = "operator_escalated"
  OBVIOUS
<1> HIDE DEF phase
<1>5. /\ d.own = w.items[i].own /\ d.plain = w.items[i].plain /\ d.status = Ends[f]
      /\ d.phase = phase
      /\ d \in [own : Ids \cup {NoName}, plain : BOOLEAN,
                status : Statuses[f] \cup Known[f] \cup {""},
                phase : {"", "open", "operator_escalated"}]
  BY <1>2, <1>3, EndFacts DEF Ent
<1> HIDE DEF d
<1>6. d \in Ent(f) /\ d.plain
  <2>1. d.plain
    BY <1>2, <1>5
  <2> QED
    BY <1>4, <1>5, <2>1 DEF Ent
<1>7. w.items = [j \in DOMAIN w.items |-> w.items[j]] /\ w = [shape |-> w.shape, items |-> w.items]
  BY <1>1 DEF IsVal
<1>8. /\ s = [j \in DOMAIN w.items |-> IF j = i THEN d ELSE w.items[j]]
      /\ DOMAIN s = DOMAIN w.items /\ s[i] = d
      /\ \A j \in DOMAIN w.items \ {i} : s[j] = w.items[j]
  BY <1>7
<1>9. v = [w EXCEPT !.items = s]
  BY DEF Concluded, d, phase
<1> HIDE DEF s, v
<1>10. v = [shape |-> w.shape, items |-> s] /\ v.shape = w.shape /\ v.items = s
  BY <1>7, <1>9
<1>11. \A j \in DOMAIN s : s[j] \in Ent(f)
  BY <1>1, <1>6, <1>8, ItemFacts
<1>12. IsVal(f, v)
  <2>1. s \in [DOMAIN s -> Ent(f)]
    BY <1>8, <1>11
  <2>2. CASE w.shape = "list"
    <3>1. w.items \in Seq(Ent(f)) /\ DOMAIN w.items = 1 .. Len(w.items) /\ Len(w.items) \in Nat
      BY <1>1, <2>2 DEF IsVal
    <3>2. s \in Seq(Ent(f))
      BY <1>8, <2>1, <3>1
    <3> QED
      BY <1>10, <2>2, <3>2 DEF IsVal
  <2>3. CASE w.shape = "map"
    BY <1>1, <1>8, <1>10, <2>1, <2>3 DEF IsVal
  <2> QED
    BY <1>1, <2>2, <2>3 DEF ShapeOf
<1>13. \A j \in DOMAIN w.items : NameIn(f, v, j) = NameIn(f, w, j)
  <2>1. \A j \in DOMAIN w.items : v.items[j].own = w.items[j].own
    BY <1>5, <1>8, <1>10
  <2> QED
    BY <1>10, <2>1 DEF NameIn
<1>14. Clean(f, v)
  <2>1. \A j \in DOMAIN w.items : /\ w.items[j].plain /\ w.items[j].status \in Known[f]
                                  /\ w.items[j].status # ""
                                  /\ f # "inbound" => w.items[j].own # NoName
    BY <1>1 DEF Clean
  <2>2. \A j \in DOMAIN s : /\ s[j].plain /\ s[j].status \in Known[f] /\ s[j].status # ""
                            /\ f # "inbound" => s[j].own # NoName
    <3> SUFFICES ASSUME NEW j \in DOMAIN s
                 PROVE  /\ s[j].plain /\ s[j].status \in Known[f] /\ s[j].status # ""
                        /\ f # "inbound" => s[j].own # NoName
      OBVIOUS
    <3>1. CASE j = i
      BY <1>5, <1>6, <1>8, <2>1, <3>1, EndFacts
    <3>2. CASE j # i
      <4>1. j \in DOMAIN w.items /\ s[j] = w.items[j]
        BY <1>8, <3>2
      <4> QED
        BY <2>1, <4>1
    <3> QED
      BY <3>1, <3>2
  <2> QED
    BY <1>1, <1>10, <1>12, <2>2 DEF Clean
<1> QED
  BY <1>4, <1>5, <1>6, <1>8, <1>10, <1>13, <1>14 DEF v

LEMMA ConcludedKept ==
    ASSUME NEW f \in Sessions, NEW w, Fixed(f, w), NEW i \in DOMAIN w.items
    PROVE  LET p == LoadedField(f, Concluded(f, w, i)) IN
           /\ Names(f, p) = Names(f, w)
           /\ \A k : (\A e \in NamedItems(f, w, k) : ~UpForWork(f, e))
                       => \A e \in NamedItems(f, p, k) : ~UpForWork(f, e)
           /\ {j \in DOMAIN w.items : NameIn(f, w, j) = NameIn(f, w, i)} = {i}
                => \A e \in NamedItems(f, p, NameIn(f, w, i)) : ~UpForWork(f, e)
<1> DEFINE v == Concluded(f, w, i)
           p == LoadedField(f, v)
<1>0. f \in Fields /\ f # "plain"
  BY DEF Sessions, Fields
<1>1. /\ Clean(f, v) /\ DOMAIN v.items = DOMAIN w.items
      /\ \A j \in DOMAIN w.items : NameIn(f, v, j) = NameIn(f, w, j)
      /\ \A j \in DOMAIN w.items \ {i} : v.items[j] = w.items[j]
      /\ v.items[i].plain /\ v.items[i].status = Ends[f]
      /\ f = "target" => v.items[i].phase = "operator_escalated"
  BY ConcludedFacts
<1> HIDE DEF v
<1>2. Settles(f, v, p)
  BY <1>0, <1>1, CleanLoads
<1> HIDE DEF p
<1>3. /\ DOMAIN p.items = DOMAIN w.items
      /\ \A j \in DOMAIN w.items : NameIn(f, p, j) = NameIn(f, w, j)
  BY <1>1, <1>2 DEF Settles
<1>4. ~UpForWork(f, p.items[i])
  <2>1. /\ p.items[i].status = Remap(f, Ends[f])
        /\ f = "target" => p.items[i].phase = "operator_escalated"
    BY <1>1, <1>2 DEF Settles
  <2> QED
    BY <2>1, ConcludedDone
<1>5. ASSUME NEW j \in DOMAIN w.items, UpForWork(f, p.items[j])
      PROVE  j # i /\ UpForWork(f, w.items[j])
  <2>1. j # i
    BY <1>4, <1>5
  <2>2. w.items[j].plain /\ v.items[j] = w.items[j] /\ w.items[j].status \in Known[f]
        /\ (f = "target" => w.items[j].status # "operator_escalated")
    BY <1>0, <1>1, <2>1 DEF Fixed, Clean
  <2>3. p.items[j].status = w.items[j].status /\ p.items[j].phase = w.items[j].phase
    <3>1. Remap(f, w.items[j].status) = w.items[j].status
      BY <1>0, <2>2, StatusWords
    <3>2. v.items[j].plain /\ j \in DOMAIN v.items
      BY <1>1, <2>2
    <3> QED
      BY <1>2, <2>2, <3>1, <3>2 DEF Settles
  <2> QED
    BY <1>5, <2>1, <2>3 DEF UpForWork
<1>6. Names(f, p) = Names(f, w)
  BY <1>3 DEF Names
<1>7. ASSUME NEW k, \A e \in NamedItems(f, w, k) : ~UpForWork(f, e),
             NEW e \in NamedItems(f, p, k)
      PROVE  ~UpForWork(f, e)
  <2>1. PICK j \in DOMAIN w.items : NameIn(f, w, j) = k /\ e = p.items[j]
    BY <1>3 DEF NamedItems
  <2>2. w.items[j] \in NamedItems(f, w, k)
    BY <2>1 DEF NamedItems
  <2> QED
    BY <1>5, <1>7, <2>1, <2>2
<1>8. ASSUME {j \in DOMAIN w.items : NameIn(f, w, j) = NameIn(f, w, i)} = {i},
             NEW e \in NamedItems(f, p, NameIn(f, w, i))
      PROVE  ~UpForWork(f, e)
  <2>1. PICK j \in DOMAIN w.items : NameIn(f, w, j) = NameIn(f, w, i) /\ e = p.items[j]
    BY <1>3 DEF NamedItems
  <2>2. j = i
    BY <1>8, <2>1
  <2> QED
    BY <1>4, <2>1, <2>2
<1> QED
  BY <1>6, <1>7, <1>8 DEF p, v

-----------------------------------------------------------------------------
(* The files in the hands of the bot, the script and the wizard.            *)

HeldInv ==
    /\ IsAccount(accountJson) /\ Holds(stateJson, named, finished)
    /\ script \in {"none", "state"} /\ wizard \in {"none", "state", "registry", "knowledge"}
    /\ written => CleanState(stateJson)

\* Once the wizard is past a file, that file is right.
LaunchInv ==
    /\ wizard # "none" \/ registered => AcceptsAccount(accountJson)
    /\ wizard \in {"registry", "knowledge"} \/ registered => Accepts(stateJson)

DocumentInv == HeldInv /\ LaunchInv

\* What a step may do to the files: leave a file, or write it in this program's form.
AccountWritten ==
    \/ accountJson' = accountJson
    \/ IsAccount(accountJson') /\ AcceptsAccount(accountJson')
StateWritten ==
    \/ UNCHANGED <<stateJson, written, named, finished>>
    \/ CleanState(stateJson') /\ Holds(stateJson', named', finished')

LEMMA WrittenKeeps ==
    ASSUME DocumentInv, AccountWritten, StateWritten,
           script' \in {"none", "state"},
           wizard' \in {"none", "state", "registry", "knowledge"},
           wizard' # "none" \/ registered' =>
             wizard # "none" \/ registered \/ AcceptsAccount(accountJson'),
           wizard' \in {"registry", "knowledge"} \/ registered' =>
             wizard \in {"registry", "knowledge"} \/ registered \/ Accepts(stateJson')
    PROVE  DocumentInv'
<1>1. IsAccount(accountJson') /\ (AcceptsAccount(accountJson) => AcceptsAccount(accountJson'))
  BY DEF AccountWritten, DocumentInv, HeldInv
<1>2. /\ Holds(stateJson', named', finished')
      /\ written' => CleanState(stateJson')
      /\ Accepts(stateJson) => Accepts(stateJson')
  <2>1. CASE UNCHANGED <<stateJson, written, named, finished>>
    BY <2>1 DEF DocumentInv, HeldInv
  <2>2. CASE CleanState(stateJson') /\ Holds(stateJson', named', finished')
    BY <2>2, CleanStateSame
  <2> QED
    BY <2>1, <2>2 DEF StateWritten
<1>3. HeldInv'
  BY <1>1, <1>2 DEF HeldInv
<1>4. LaunchInv'
  BY <1>1, <1>2 DEF LaunchInv, DocumentInv
<1> QED
  BY <1>3, <1>4 DEF DocumentInv

\* A reader that migrates, and writes what it was handed.
LEMMA EmptyState == IsState(Object(AllMissing))
<1>1. DOMAIN AllMissing = Fields /\ \A f \in Fields : AllMissing[f] = Missing
  BY DEF AllMissing
<1>2. AllMissing = [f \in DOMAIN AllMissing |-> AllMissing[f]]
  BY DEF AllMissing
<1> QED
  BY <1>1, <1>2, StateOf, Empty

\* A file none of whose fields is there keeps nothing.
LEMMA NothingKept ==
    ASSUME NEW x, \A f \in Fields : Raw(x, f) = Missing, Loads(x)
    PROVE  Kept(Loaded(x), {}, {})
<1> DEFINE p == [f \in Fields |-> LoadedField(f, Raw(x, f))]
<1>1. /\ Loaded(x).fields = p
      /\ \A f \in Fields : AcceptsField(f, MigratedField(f, Raw(x, f)))
  BY LoadFacts, ObjectFacts
<1>2. ASSUME NEW f \in Sessions
      PROVE  Names(f, Loaded(x).fields[f]) = {}
  <2>1. f \in Fields
    BY DEF Sessions, Fields
  <2>2. Loaded(x).fields[f] = LoadedField(f, Missing)
    BY <1>1, <2>1
  <2>3. AcceptsField(f, MigratedField(f, Missing))
    BY <1>1, <2>1
  <2>4. Names(f, Missing) = {}
    BY Empty DEF Names, Missing
  <2> QED
    BY <2>1, <2>2, <2>3, <2>4, FieldFound, Empty
<1> QED
  BY <1>2 DEF Kept

\* A file that is made to be locked holds as much as none.
LEMMA FoundHolds ==
    ASSUME DocumentInv
    PROVE  /\ Holds(Found, named, finished)
           /\ Loads(stateJson) => Found = stateJson
<1>1. CASE stateJson # Absent
  BY <1>1 DEF Found, DocumentInv, HeldInv
<1>2. CASE stateJson = Absent
  <2>1. named = {} /\ finished = {} /\ stateJson.kind = "absent"
    BY <1>2, AccountKinds DEF DocumentInv, HeldInv, Holds
  <2>2. Found = Object(AllMissing) /\ Found.kind = "object" /\ IsState(Found)
    BY <1>2, EmptyState, ObjectFacts DEF Found
  <2>3. \A f \in Fields : Raw(Found, f) = Missing
    BY <2>2, ObjectFacts DEF Raw, AllMissing
  <2>4. Loads(Found) => Kept(Loaded(Found), {}, {})
    BY <2>3, NothingKept
  <2>5. ~Loads(stateJson)
    BY <2>1 DEF Loads
  <2> QED
    BY <2>1, <2>2, <2>4, <2>5 DEF Holds
<1> QED
  BY <1>1, <1>2

LEMMA LoadedWritten ==
    ASSUME DocumentInv, Loads(Found), stateJson' = Loaded(Found),
           UNCHANGED <<named, finished>>
    PROVE  StateWritten
<1>1. FixedState(Loaded(Found)) /\ Holds(Loaded(Found), named, finished)
  BY FoundHolds, LoadedKept
<1>2. CleanState(Loaded(Found))
  BY <1>1, FixedStateSame
<1> QED
  BY <1>1, <1>2 DEF StateWritten

LEMMA AccountLoadedWritten ==
    ASSUME DocumentInv, AccountLoads(accountJson), accountJson' = AccountLoaded(accountJson)
    PROVE  AccountWritten
BY AccountLoadedFacts DEF AccountWritten, DocumentInv, HeldInv

LEMMA StarterFacts == IsAccount(StarterAccount) /\ AcceptsAccount(StarterAccount)
BY AccountKinds, ParsedAccountFacts DEF StarterAccount

LEMMA EmptyFixed ==
    ASSUME NEW f \in Fields
    PROVE  /\ IsVal(f, Missing) /\ Clean(f, ParsedField(f, Missing))
           /\ DOMAIN ParsedField(f, Missing).items = {}
<1> DEFINE w == Prepared(f, Missing)
<1>1. w = IF f \in {"inbound", "target"} THEN Map(<<>>) ELSE List(<<>>)
  BY DEF Prepared, Missing
<1>2. IsVal(f, w) /\ w.shape = ShapeOf(f) /\ DOMAIN w.items = {}
  BY <1>1, Empty DEF ShapeOf, List, Map
<1> HIDE DEF w
<1>3. Prepared(f, w) = w
  BY <1>2, Prepares
<1>4. ParsedField(f, Missing) = ParsedField(f, w)
  BY <1>3 DEF ParsedField, w
<1>5. AcceptsField(f, w)
  BY <1>2, AcceptFacts
<1>6. Clean(f, ParsedField(f, w)) /\ Filled(f, w, ParsedField(f, w))
  BY <1>2, <1>5, Parsing
<1> QED
  BY <1>2, <1>4, <1>6, Empty DEF Filled

\* The state a new account starts with.
LEMMA FreshState ==
    LET x == Parsed(Object(AllMissing)) IN CleanState(x) /\ Holds(x, {}, {})
<1> DEFINE p == [f \in Fields |-> ParsedField(f, Missing)]
           x == Parsed(Object(AllMissing))
<1>1. x = Object(p)
  BY ObjectFacts DEF Parsed, AllMissing
<1>2. DOMAIN p = Fields /\ p = [f \in DOMAIN p |-> p[f]]
  OBVIOUS
<1>3. \A f \in Fields : Fixed(f, p[f]) /\ Names(f, p[f]) = {}
  BY EmptyFixed DEF Fixed, Names
<1> HIDE DEF p, x
<1>4. IsState(x)
  BY <1>1, <1>2, <1>3, StateOf DEF Fixed, Clean
<1>5. FixedState(x) /\ x.fields = p /\ x.kind = "object"
  BY <1>1, <1>3, <1>4, ObjectFacts DEF FixedState
<1>6. CleanState(x) /\ Loaded(x) = x
  BY <1>5, FixedStateSame
<1>7. Kept(x, {}, {})
  <2>1. \A f \in Sessions : Names(f, x.fields[f]) = {}
    BY <1>3, <1>5 DEF Sessions, Fields
  <2> QED
    BY <2>1 DEF Kept
<1>8. Holds(x, {}, {})
  BY <1>4, <1>5, <1>6, <1>7 DEF Holds
<1> QED
  BY <1>6, <1>8 DEF x

LEMMA OpensWritten ==
    ASSUME DocumentInv, Loads(Found), NEW f \in Fields, NEW k \in Ids, Opens(f, k)
    PROVE  StateWritten
<1> DEFINE x == Loaded(Found)
           w == x.fields[f]
           v == With(f, w, k)
           y == Object([x.fields EXCEPT ![f] = v])
           names == named \cup {<<f, k>>}
<1>1. /\ f # "plain" /\ k \notin Names(f, w) /\ stateJson' = Parsed(y)
      /\ named' = names /\ finished' = finished
  BY DEF Opens, Writes, InField, With
<1>2. FixedState(x) /\ Holds(Found, named, finished)
  BY FoundHolds, LoadedKept
<1>3. /\ Kept(x, named, finished)
      /\ named \subseteq (Fields \ {"plain"}) \X Ids /\ finished \subseteq named
  BY <1>2 DEF Holds
<1>4. Fixed(f, w)
  BY <1>2 DEF FixedState
<1> HIDE DEF x
<1>5. /\ Fixed(f, v) /\ Names(f, v) = Names(f, w) \cup {k}
      /\ \A j : j # k => NamedItems(f, v, j) \subseteq NamedItems(f, w, j)
  BY <1>1, <1>4, WithFacts
<1>6. v = LoadedField(f, v) /\ Clean(f, v)
  BY <1>5, FixedLoaded DEF Fixed
<1> HIDE DEF v, w
<1>7. names \subseteq (Fields \ {"plain"}) \X Ids /\ finished \subseteq names
  BY <1>1, <1>3
<1>8. \A g \in Fields \ {f}, j \in Ids : /\ <<g, j>> \in names <=> <<g, j>> \in named
                                        /\ <<g, j>> \in finished <=> <<g, j>> \in finished
  OBVIOUS
<1>9. \A j \in Ids : <<f, j>> \in names <=> <<f, j>> \in named \/ j = k
  OBVIOUS
<1>10. \A j \in Ids : <<f, j>> \in names => j \in Names(f, v)
  <2>1. f \notin Sessions => f = "digest"
    BY <1>1 DEF Fields, Sessions
  <2> QED
    BY <1>3, <1>5, <1>9, <2>1 DEF Kept, w
<1>11. f \in Sessions => \A j \in Ids : j \in Names(f, v) => <<f, j>> \in names
  BY <1>3, <1>5, <1>9 DEF Kept, w
<1>12. ASSUME f \in Sessions, NEW j \in Ids, <<f, j>> \in finished,
              NEW e \in NamedItems(f, v, j)
       PROVE  ~UpForWork(f, e)
  <2>1. <<f, j>> \in named
    BY <1>3, <1>12
  <2>2. j \in Names(f, w)
    BY <1>3, <1>12, <2>1 DEF Kept, w
  <2>3. e \in NamedItems(f, w, j)
    BY <1>1, <1>5, <1>12, <2>2
  <2> QED
    BY <1>3, <1>12, <2>3 DEF Kept, w
<1>13. CleanState(y) /\ Parsed(y) = y /\ Holds(y, names, finished)
  <2>1. f \in Fields \ {"plain"}
    BY <1>1
  <2>2. Elsewhere(f, named, finished, names, finished)
    BY <1>7, <1>8 DEF Elsewhere
  <2>3. InPlace(f, v, names, finished)
    BY <1>10, <1>11, <1>12 DEF InPlace
  <2> HIDE DEF names
  <2> QED
    BY <1>2, <1>3, <1>6, <2>1, <2>2, <2>3, FieldWriteKeeps
<1> HIDE DEF y
<1> QED
  BY <1>1, <1>13 DEF StateWritten

LEMMA FinishesWritten ==
    ASSUME DocumentInv, Loads(Found), NEW f \in DOMAIN Ends,
           NEW i \in DOMAIN InField(f).items, Finishes(f, i)
    PROVE  StateWritten
<1> DEFINE x == Loaded(Found)
           w == x.fields[f]
           v == Concluded(f, w, i)
           p == LoadedField(f, v)
           y == Object([x.fields EXCEPT ![f] = v])
           k == NameIn(f, w, i)
           only == {j \in DOMAIN w.items : NameIn(f, w, j) = k}
<1>1. /\ stateJson' = Parsed(y) /\ named' = named
      /\ finished' = IF Cardinality(only) = 1 THEN finished \cup {<<f, k>>} ELSE finished
  BY DEF Finishes, Writes, InField, Concluded
<1>2. f \in Sessions /\ f \in Fields \ {"plain"}
  BY EndTables DEF Sessions, Fields
<1>3. i \in DOMAIN w.items
  BY DEF InField
<1>4. FixedState(x) /\ Holds(Found, named, finished)
  BY FoundHolds, LoadedKept
<1>5. /\ Kept(x, named, finished)
      /\ named \subseteq (Fields \ {"plain"}) \X Ids /\ finished \subseteq named
  BY <1>4 DEF Holds
<1>6. Fixed(f, w) /\ IsVal(f, w)
  BY <1>2, <1>4 DEF FixedState, Fixed, Clean
<1>7. k \in Ids /\ <<f, k>> \in named
  <2>1. k \in Ids /\ k \in Names(f, w)
    BY <1>2, <1>3, <1>6, FixedNamed DEF Fixed
  <2> QED
    BY <1>2, <1>5, <2>1 DEF Kept
<1>8. Cardinality(only) = 1 => only = {i}
  <2>1. IsFiniteSet(DOMAIN w.items)
    <3>1. CASE w.shape = "list"
      <4>1. DOMAIN w.items = 1 .. Len(w.items) /\ Len(w.items) \in Nat
        BY <1>6, <3>1 DEF IsVal
      <4> QED
        BY <4>1, Places
    <3>2. CASE w.shape = "map"
      BY <1>6, <3>2 DEF IsVal
    <3> QED
      BY <1>3, <1>6, <3>1, <3>2, ItemFacts
  <2>2. IsFiniteSet(only) /\ i \in only
    BY <1>3, <2>1, FS_Subset
  <2> QED
    BY <2>2, FS_Singleton
<1> HIDE DEF x
<1>9. /\ Names(f, p) = Names(f, w)
      /\ \A j : (\A e \in NamedItems(f, w, j) : ~UpForWork(f, e))
                  => \A e \in NamedItems(f, p, j) : ~UpForWork(f, e)
      /\ only = {i} => \A e \in NamedItems(f, p, k) : ~UpForWork(f, e)
  BY <1>2, <1>3, <1>6, ConcludedKept
<1>10. Clean(f, v)
  BY <1>2, <1>3, <1>6, ConcludedFacts
<1> HIDE DEF v, w, only, k
<1>11. finished' \subseteq named /\ \A g \in Fields \ {f}, j \in Ids :
          /\ <<g, j>> \in named <=> <<g, j>> \in named
          /\ <<g, j>> \in finished' <=> <<g, j>> \in finished
  BY <1>1, <1>5, <1>7
<1>12. \A j \in Ids : <<f, j>> \in named <=> j \in Names(f, p)
  BY <1>2, <1>5, <1>9 DEF Kept, w
<1>13. ASSUME NEW j \in Ids, <<f, j>> \in finished', NEW e \in NamedItems(f, p, j)
       PROVE  ~UpForWork(f, e)
  <2>1. CASE <<f, j>> \in finished
    <3>1. \A d \in NamedItems(f, w, j) : ~UpForWork(f, d)
      BY <1>2, <1>5, <2>1 DEF Kept, w
    <3> QED
      BY <1>9, <1>13, <3>1
  <2>2. CASE <<f, j>> \notin finished
    <3>1. j = k /\ only = {i}
      BY <1>1, <1>8, <1>13, <2>2
    <3> QED
      BY <1>9, <1>13, <3>1
  <2> QED
    BY <2>1, <2>2
<1>14. CleanState(y) /\ Parsed(y) = y /\ Holds(y, named, finished')
  <2> DEFINE ends == finished'
  <2>1. InPlace(f, p, named, ends)
    BY <1>12, <1>13 DEF InPlace
  <2>2. Elsewhere(f, named, finished, named, ends)
    BY <1>5, <1>11 DEF Elsewhere
  <2> HIDE DEF ends, p
  <2>3. p = LoadedField(f, v)
    BY DEF p
  <2>4. CleanState(y) /\ Parsed(y) = y /\ Holds(y, named, ends)
    BY <1>2, <1>4, <1>5, <1>10, <2>1, <2>2, <2>3, FieldWriteKeeps
  <2> QED
    BY <2>4 DEF ends
<1> HIDE DEF y
<1> QED
  BY <1>1, <1>14 DEF StateWritten

LEMMA DocumentStep == DocumentInv /\ [FilesNext]_filesVars => DocumentInv'
<1> SUFFICES ASSUME DocumentInv, [FilesNext]_filesVars PROVE DocumentInv'
  OBVIOUS
<1>0. /\ script \in {"none", "state"} /\ wizard \in {"none", "state", "registry", "knowledge"}
      /\ UNCHANGED accountJson => AccountWritten
      /\ UNCHANGED <<stateJson, written, named, finished>> => StateWritten
  BY DEF DocumentInv, HeldInv, AccountWritten, StateWritten
<1>1. CASE ScriptAccount
  <2>1. AccountWritten
    BY <1>1, AccountLoadedWritten DEF ScriptAccount, AccountWritten
  <2> QED
    BY <1>0, <1>1, <2>1, WrittenKeeps DEF ScriptAccount, HistoryUnchanged
<1>2. CASE ScriptState
  <2>1. StateWritten
    <3>1. CASE Loads(stateJson)
      BY <1>2, <3>1, FoundHolds, LoadedWritten DEF ScriptState, HistoryUnchanged
    <3>2. CASE ~Loads(stateJson)
      BY <1>0, <1>2, <3>2 DEF ScriptState, HistoryUnchanged
    <3> QED
      BY <3>1, <3>2
  <2> QED
    BY <1>0, <1>2, <2>1, WrittenKeeps DEF ScriptState
<1>3. CASE LaunchAccount
  <2>1. AccountWritten /\ AcceptsAccount(accountJson')
    BY <1>3, StarterFacts DEF LaunchAccount, AccountWritten
  <2> QED
    BY <1>0, <1>3, <2>1, WrittenKeeps DEF LaunchAccount, HistoryUnchanged
<1>4. CASE LaunchState
  <2>1. CASE stateJson = Absent
    <3>1. named = {} /\ finished = {}
      BY <2>1, AccountKinds DEF DocumentInv, HeldInv, Holds
    <3>2. /\ stateJson' = Parsed(Object(AllMissing)) /\ named' = {} /\ finished' = {}
          /\ wizard' = "registry"
      BY <1>4, <2>1, <3>1 DEF LaunchState, HistoryUnchanged
    <3>3. CleanState(stateJson') /\ StateWritten
      BY <3>2, FreshState DEF StateWritten
    <3> QED
      BY <1>0, <1>4, <3>2, <3>3, WrittenKeeps, CleanStateSame DEF LaunchState
  <2>2. CASE stateJson # Absent
    BY <1>0, <1>4, <2>2, WrittenKeeps DEF LaunchState, HistoryUnchanged
  <2> QED
    BY <2>1, <2>2
<1>5. CASE Register \/ LaunchKnowledge
  BY <1>0, <1>5, WrittenKeeps DEF Register, LaunchKnowledge, HistoryUnchanged
<1>6. CASE BreaksOff \/ Starts \/ Stop
  BY <1>0, <1>6, WrittenKeeps DEF BreaksOff, Starts, Stop, HistoryUnchanged
<1>7. CASE SetLevel
  <2>1. AccountWritten
    <3>1. IsAccount(AccountLoaded(accountJson)) /\ AccountLoaded(accountJson).kind = "object"
      BY <1>7, AccountLoadedFacts DEF SetLevel, DocumentInv, HeldInv
    <3> DEFINE a == [AccountLoaded(accountJson) EXCEPT !.level = "right"]
    <3>2. IsAccount(a) /\ a.kind = "object"
      BY <3>1, LevelSet
    <3> HIDE DEF a
    <3>3. accountJson' = ParsedAccount(a)
      BY <1>7 DEF SetLevel, a
    <3> QED
      BY <3>2, <3>3, ParsedAccountFacts DEF AccountWritten
  <2> QED
    BY <1>0, <1>7, <2>1, WrittenKeeps DEF SetLevel, HistoryUnchanged
<1>8. ASSUME NEW f \in Fields, NEW k \in Ids, Loads(Found), Opens(f, k)
      PROVE  DocumentInv'
  <2>1. StateWritten
    BY <1>8, OpensWritten
  <2>2. UNCHANGED <<accountJson, script, wizard, registered>>
    BY <1>8 DEF Opens, Writes
  <2> QED
    BY <1>0, <2>1, <2>2, WrittenKeeps
<1>9. ASSUME NEW f \in DOMAIN Ends, NEW i \in DOMAIN InField(f).items,
             Loads(Found), Finishes(f, i)
      PROVE  DocumentInv'
  <2>1. StateWritten
    BY <1>9, FinishesWritten
  <2>2. UNCHANGED <<accountJson, script, wizard, registered>>
    BY <1>9 DEF Finishes, Writes
  <2> QED
    BY <1>0, <2>1, <2>2, WrittenKeeps
<1>10. CASE UNCHANGED filesVars
  BY <1>0, <1>10, WrittenKeeps DEF filesVars
<1> QED
  BY <1>1, <1>2, <1>3, <1>4, <1>5, <1>6, <1>7, <1>8, <1>9, <1>10 DEF FilesNext

LEMMA CheckKeepsDocuments == DocumentInv /\ [CheckNext]_allVars => DocumentInv'
<1> SUFFICES ASSUME DocumentInv, [CheckNext]_allVars PROVE DocumentInv'
  OBVIOUS
<1>0. /\ script \in {"none", "state"} /\ wizard \in {"none", "state", "registry", "knowledge"}
      /\ UNCHANGED accountJson => AccountWritten
      /\ UNCHANGED <<stateJson, written, named, finished>> => StateWritten
  BY DEF DocumentInv, HeldInv, AccountWritten, StateWritten
<1>1. CASE UNCHANGED filesVars
  BY <1>1, DocumentStep
<1>2. CASE FilesStep
  BY <1>2, DocumentStep DEF FilesStep
<1>3. CASE Tell
  <2>1. StateWritten
    BY <1>0, <1>3, LoadedWritten DEF Tell
  <2> QED
    BY <1>0, <1>3, <2>1, WrittenKeeps DEF Tell
<1>4. ASSUME NEW b \in BOOLEAN, HandlerSaves(b) PROVE DocumentInv'
  <2>1. AccountWritten
    BY <1>4, AccountLoadedWritten DEF HandlerSaves
  <2> QED
    BY <1>0, <1>4, <2>1, WrittenKeeps DEF HandlerSaves
<1>5. CASE LoginFails \/ CheckBegins \/ ReadState \/ LoadAccount \/ ReadKnowledge
             \/ (\E gate \in DOMAIN After : RunGate(gate)) \/ LastGate \/ Post \/ CheckEnds \/ Backup \/ Surroundings \/ WindowPasses
             \/ (\E r \in regen : Regenerate(r)) \/ UNCHANGED allVars
  <2>1. UNCHANGED filesVars
    BY <1>5 DEF LoginFails, CheckBegins, ReadState, LoadAccount, ReadKnowledge, RunGate,
                LastGate, Post, CheckEnds, Backup, Surroundings, WindowPasses, Regenerate,
                CheckStep, allVars
  <2> QED
    BY <1>1, <2>1
<1> QED
  BY <1>2, <1>3, <1>4, <1>5 DEF CheckNext

-----------------------------------------------------------------------------
(* The files as they are found.                                             *)

LEMMA EntriesAreEnt ==
    ASSUME NEW f \in Fields
    PROVE  Entries(f) \subseteq Ent(f)
<1>1. ScalarEntry \in Ent(f)
  BY EntOf DEF ScalarEntry
<1>2. ASSUME NEW e \in Entries(f), e # ScalarEntry
      PROVE  e \in Ent(f)
  <2>1. /\ e \in [own : Ids \cup {NoName}, plain : {TRUE}, status : Statuses[f],
                  phase : IF f = "target" THEN {"open", "operator_escalated"} ELSE {""}]
        /\ (e.status = "operator_escalated" /\ f = "target") <=> e.phase = "operator_escalated"
    BY <1>2 DEF Entries
  <2> QED
    BY <2>1 DEF Ent
<1> QED
  BY <1>1, <1>2

LEMMA ValuesAreVals ==
    ASSUME NEW f \in Fields, NEW v \in Values(f)
    PROVE  IsVal(f, v)
<1>1. CASE v \in {Missing, Scalar}
  BY <1>1, Empty
<1>2. ASSUME NEW n \in 0 .. MaxEntries, NEW s \in [1 .. n -> Entries(f)], v = List(s)
      PROVE  IsVal(f, v)
  <2>1. s \in Seq(Ent(f))
    BY <1>2, EntriesAreEnt, FilesAssumption
  <2> QED
    BY <1>2, <2>1 DEF IsVal, List
<1>3. ASSUME NEW K \in SUBSET Ids, IsFiniteSet(K), NEW m \in [K -> Entries(f)], v = Map(m)
      PROVE  IsVal(f, v)
  <2>1. m \in [K -> Ent(f)] /\ DOMAIN m = K
    BY EntriesAreEnt
  <2> QED
    BY <1>3, <2>1 DEF IsVal, Map
<1> QED
  BY <1>1, <1>2, <1>3 DEF Values

LEMMA FirstHolds ==
    ASSUME NEW x, IsState(x), NEW names, names = NamedAtFirst(x.fields),
           NEW ends, ends = {n \in names : \A e \in NamedItems(n[1], x.fields[n[1]], n[2]) : Done(n[1], e)}
    PROVE  Holds(x, names, ends)
<1>1. Fields \ {"digest", "plain"} = Sessions /\ "digest" \notin Sessions
  BY DEF Fields, Sessions
<1>2. \A f \in Sessions : IsVal(f, x.fields[f]) /\ Names(f, x.fields[f]) \subseteq Ids
  BY <1>1, NamesAreIds DEF IsState
<1>3. \A n : n \in names <=> \E f \in Sessions : \E k \in Names(f, x.fields[f]) : n = <<f, k>>
  BY <1>1 DEF NamedAtFirst
<1>4. \A f, k : <<f, k>> \in names <=> f \in Sessions /\ k \in Names(f, x.fields[f])
  BY <1>3
<1>5. names \subseteq (Fields \ {"plain"}) \X Ids
  BY <1>1, <1>2, <1>3
<1>6. ASSUME Loads(x)
      PROVE  Kept(Loaded(x), names, ends)
  <2> DEFINE p == [f \in Fields |-> LoadedField(f, Raw(x, f))]
  <2>1. Loaded(x).fields = p /\ \A f \in Fields : AcceptsField(f, MigratedField(f, Raw(x, f)))
    BY <1>6, LoadFacts, ObjectFacts
  <2>2. \A f \in Fields : Raw(x, f) = x.fields[f]
    BY ObjectFacts DEF Raw, IsState
  <2>3. \A f \in Sessions : /\ p[f] = LoadedField(f, x.fields[f]) /\ IsVal(f, x.fields[f])
                            /\ AcceptsField(f, MigratedField(f, x.fields[f]))
    BY <1>1, <1>2, <2>1, <2>2
  <2> HIDE DEF p
  <2>4. \A f \in Sessions :
          /\ Names(f, p[f]) = Names(f, x.fields[f])
          /\ \A k : (\A e \in NamedItems(f, x.fields[f], k) : Done(f, e))
                      => \A d \in NamedItems(f, p[f], k) : ~UpForWork(f, d)
    BY <2>3, FieldFound
  <2>5. \A f \in Sessions, k \in Ids : <<f, k>> \in ends =>
          \A e \in NamedItems(f, p[f], k) : ~UpForWork(f, e)
    BY <2>4
  <2> QED
    BY <1>1, <1>4, <2>1, <2>4, <2>5 DEF Kept
<1>7. x.kind = "object"
  BY ObjectFacts DEF IsState
<1> QED
  BY <1>5, <1>6, <1>7 DEF Holds

LEMMA DocumentInit == FilesInit => DocumentInv
<1> SUFFICES ASSUME FilesInit PROVE DocumentInv
  OBVIOUS
<1>1. IsAccount(accountJson)
  BY StarterFacts DEF FilesInit, IsAccount, Accounts
<1>2. /\ stateJson \in {Absent, Garbage, NoObject}
      \/ IsState(stateJson)
  <2>2. IsState(Object(AllMissing))
    BY EmptyState
  <2>3. ASSUME NEW f \in Fields, NEW v \in Values(f)
        PROVE  IsState(Object([AllMissing EXCEPT ![f] = v]))
    <3> DEFINE d == [AllMissing EXCEPT ![f] = v]
    <3>1. /\ DOMAIN d = Fields /\ d = [g \in DOMAIN d |-> d[g]] /\ d[f] = v
          /\ \A g \in Fields \ {f} : d[g] = Missing
      BY DEF AllMissing
    <3> HIDE DEF d
    <3>2. \A g \in Fields : IsVal(g, d[g])
      BY <3>1, ValuesAreVals, Empty
    <3>3. IsState(Object(d))
      BY <3>1, <3>2, StateOf
    <3> QED
      BY <3>3 DEF d
  <2> QED
    BY <2>2, <2>3 DEF FilesInit
<1>3. Holds(stateJson, named, finished)
  <2>1. CASE IsState(stateJson)
    <3>1. stateJson.kind = "object"
      BY <2>1, ObjectFacts DEF IsState
    <3>2. named = NamedAtFirst(stateJson.fields)
      BY <3>1 DEF FilesInit
    <3>3. finished = {n \in named :
             \A e \in NamedItems(n[1], stateJson.fields[n[1]], n[2]) : Done(n[1], e)}
      BY DEF FilesInit
    <3> QED
      BY <2>1, <3>2, <3>3, FirstHolds
  <2>2. CASE stateJson \in {Absent, Garbage, NoObject}
    <3>1. stateJson.kind \in {"absent", "garbage", "other"}
      BY <2>2, AccountKinds
    <3>2. named = {} /\ finished = {}
      BY <3>1 DEF FilesInit
    <3>3. Loads(stateJson) => Kept(Loaded(stateJson), {}, {})
      BY <3>1, NothingKept DEF Raw
    <3> QED
      BY <3>1, <3>2, <3>3 DEF Holds
  <2> QED
    BY <1>2, <2>1, <2>2
<1> QED
  BY <1>1, <1>3 DEF FilesInit, DocumentInv, HeldInv, LaunchInv

\* Whatever state.json is found in, and whoever writes it: what is read can be written
\* and is read the same again (migrateState, readState), what this program wrote means
\* the same without migration, and an account in the registry has both files in its
\* form (launchAccount).
THEOREM FilesInvHolds == CheckSpec => []FilesInv
<1>1. DocumentInv => FilesInv
  <2> SUFFICES ASSUME DocumentInv PROVE FilesInv
    OBVIOUS
  <2>1. FilesTypeOK
    <3>1. accountJson.kind \in {"absent", "garbage", "other", "object"}
      <4>1. accountJson \in {Absent, Garbage, NoObject} \/ accountJson.kind = "object"
        BY DEF DocumentInv, HeldInv, IsAccount, AccountRecords
      <4> QED
        BY <4>1, AccountKinds
    <3> QED
      BY <3>1 DEF FilesTypeOK, DocumentInv, HeldInv, Holds
  <2>2. Loads(stateJson) =>
          LET x == Loaded(stateJson) IN Accepts(x) /\ Parsed(x) = x /\ Migrated(x) = x
    BY LoadedKept, FixedStateSame, CleanStateSame DEF DocumentInv, HeldInv
  <2>3. written => Accepts(stateJson) /\ Parsed(stateJson) = stateJson
    BY CleanStateSame DEF DocumentInv, HeldInv
  <2>4. AccountLoads(accountJson) =>
          LET x == AccountLoaded(accountJson) IN AcceptsAccount(x) /\ AccountLoaded(x) = x
    BY AccountLoadedFacts DEF DocumentInv, HeldInv
  <2> QED
    BY <2>1, <2>2, <2>3, <2>4 DEF FilesInv, Settled, RegisteredHasFiles, DocumentInv, LaunchInv
<1>2. CheckInit => DocumentInv
  BY DocumentInit DEF CheckInit
<1> QED
  BY <1>1, <1>2, CheckKeepsDocuments, PTL DEF CheckSpec

\* However a session, queue item or tracked tweet is kept in the file that is found (its
\* field a list or a map, its status one of the Python program's), no reader loses its
\* name, and what was finished is never up for work again (schema-migration.ts): a tweet
\* would be posted or shown a second time.
THEOREM FinishedStaysHolds == CheckSpec => []FinishedStays
<1>1. DocumentInv => FinishedStays
  <2> SUFFICES ASSUME DocumentInv, Loads(stateJson)
               PROVE  /\ \A n \in named : n[2] \in Names(n[1], InField(n[1]))
                      /\ \A n \in finished :
                            \A e \in NamedItems(n[1], InField(n[1]), n[2]) : ~UpForWork(n[1], e)
    BY DEF FinishedStays
  <2>0. Found = stateJson
    BY FoundHolds
  <2>1. /\ Kept(Loaded(stateJson), named, finished)
        /\ named \subseteq (Fields \ {"plain"}) \X Ids /\ finished \subseteq named
    BY DEF DocumentInv, HeldInv, Holds
  <2>2. ASSUME NEW n \in named
        PROVE  n \in (Sessions \cup {"digest"}) \X Ids /\ n = <<n[1], n[2]>>
    BY <2>1 DEF Fields, Sessions
  <2>3. ASSUME NEW n \in named
        PROVE  n[2] \in Names(n[1], InField(n[1]))
    BY <2>0, <2>1, <2>2 DEF Kept, InField
  <2>4. ASSUME NEW n \in finished, NEW e \in NamedItems(n[1], InField(n[1]), n[2])
        PROVE  ~UpForWork(n[1], e)
    <3>1. CASE n[1] \in Sessions
      BY <2>0, <2>1, <2>2, <2>4, <3>1 DEF Kept, InField
    <3>2. CASE n[1] = "digest"
      BY <3>2 DEF UpForWork
    <3> QED
      BY <2>1, <2>2, <3>1, <3>2
  <2> QED
    BY <2>3, <2>4
<1>2. CheckInit => DocumentInv
  BY DocumentInit DEF CheckInit
<1> QED
  BY <1>1, <1>2, CheckKeepsDocuments, PTL DEF CheckSpec

-----------------------------------------------------------------------------
(* The self-check.                                                          *)

Gates == {"account", "state", "knowledge", "llm", "disk", "doppler", "git", "registry",
          "runtime"}
CheckPcs == {"state", "load", "knowledge", "llm", "disk", "doppler", "git", "registry",
             "runtime", "tell", "post", "done"}
CheckRecords ==
    [pc : CheckPcs, failed : SUBSET Gates, warned : BOOLEAN, loaded : Nat \cup {NoName},
     ever : SUBSET Gates, always : SUBSET Gates]

\* The gates whose verdict is in when the check is at a place.
GatesPassed(place) ==
    CASE place = "state" -> {"account"}
      [] place \in {"load", "knowledge"} -> {"account", "state"}
      [] place = "llm" -> {"account", "state", "knowledge"}
      [] place = "disk" -> {"account", "state", "knowledge", "llm"}
      [] place = "doppler" -> {"account", "state", "knowledge", "llm", "disk"}
      [] place = "git" -> {"account", "state", "knowledge", "llm", "disk", "doppler"}
      [] place = "registry" -> Gates \ {"registry", "runtime"}
      [] place = "runtime" -> Gates \ {"runtime"}
      [] OTHER -> Gates

EnvOK(e) == DOMAIN e = DOMAIN Possible /\ \A f \in DOMAIN Possible : e[f] \in Possible[f]

CheckTypes ==
    /\ EnvOK(env) /\ revision \in Nat /\ knowledge \in Nat \cup {NoName}
    /\ regen \subseteq Nat
    /\ check = Idle \/ check \in CheckRecords

\* What failed was wrong at some moment; of the gates passed, what was wrong at
\* every moment failed.
FairInv ==
    ~At("idle") =>
        /\ check.failed \subseteq check.ever
        /\ (check.always \cap GatesPassed(check.pc)) \ {"knowledge"} \subseteq check.failed

\* Until the alert the check's history is up to date.
WatchInv ==
    check.pc \notin {"idle", "tell", "post", "done"} =>
        check.always \subseteq Wrong /\ Wrong \subseteq check.ever

\* An account that did not load, or one the knowledge files were or have become
\* different from, was wrong at a moment.
LoadInv ==
    /\ At("knowledge")
    /\ check.loaded = NoName \/ check.loaded # revision \/ knowledge # check.loaded
    => "knowledge" \in check.ever

AlertInv ==
    /\ At("post") /\ check.failed # {} => check.failed \in recent
    /\ At("done") /\ check.failed # {} => check.failed \in recent \/ untold = "state"

CheckInv == CheckTypes /\ FairInv /\ WatchInv /\ LoadInv /\ AlertInv

LEMMA EnvFacts ==
    ASSUME NEW e, EnvOK(e)
    PROVE  /\ e.llm \in {"key", "backend", "auto with a CLI", "auto", "none"}
           /\ e.disk \in {"enough", "low", "error"}
           /\ e.doppler \in {"alive", "no token", "rejected"}
           /\ e.git \in {"works", "fails"}
           /\ e.registry \in {"channels", "no channels", "no entry"}
           /\ e.runtime \in {"right", "old node", "no memory"}
BY DEF EnvOK, Possible

LEMMA GoodIsOK == EnvOK(Good)
<1>1. /\ DOMAIN Possible = {"llm", "x", "disk", "doppler", "git", "registry", "runtime"}
      /\ DOMAIN Good = DOMAIN Possible
  BY DEF Possible, Good
<1>2. Possible["x"] = BOOLEAN /\ Good["x"] = TRUE
  BY DEF Possible, Good
<1>3. /\ Good.llm \in Possible.llm /\ Good.disk \in Possible.disk
      /\ Good.doppler \in Possible.doppler /\ Good.git \in Possible.git
      /\ Good.registry \in Possible.registry /\ Good.runtime \in Possible.runtime
  BY DEF Possible, Good
<1>4. Good["x"] \in Possible["x"]
  BY <1>2, Zenon
<1> QED
  BY <1>1, <1>3, <1>4 DEF EnvOK

\* Each gate but that of the knowledge fails when what it looks at is wrong.
LEMMA Verdicts ==
    ASSUME EnvOK(env)
    PROVE  /\ Wrong \subseteq Gates
           /\ GateAccount = "fail" <=> "account" \in Wrong
           /\ GateState = "fail" <=> "state" \in Wrong
           /\ GateLlm = "fail" <=> "llm" \in Wrong
           /\ GateDisk = "fail" <=> "disk" \in Wrong
           /\ GateDoppler = "fail" <=> "doppler" \in Wrong
           /\ GateGit = "fail" <=> "git" \in Wrong
           /\ GateRegistry = "fail" <=> "registry" \in Wrong
           /\ GateRuntime = "fail" <=> "runtime" \in Wrong
           /\ "knowledge" \in Wrong <=> (~AccountLoads(accountJson) \/ knowledge # revision)
<1>1. Wrong \subseteq Gates
  BY DEF Wrong, Gates
<1>2. /\ "account" \in Wrong <=> ~AcceptsAccount(accountJson)
      /\ "state" \in Wrong <=> ~Accepts(stateJson)
      /\ "knowledge" \in Wrong <=> (~AccountLoads(accountJson) \/ knowledge # revision)
      /\ "llm" \in Wrong <=> env.llm \in {"auto", "none"}
      /\ "disk" \in Wrong <=> env.disk \in {"low", "error"}
      /\ "doppler" \in Wrong <=> env.doppler = "rejected"
      /\ "git" \in Wrong <=> dirty \/ env.git = "fails"
      /\ "registry" \in Wrong <=> env.registry \in {"no channels", "no entry"}
      /\ "runtime" \in Wrong <=> env.runtime \in {"old node", "no memory"}
  BY DEF Wrong
<1>3. \A c : Fails(c) = "fail" <=> c
  BY DEF Fails
<1>4. /\ env.registry \in {"channels", "no channels", "no entry"}
      /\ env.llm \in {"key", "backend", "auto with a CLI", "auto", "none"}
      /\ env.disk \in {"enough", "low", "error"}
      /\ env.doppler \in {"alive", "no token", "rejected"}
      /\ env.git \in {"works", "fails"}
      /\ env.runtime \in {"right", "old node", "no memory"}
  BY EnvFacts
<1>5. GateDoppler = "fail" <=> "doppler" \in Wrong
  BY <1>2, <1>4 DEF GateDoppler
<1>6. /\ GateAccount = "fail" <=> "account" \in Wrong
      /\ GateState = "fail" <=> "state" \in Wrong
  BY <1>2, <1>3 DEF GateAccount, GateState
<1>7. /\ GateLlm = "fail" <=> "llm" \in Wrong
      /\ GateDisk = "fail" <=> "disk" \in Wrong
      /\ GateGit = "fail" <=> "git" \in Wrong
  BY <1>2, <1>3, <1>4 DEF GateLlm, GateDisk, GateGit
<1>8. /\ GateRegistry = "fail" <=> "registry" \in Wrong
      /\ GateRuntime = "fail" <=> "runtime" \in Wrong
  BY <1>2, <1>3, <1>4 DEF GateRegistry, GateRuntime
<1> QED
  BY <1>1, <1>2, <1>5, <1>6, <1>7, <1>8

LEMMA RecordFacts ==
    ASSUME NEW c \in CheckRecords
    PROVE  /\ c.pc \in CheckPcs /\ c.pc # "idle" /\ c # Idle
           /\ c.failed \subseteq Gates /\ c.ever \subseteq Gates /\ c.always \subseteq Gates
           /\ c.loaded \in Nat \cup {NoName}
<1>1. c.pc \in CheckPcs /\ c.pc # "idle" /\ Idle.pc = "idle"
  BY DEF CheckRecords, CheckPcs, Idle
<1> QED
  BY <1>1 DEF CheckRecords

LEMMA WrongStays ==
    ASSUME UNCHANGED <<filesVars, env, revision, knowledge, dirty>>
    PROVE  Wrong' = Wrong
<1>1. UNCHANGED <<accountJson, stateJson, registered, env, revision, knowledge, dirty>>
  BY DEF filesVars
<1> QED
  BY <1>1 DEF Wrong

\* A gate that answers: what it says failed is wrong now, and what is wrong now of
\* the gates passed it says.
LEMMA CheckStepKeeps ==
    ASSUME CheckInv, check.pc \notin {"idle", "tell", "post", "done"},
           NEW c \in CheckRecords, CheckStep(c),
           c.ever = check.ever, c.always = check.always,
           c.failed \subseteq check.ever,
           (check.always \cap GatesPassed(c.pc)) \ {"knowledge"} \subseteq c.failed,
           /\ c.pc = "knowledge"
           /\ c.loaded = NoName \/ c.loaded # revision \/ knowledge # c.loaded
           => "knowledge" \in check.ever,
           c.pc # "post", c.pc = "done" => c.failed = {}
    PROVE  CheckInv'
<1> DEFINE n == Watched(c)
<1>1. /\ UNCHANGED <<env, revision, knowledge, regen, recent, untold>> /\ check' = n
      /\ Wrong' = Wrong
  BY WrongStays DEF CheckStep
<1>2. check \in CheckRecords /\ Idle.pc = "idle"
  BY DEF CheckInv, CheckTypes, Idle
<1>3. /\ check.always \subseteq Wrong /\ Wrong \subseteq check.ever /\ Wrong \subseteq Gates
  BY Verdicts DEF CheckInv, WatchInv, CheckTypes
<1>4. n = [c EXCEPT !.ever = @ \cup Wrong', !.always = @ \cap Wrong']
  BY RecordFacts DEF Watched
<1>5. /\ n \in CheckRecords /\ n.pc = c.pc /\ n.failed = c.failed /\ n.loaded = c.loaded
      /\ n.ever = check.ever /\ n.always = check.always
  <2>1. check.ever \cup Wrong' = check.ever /\ check.always \cap Wrong' = check.always
    BY <1>1, <1>3
  <2>2. n = [c EXCEPT !.ever = check.ever, !.always = check.always]
    BY <1>4, <2>1
  <2> HIDE DEF n
  <2> QED
    BY <2>2 DEF CheckRecords
<1> HIDE DEF n
<1>6. CheckTypes'
  BY <1>1, <1>5 DEF CheckInv, CheckTypes
<1>7. FairInv' /\ WatchInv'
  BY <1>1, <1>3, <1>5 DEF FairInv, WatchInv, At
<1>8. LoadInv'
  BY <1>1, <1>5 DEF LoadInv, At
<1>9. AlertInv'
  BY <1>1, <1>5 DEF AlertInv, At
<1> QED
  BY <1>6, <1>7, <1>8, <1>9 DEF CheckInv

\* What others do while a check is under way.  Account.json and the knowledge files
\* do not change in one step.
LEMMA MeanwhileKeeps ==
    ASSUME CheckInv, Meanwhile, UNCHANGED <<recent, untold>>,
           EnvOK(env'), revision' \in Nat, knowledge' \in Nat \cup {NoName},
           regen' \subseteq Nat, revision' = revision \/ knowledge' = knowledge
    PROVE  CheckInv'
<1>1. CASE check = Idle
  <2>1. check' = Idle /\ Idle.pc = "idle"
    BY <1>1 DEF Meanwhile, Watched, Idle
  <2> QED
    BY <2>1 DEF CheckInv, CheckTypes, FairInv, WatchInv, LoadInv, AlertInv, At
<1>2. CASE check # Idle
  <2>1. check \in CheckRecords
    BY <1>2 DEF CheckInv, CheckTypes
  <2>2. check' = [check EXCEPT !.ever = @ \cup Wrong', !.always = @ \cap Wrong']
    BY <2>1, RecordFacts DEF Meanwhile, Watched
  <2>3. Wrong' \subseteq Gates
    BY DEF Wrong, Gates
  <2>4. /\ check' \in CheckRecords /\ check'.pc = check.pc /\ check'.failed = check.failed
        /\ check'.loaded = check.loaded /\ check'.ever = check.ever \cup Wrong'
        /\ check'.always = check.always \cap Wrong'
    BY <2>1, <2>2, <2>3, RecordFacts DEF CheckRecords
  <2>5. CheckTypes'
    BY <2>4 DEF CheckTypes
  <2>6. FairInv' /\ WatchInv'
    BY <2>4 DEF CheckInv, FairInv, WatchInv, At
  <2>7. LoadInv'
    <3>1. knowledge # revision => "knowledge" \in Wrong
      BY Verdicts DEF CheckInv, CheckTypes
    <3>2. knowledge' # revision' => "knowledge" \in Wrong'
      BY DEF Wrong
    <3>3. At("knowledge") => Wrong \subseteq check.ever
      BY DEF CheckInv, WatchInv, At
    <3>4. CASE At("knowledge") /\ check.loaded = revision /\ knowledge = revision
      <4>1. check'.loaded = revision /\ check'.loaded # NoName
        BY <2>4, <3>4, PreflightAssumption DEF CheckInv, CheckTypes
      <4> QED
        BY <2>4, <3>2, <3>4, <4>1 DEF LoadInv
    <3>5. CASE At("knowledge") /\ ~(check.loaded = revision /\ knowledge = revision)
      <4>1. "knowledge" \in check.ever
        BY <3>1, <3>3, <3>5 DEF CheckInv, LoadInv
      <4> QED
        BY <2>4, <4>1 DEF LoadInv
    <3>6. CASE ~At("knowledge")
      BY <2>4, <3>6 DEF LoadInv, At
    <3> QED
      BY <3>4, <3>5, <3>6
  <2>8. AlertInv'
    BY <2>4 DEF CheckInv, AlertInv, At
  <2> QED
    BY <2>5, <2>6, <2>7, <2>8 DEF CheckInv
<1> QED
  BY <1>1, <1>2

LEMMA GateNames ==
    {"account", "state", "knowledge", "llm", "disk", "doppler", "git", "registry",
     "runtime"} \subseteq Gates
BY DEF Gates

\* A record of the check after one more verdict.
Hears(c, j, g, v) ==
    /\ j \in CheckRecords /\ j.ever = c.ever /\ j.always = c.always
    /\ j.failed = IF v = "fail" THEN c.failed \cup {g} ELSE c.failed

LEMMA JudgedFacts ==
    ASSUME NEW c \in CheckRecords, NEW g \in Gates, NEW v
    PROVE  Hears(c, Judged(c, g, v), g, v)
BY DEF Judged, CheckRecords, Hears

LEMMA Underway ==
    ASSUME CheckInv, check.pc \notin {"idle", "tell", "post", "done"}
    PROVE  /\ check \in CheckRecords
           /\ check.always \subseteq Wrong /\ Wrong \subseteq check.ever
           /\ check.failed \subseteq check.ever
           /\ (check.always \cap GatesPassed(check.pc)) \ {"knowledge"} \subseteq check.failed
BY DEF CheckInv, CheckTypes, WatchInv, FairInv, At, Idle

LEMMA CheckBeginsKeeps ==
    ASSUME CheckInv, CheckBegins
    PROVE  CheckInv'
<1>1. /\ check'.pc = "state" /\ check'.failed = {g \in {"account"} : GateAccount = "fail"}
      /\ check'.ever = Wrong /\ check'.always = Wrong
      /\ UNCHANGED <<env, revision, knowledge, regen>> /\ Wrong' = Wrong
  BY WrongStays DEF CheckBegins
<1>2. Wrong \subseteq Gates /\ (GateAccount = "fail" <=> "account" \in Wrong)
  BY Verdicts DEF CheckInv, CheckTypes
<1>3. check' \in CheckRecords
  BY <1>2 DEF CheckBegins, CheckRecords, CheckPcs, Gates
<1>4. CheckTypes'
  BY <1>1, <1>3 DEF CheckInv, CheckTypes
<1>5. FairInv' /\ WatchInv'
  BY <1>1, <1>2 DEF FairInv, WatchInv, GatesPassed
<1>6. LoadInv' /\ AlertInv'
  BY <1>1 DEF LoadInv, AlertInv, At
<1> QED
  BY <1>4, <1>5, <1>6 DEF CheckInv

LEMMA ReadStateKeeps ==
    ASSUME CheckInv, ReadState
    PROVE  CheckInv'
<1> DEFINE j == Judged(check, "state", GateState)
           c == [j EXCEPT !.pc = "load"]
<1>1. check.pc = "state" /\ CheckStep(c)
  BY DEF ReadState, At
<1>2. /\ j \in CheckRecords /\ j.ever = check.ever /\ j.always = check.always
      /\ j.failed = IF GateState = "fail" THEN check.failed \cup {"state"} ELSE check.failed
  <2>1. Hears(check, j, "state", GateState)
    BY <1>1, Underway, JudgedFacts, GateNames
  <2> QED
    BY <2>1 DEF Hears
<1> HIDE DEF j
<1>3. /\ c \in CheckRecords /\ c.pc = "load" /\ c.ever = check.ever /\ c.always = check.always
      /\ c.failed = j.failed
  BY <1>2 DEF CheckRecords, CheckPcs
<1> HIDE DEF c
<1>4. GateState = "fail" <=> "state" \in Wrong
  BY Verdicts DEF CheckInv, CheckTypes
<1>5. /\ c.failed \subseteq check.ever
      /\ (check.always \cap GatesPassed(c.pc)) \ {"knowledge"} \subseteq c.failed
  BY <1>1, <1>2, <1>3, <1>4, Underway DEF GatesPassed
<1> QED
  BY <1>1, <1>3, <1>5, CheckStepKeeps

LEMMA LoadAccountKeeps ==
    ASSUME CheckInv, LoadAccount
    PROVE  CheckInv'
<1> DEFINE loaded == IF AccountLoads(accountJson) THEN revision ELSE NoName
           c == [check EXCEPT !.pc = "knowledge", !.loaded = loaded]
<1>1. check.pc = "load" /\ CheckStep(c)
  BY DEF LoadAccount, At
<1>2. loaded \in Nat \cup {NoName} /\ NoName # revision
  BY PreflightAssumption DEF CheckInv, CheckTypes
<1>3. loaded = NoName \/ knowledge # loaded => "knowledge" \in Wrong
  BY <1>2, Verdicts DEF CheckInv, CheckTypes
<1>4. loaded # NoName => loaded = revision
  OBVIOUS
<1> HIDE DEF loaded
<1>5. /\ c \in CheckRecords /\ c.pc = "knowledge" /\ c.ever = check.ever
      /\ c.always = check.always /\ c.failed = check.failed /\ c.loaded = loaded
  BY <1>1, <1>2, Underway DEF CheckRecords, CheckPcs
<1> HIDE DEF c
<1>6. (check.always \cap GatesPassed(c.pc)) \ {"knowledge"} \subseteq c.failed
  BY <1>1, <1>5, Underway DEF GatesPassed
<1> QED
  BY <1>1, <1>3, <1>4, <1>5, <1>6, Underway, CheckStepKeeps

LEMMA ReadKnowledgeKeeps ==
    ASSUME CheckInv, ReadKnowledge
    PROVE  CheckInv'
<1>1. PICK missing \in MissingKeys(check.loaded) :
        LET verdict == GateKnowledge(check.loaded, missing) IN
        CheckStep([Judged(check, "knowledge", verdict) EXCEPT
                      !.pc = "llm", !.warned = verdict = "warn"])
  BY DEF ReadKnowledge
<1> DEFINE verdict == GateKnowledge(check.loaded, missing)
           j == Judged(check, "knowledge", verdict)
           c == [j EXCEPT !.pc = "llm", !.warned = verdict = "warn"]
<1>2. check.pc = "knowledge" /\ CheckStep(c)
  BY <1>1 DEF ReadKnowledge, At
<1>3. /\ j \in CheckRecords /\ j.ever = check.ever /\ j.always = check.always
      /\ j.failed = IF verdict = "fail" THEN check.failed \cup {"knowledge"} ELSE check.failed
  <2>1. Hears(check, j, "knowledge", verdict)
    BY <1>2, Underway, JudgedFacts, GateNames
  <2> QED
    BY <2>1 DEF Hears
<1>4. verdict = "fail" => "knowledge" \in check.ever
  <2>1. CASE check.loaded = NoName \/ knowledge # check.loaded
    BY <1>2, <2>1 DEF CheckInv, LoadInv, At
  <2>2. CASE check.loaded # NoName /\ knowledge = check.loaded
    <3>1. missing = 0
      BY <2>2 DEF MissingKeys
    <3> QED
      BY <2>2, <3>1 DEF GateKnowledge
  <2> QED
    BY <2>1, <2>2
<1> HIDE DEF j, verdict
<1>5. /\ c \in CheckRecords /\ c.pc = "llm" /\ c.ever = check.ever
      /\ c.always = check.always /\ c.failed = j.failed
  BY <1>3 DEF CheckRecords, CheckPcs
<1> HIDE DEF c
<1>6. /\ c.failed \subseteq check.ever
      /\ (check.always \cap GatesPassed(c.pc)) \ {"knowledge"} \subseteq c.failed
  BY <1>2, <1>3, <1>4, <1>5, Underway DEF GatesPassed
<1> QED
  BY <1>2, <1>5, <1>6, CheckStepKeeps

\* The verdict of a gate that only looks at the surroundings.
LEMMA VerdictFacts ==
    ASSUME CheckInv, NEW g \in DOMAIN After
    PROVE  /\ g \in Gates /\ After[g] \in CheckPcs \ {"tell", "post", "done"}
           /\ GatesPassed(After[g]) = GatesPassed(g) \cup {g}
           /\ After[g] # "knowledge"
           /\ Verdict(g) = "fail" <=> g \in Wrong
<1>1. EnvOK(env)
  BY DEF CheckInv, CheckTypes
<1>2. DOMAIN After = {"llm", "disk", "doppler", "git", "registry"}
  BY DEF After
<1>3. CASE g = "llm"
  BY <1>1, <1>3, Verdicts DEF After, Verdict, GatesPassed, Gates, CheckPcs
<1>4. CASE g = "disk"
  BY <1>1, <1>4, Verdicts DEF After, Verdict, GatesPassed, Gates, CheckPcs
<1>5. CASE g = "doppler"
  BY <1>1, <1>5, Verdicts DEF After, Verdict, GatesPassed, Gates, CheckPcs
<1>6. CASE g = "git"
  BY <1>1, <1>6, Verdicts DEF After, Verdict, GatesPassed, Gates, CheckPcs
<1>7. CASE g = "registry"
  BY <1>1, <1>7, Verdicts DEF After, Verdict, GatesPassed, Gates, CheckPcs
<1> QED
  BY <1>2, <1>3, <1>4, <1>5, <1>6, <1>7

LEMMA RunGateKeeps ==
    ASSUME CheckInv, NEW g \in DOMAIN After, RunGate(g)
    PROVE  CheckInv'
<1> DEFINE v == Verdict(g)
           n == After[g]
           j == Judged(check, g, v)
           c == [j EXCEPT !.pc = n]
<1>1. check.pc = g /\ CheckStep(c)
  BY DEF RunGate, At
<1>2. /\ g \in Gates /\ n \in CheckPcs \ {"tell", "post", "done"} /\ n # "knowledge"
      /\ GatesPassed(n) = GatesPassed(g) \cup {g} /\ (v = "fail" <=> g \in Wrong)
  BY VerdictFacts
<1>3. g \notin {"idle", "tell", "post", "done"}
  BY DEF After
<1> HIDE DEF v, n
<1>4. /\ j \in CheckRecords /\ j.ever = check.ever /\ j.always = check.always
      /\ j.failed = IF v = "fail" THEN check.failed \cup {g} ELSE check.failed
  <2>1. Hears(check, j, g, v)
    BY <1>1, <1>2, <1>3, Underway, JudgedFacts
  <2> QED
    BY <2>1 DEF Hears
<1> HIDE DEF j
<1>5. /\ c \in CheckRecords /\ c.pc = n /\ c.ever = check.ever /\ c.always = check.always
      /\ c.failed = j.failed
  BY <1>2, <1>4 DEF CheckRecords
<1> HIDE DEF c
<1>6. /\ c.failed \subseteq check.ever
      /\ (check.always \cap GatesPassed(c.pc)) \ {"knowledge"} \subseteq c.failed
  BY <1>1, <1>2, <1>3, <1>4, <1>5, Underway
<1> QED
  BY <1>1, <1>2, <1>3, <1>5, <1>6, CheckStepKeeps

LEMMA LastGateKeeps ==
    ASSUME CheckInv, LastGate
    PROVE  CheckInv'
<1> DEFINE j == Judged(check, "runtime", GateRuntime)
           c == [j EXCEPT !.pc = IF j.failed # {} \/ j.warned THEN "tell" ELSE "done"]
<1>1. check.pc = "runtime" /\ CheckStep(c)
  BY DEF LastGate, At
<1>2. /\ j \in CheckRecords /\ j.ever = check.ever /\ j.always = check.always
      /\ j.failed = IF GateRuntime = "fail" THEN check.failed \cup {"runtime"}
                    ELSE check.failed
  <2>1. Hears(check, j, "runtime", GateRuntime)
    BY <1>1, Underway, JudgedFacts, GateNames
  <2> QED
    BY <2>1 DEF Hears
<1> HIDE DEF j
<1>3. /\ c \in CheckRecords /\ c.pc \in {"tell", "done"} /\ c.ever = check.ever
      /\ c.always = check.always /\ c.failed = j.failed
      /\ c.pc = "done" => c.failed = {}
  BY <1>2 DEF CheckRecords, CheckPcs
<1> HIDE DEF c
<1>4. GateRuntime = "fail" <=> "runtime" \in Wrong
  BY Verdicts DEF CheckInv, CheckTypes
<1>5. /\ c.failed \subseteq check.ever
      /\ (check.always \cap GatesPassed(c.pc)) \ {"knowledge"} \subseteq c.failed
  <2>1. GatesPassed(c.pc) = GatesPassed(check.pc) \cup {"runtime"}
    BY <1>1, <1>3 DEF GatesPassed, Gates
  <2> QED
    BY <1>1, <1>2, <1>3, <1>4, <2>1, Underway
<1> QED
  BY <1>1, <1>3, <1>5, CheckStepKeeps

LEMMA TellKeeps ==
    ASSUME CheckInv, Tell
    PROVE  CheckInv'
<1>1. /\ check.pc = "tell" /\ UNCHANGED <<env, revision, knowledge, regen>>
      /\ check' = [check EXCEPT !.pc = "done"] \/ check' = [check EXCEPT !.pc = "post"]
  BY DEF Tell, At
<1>2. check \in CheckRecords
  BY <1>1 DEF CheckInv, CheckTypes, Idle
<1>3. /\ check' \in CheckRecords /\ check'.pc \in {"done", "post"}
      /\ check'.failed = check.failed /\ check'.ever = check.ever
      /\ check'.always = check.always
  BY <1>1, <1>2 DEF CheckRecords, CheckPcs
<1>4. check.failed # {} => check.failed \in recent' \/ (check'.pc = "done" /\ untold' = "state")
  <2>1. CASE Loads(Found)
    <3>1. recent' = recent \cup {Reason}
      BY <2>1 DEF Tell
    <3> QED
      BY <3>1 DEF Reason
  <2>2. CASE ~Loads(Found)
    <3>1. check' = [check EXCEPT !.pc = "done"] /\ (check.failed # {} => untold' = "state")
      BY <2>2 DEF Tell
    <3> QED
      BY <1>2, <3>1 DEF CheckRecords
  <2> QED
    BY <2>1, <2>2
<1>5. CheckTypes'
  BY <1>1, <1>3 DEF CheckInv, CheckTypes
<1>6. FairInv' /\ WatchInv' /\ LoadInv'
  BY <1>1, <1>3 DEF CheckInv, FairInv, WatchInv, LoadInv, At, GatesPassed
<1>7. AlertInv'
  BY <1>3, <1>4 DEF AlertInv, At
<1> QED
  BY <1>5, <1>6, <1>7 DEF CheckInv

LEMMA PostKeeps ==
    ASSUME CheckInv, Post
    PROVE  CheckInv'
<1>1. /\ check.pc = "post" /\ check' = [check EXCEPT !.pc = "done"]
      /\ UNCHANGED <<env, revision, knowledge, regen, recent>>
  BY DEF Post, At
<1>2. check \in CheckRecords
  BY <1>1 DEF CheckInv, CheckTypes, Idle
<1>3. /\ check' \in CheckRecords /\ check'.pc = "done" /\ check'.failed = check.failed
      /\ check'.ever = check.ever /\ check'.always = check.always
  BY <1>1, <1>2 DEF CheckRecords, CheckPcs
<1>4. CheckTypes'
  BY <1>1, <1>3 DEF CheckInv, CheckTypes
<1>5. FairInv' /\ WatchInv' /\ LoadInv' /\ AlertInv'
  BY <1>1, <1>3 DEF CheckInv, FairInv, WatchInv, LoadInv, AlertInv, At, GatesPassed
<1> QED
  BY <1>4, <1>5 DEF CheckInv

LEMMA CheckInvInit == CheckInit => CheckInv
<1> SUFFICES ASSUME CheckInit PROVE CheckInv
  OBVIOUS
<1>1. check.pc = "idle" /\ check = Idle /\ EnvOK(env)
  BY GoodIsOK DEF CheckInit, Idle
<1>2. CheckTypes
  BY <1>1 DEF CheckInit, CheckTypes
<1> QED
  BY <1>1, <1>2 DEF CheckInv, FairInv, WatchInv, LoadInv, AlertInv, At

LEMMA CheckInvStep == CheckInv /\ [CheckNext]_allVars => CheckInv'
<1> SUFFICES ASSUME CheckInv, [CheckNext]_allVars PROVE CheckInv'
  OBVIOUS
<1>1. CASE CheckBegins \/ ReadState \/ LoadAccount \/ ReadKnowledge
             \/ (\E gate \in DOMAIN After : RunGate(gate)) \/ LastGate \/ Tell \/ Post
  BY <1>1, CheckBeginsKeeps, ReadStateKeeps, LoadAccountKeeps, ReadKnowledgeKeeps,
     RunGateKeeps, LastGateKeeps, TellKeeps, PostKeeps
<1>2. CASE CheckEnds
  <2>1. check' = Idle /\ Idle.pc = "idle" /\ UNCHANGED <<env, revision, knowledge, regen>>
    BY <1>2 DEF CheckEnds, Idle
  <2> QED
    BY <2>1 DEF CheckInv, CheckTypes, FairInv, WatchInv, LoadInv, AlertInv, At
<1>3. CASE FilesStep
  BY <1>3, MeanwhileKeeps DEF FilesStep, CheckInv, CheckTypes
<1>4. CASE Backup
  BY <1>4, MeanwhileKeeps DEF Backup, CheckInv, CheckTypes
<1>9. CASE Surroundings
  <2>1. PICK f \in DOMAIN Possible : \E v \in Possible[f] : env' = [env EXCEPT ![f] = v]
    BY <1>9 DEF Surroundings
  <2>2. EnvOK(env')
    BY <2>1 DEF EnvOK, CheckInv, CheckTypes
  <2> QED
    BY <1>9, <2>2, MeanwhileKeeps DEF Surroundings, CheckInv, CheckTypes
<1>5. CASE LoginFails \/ WindowPasses
  <2>1. check.pc = "idle" /\ UNCHANGED <<env, revision, knowledge, regen, check>>
    BY <1>5 DEF LoginFails, WindowPasses, At
  <2> QED
    BY <2>1 DEF CheckInv, CheckTypes, FairInv, WatchInv, LoadInv, AlertInv, At
<1>6. ASSUME NEW b \in BOOLEAN, HandlerSaves(b) PROVE CheckInv'
  <2>1. revision' \in Nat /\ regen' \subseteq Nat
    BY <1>6 DEF HandlerSaves, CheckInv, CheckTypes
  <2> QED
    BY <1>6, <2>1, MeanwhileKeeps DEF HandlerSaves, CheckInv, CheckTypes
<1>7. ASSUME NEW r \in regen, Regenerate(r) PROVE CheckInv'
  <2>1. knowledge' \in Nat \cup {NoName} /\ regen' \subseteq Nat
    BY <1>7 DEF Regenerate, CheckInv, CheckTypes
  <2> QED
    BY <1>7, <2>1, MeanwhileKeeps DEF Regenerate, CheckInv, CheckTypes
<1>8. CASE UNCHANGED allVars
  <2>1. /\ UNCHANGED <<filesVars, env, revision, knowledge, regen, dirty, check, recent, untold>>
        /\ Wrong' = Wrong
    BY <1>8, WrongStays DEF allVars, pvars
  <2> QED
    BY <2>1 DEF CheckInv, CheckTypes, FairInv, WatchInv, LoadInv, AlertInv, At
<1> QED
  BY <1>1, <1>2, <1>3, <1>4, <1>5, <1>6, <1>7, <1>8, <1>9 DEF CheckNext

\* The verdict of a check is fair although its gates read one after the other, while the
\* bot, the operator and other crons go on (scripts/cron-self-check.ts, preflight.ts):
\* what fails was wrong at some moment, what was wrong at every moment fails, and when
\* something failed just that was let through to the alerts (preflight-gate.ts).
THEOREM VerdictIsFairHolds == CheckSpec => []VerdictIsFair
<1>1. CheckInv => VerdictIsFair
  <2> SUFFICES ASSUME CheckInv, At("done")
               PROVE  /\ check.failed \subseteq check.ever
                      /\ check.always \ {"knowledge"} \subseteq check.failed
                      /\ check.failed # {} => check.failed \in recent \/ untold = "state"
    BY DEF VerdictIsFair
  <2>1. check.pc = "done" /\ GatesPassed(check.pc) = Gates /\ check.always \subseteq Gates
    BY DEF At, GatesPassed, CheckInv, CheckTypes, CheckRecords, Idle
  <2> QED
    BY <2>1 DEF CheckInv, FairInv, AlertInv, At
<1>2. CheckSpec => CheckInit /\ [][CheckNext]_allVars
  BY DEF CheckSpec
<1> QED
  BY <1>1, <1>2, CheckInvInit, CheckInvStep, PTL
=============================================================================
