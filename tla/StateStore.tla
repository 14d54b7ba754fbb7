----------------------------- MODULE StateStore -----------------------------
(***************************************************************************)
(* state.json and account.json (account-state/io.ts, repo.ts): the lock of *)
(* state.json with its retries and its staleness, calls that keep to it    *)
(* (withState), writers that do not (loadState ... writeState), and the    *)
(* write-back of a plan (account-state/plan-writeback.ts), which changes   *)
(* both files.                                                             *)
(*                                                                         *)
(* A call is made once, and what it changes is of no interest but that it  *)
(* is there: a file is the set of the calls whose change it holds.  The    *)
(* lock is a directory beside state.json; proper-lockfile renews its mtime *)
(* as long as the event loop of its holder runs.                           *)
(***************************************************************************)
EXTENDS Integers, FiniteSets

CONSTANTS
    Locked,      \* calls of withState
    Unlocked,    \* loadState, then writeState
    Writebacks,  \* calls of applyWriteback
    None,        \* nobody
    StaleAfter,  \* age in ticks at which the lock of a silent holder is taken away
    Patience,    \* ticks for which lock() tries again
    MaxCrashes,  \* bound: calls whose process dies
    MaxStalls    \* bound: holders whose event loop stands still

Calls == Locked \cup Unlocked \cup Writebacks
Keepers == Locked \cup Writebacks

ASSUME StoreAssumption ==
    /\ Locked \cap Unlocked = {} /\ Keepers \cap Unlocked = {} /\ Locked \cap Writebacks = {}
    /\ None \notin Calls
    /\ StaleAfter \in Nat \ {0} /\ Patience \in Nat
    /\ MaxCrashes \in Nat /\ MaxStalls \in Nat

VARIABLES
    exists,    \* state.json is there
    state,     \* state.json
    account,   \* account.json
    lock,      \* the call that made the lock directory
    age,       \* time since the lock was renewed
    pc,        \* where a call is
    copy,      \* call -> state.json as it read it
    snapshot,  \* write-back -> account.json as it read it
    patience,  \* call -> time left to try
    asleep,    \* calls whose event loop stands still
    overrun,   \* calls whose lock went stale in their hands
    excused,   \* changes an outsider's write undid or hid from the holder
    crashes, stalls

files == <<exists, state, account>>
locking == <<lock, age, patience>>
bounds == <<crashes, stalls>>
vars == <<files, locking, pc, copy, snapshot, asleep, overrun, excused, bounds>>

Holding == {"held", "read", "saved", "release", "abort"}
Ended == {"done", "failed", "dead"}
Pcs == Holding \cup Ended \cup {"idle", "check", "create", "wait", "outside"}

\* Calls that have read state.json under the lock and are about to write it.
Sections == {c \in Calls : pc[c] \in {"read", "saved"}}

TypeOK ==
    /\ exists \in BOOLEAN
    /\ state \subseteq Calls
    /\ account \subseteq Calls
    /\ lock \in Calls \cup {None}
    /\ age \in 0 .. StaleAfter
    /\ pc \in [Calls -> Pcs]
    /\ copy \in [Calls -> SUBSET Calls]
    /\ snapshot \in [Calls -> SUBSET Calls]
    /\ patience \in [Calls -> 0 .. Patience]
    /\ asleep \subseteq Calls
    /\ overrun \subseteq Calls
    /\ excused \subseteq Calls
    /\ crashes \in 0 .. MaxCrashes
    /\ stalls \in 0 .. MaxStalls

Init ==
    /\ exists \in BOOLEAN
    /\ state = {} /\ account = {}
    /\ lock = None /\ age = 0
    /\ pc = [c \in Calls |-> "idle"]
    /\ copy = [c \in Calls |-> {}]
    /\ snapshot = [c \in Calls |-> {}]
    /\ patience = [c \in Calls |-> 0]
    /\ asleep = {} /\ overrun = {} /\ excused = {}
    /\ crashes = 0 /\ stalls = 0

-----------------------------------------------------------------------------
Goes(c, from, to) ==
    /\ pc[c] = from
    /\ c \notin asleep
    /\ pc' = [pc EXCEPT ![c] = to]

\* A write from outside the lock: what it drops, and what it adds that a call
\* in its section has not read, may be missing from now on.
Trespass(new) ==
    excused' = excused \cup (state \ new) \cup UNION {new \ copy[h] : h \in Sections}

\* loadState of a call that takes no lock.
ReadOutside(c) ==
    /\ c \in Unlocked
    /\ Goes(c, "idle", "outside")
    /\ copy' = [copy EXCEPT ![c] = state]
    /\ UNCHANGED <<files, locking, snapshot, asleep, overrun, excused, bounds>>

WriteOutside(c) ==
    LET new == copy[c] \cup {c} IN
    /\ Goes(c, "outside", "done")
    /\ state' = new /\ exists' = TRUE
    /\ Trespass(new)
    /\ copy' = [copy EXCEPT ![c] = {}]
    /\ UNCHANGED <<account, locking, snapshot, asleep, overrun, bounds>>

\* applyWriteback reads account.json before it asks for the lock.
Start(c) ==
    /\ c \in Keepers
    /\ Goes(c, "idle", "check")
    /\ snapshot' = IF c \in Writebacks THEN [snapshot EXCEPT ![c] = account] ELSE snapshot
    /\ UNCHANGED <<files, locking, copy, asleep, overrun, excused, bounds>>

\* proper-lockfile wants the file to be there.
Check(c) ==
    /\ Goes(c, "check", IF exists THEN "wait" ELSE "create")
    /\ patience' = [patience EXCEPT ![c] = Patience]
    /\ UNCHANGED <<files, lock, age, copy, snapshot, asleep, overrun, excused, bounds>>

\* writeJsonAtomic of an empty object, whatever has come to be there.
Create(c) ==
    /\ Goes(c, "create", "wait")
    /\ state' = {} /\ exists' = TRUE
    /\ Trespass({})
    /\ UNCHANGED <<account, locking, copy, snapshot, asleep, overrun, bounds>>

IsFree == lock = None \/ age = StaleAfter

\* Faulty: a lock is taken away from whoever has it.
AcquireFaulty(c) ==
    /\ Goes(c, "wait", "held")
    /\ lock' = c /\ age' = 0
    /\ patience' = [patience EXCEPT ![c] = 0]
    /\ UNCHANGED <<files, copy, snapshot, asleep, overrun, excused, bounds>>

\* mkdir succeeds, or the directory there is stale and is replaced.
Acquire(c) ==
    /\ Goes(c, "wait", "held")
    /\ IsFree
    /\ lock' = c /\ age' = 0
    /\ patience' = [patience EXCEPT ![c] = 0]
    /\ UNCHANGED <<files, copy, snapshot, asleep, overrun, excused, bounds>>

\* The last try: ELOCKED.
GiveUp(c) ==
    /\ Goes(c, "wait", "failed")
    /\ ~IsFree /\ patience[c] = 0
    /\ UNCHANGED <<files, locking, copy, snapshot, asleep, overrun, excused, bounds>>

Read(c) ==
    /\ Goes(c, "held", "read")
    /\ copy' = [copy EXCEPT ![c] = state]
    /\ UNCHANGED <<files, locking, snapshot, asleep, overrun, excused, bounds>>

\* The callback of a write-back saves account.json ...
SaveAccount(c) ==
    /\ c \in Writebacks
    /\ Goes(c, "read", "saved")
    /\ account' = snapshot[c] \cup {c}
    /\ UNCHANGED <<exists, state, locking, copy, snapshot, asleep, overrun, excused, bounds>>

\* Faulty: what the call has read is not carried over.
WriteFaulty(c) ==
    /\ Goes(c, IF c \in Writebacks THEN "saved" ELSE "read", "release")
    /\ state' = {c} /\ exists' = TRUE
    /\ IF c \in overrun THEN Trespass(state') ELSE UNCHANGED excused
    /\ copy' = [copy EXCEPT ![c] = {}]
    /\ UNCHANGED <<account, locking, snapshot, asleep, overrun, bounds>>

\* ... and then, as for every call, withState writes state.json.
Write(c) ==
    LET new == copy[c] \cup {c} IN
    /\ Goes(c, IF c \in Writebacks THEN "saved" ELSE "read", "release")
    /\ state' = new /\ exists' = TRUE
    /\ IF c \in overrun THEN Trespass(new) ELSE UNCHANGED excused
    /\ copy' = [copy EXCEPT ![c] = {}]
    /\ UNCHANGED <<account, locking, snapshot, asleep, overrun, bounds>>

\* The callback, saveAccount or writeState throws.
Throws(c) ==
    /\ pc[c] \in {"read", "saved"}
    /\ Goes(c, pc[c], "abort")
    /\ copy' = [copy EXCEPT ![c] = {}]
    /\ UNCHANGED <<files, locking, snapshot, asleep, overrun, excused, bounds>>

\* Faulty: the lock is released only when the callback succeeds.
ReleaseFaulty(c) ==
    /\ \/ Goes(c, "release", "done") /\ lock' = IF lock = c THEN None ELSE lock
       \/ Goes(c, "abort", "failed") /\ UNCHANGED lock
    /\ age' = IF lock = c THEN 0 ELSE age
    /\ UNCHANGED <<files, patience, copy, snapshot, asleep, overrun, excused, bounds>>

\* finally: a lock that is gone is ignored.
Release(c) ==
    /\ \/ Goes(c, "release", "done")
       \/ Goes(c, "abort", "failed")
    /\ lock' = IF lock = c THEN None ELSE lock
    /\ age' = IF lock = c THEN 0 ELSE age
    /\ UNCHANGED <<files, patience, copy, snapshot, asleep, overrun, excused, bounds>>

-----------------------------------------------------------------------------
(* Time, sleep and death.                                                   *)

Renewed == lock = None \/ (lock \notin asleep /\ pc[lock] # "dead")

Tick ==
    LET older == IF Renewed THEN 0 ELSE IF age < StaleAfter THEN age + 1 ELSE age IN
    /\ age' = older
    /\ overrun' = IF older = StaleAfter /\ pc[lock] # "dead" THEN overrun \cup {lock} ELSE overrun
    /\ patience' = [c \in Calls |-> IF patience[c] > 0 THEN patience[c] - 1 ELSE 0]
    /\ UNCHANGED <<files, lock, pc, copy, snapshot, asleep, excused, bounds>>

Stall(c) ==
    /\ stalls < MaxStalls
    /\ pc[c] \in Holding /\ c \notin asleep
    /\ asleep' = asleep \cup {c}
    /\ stalls' = stalls + 1
    /\ UNCHANGED <<files, locking, pc, copy, snapshot, overrun, excused, crashes>>

Wake(c) ==
    /\ c \in asleep
    /\ asleep' = asleep \ {c}
    /\ UNCHANGED <<files, locking, pc, copy, snapshot, overrun, excused, bounds>>

Dies(c) ==
    /\ pc' = [pc EXCEPT ![c] = "dead"]
    /\ copy' = [copy EXCEPT ![c] = {}]
    /\ patience' = [patience EXCEPT ![c] = 0]
    /\ asleep' = asleep \ {c}
    /\ UNCHANGED <<files, lock, age, snapshot, overrun, excused, stalls>>

\* The renewal of a call that was overrun throws where nobody catches it.
Compromised(c) ==
    /\ c \in overrun /\ c \notin asleep /\ pc[c] \in Holding
    /\ Dies(c)
    /\ UNCHANGED crashes

Crash(c) ==
    /\ crashes < MaxCrashes
    /\ pc[c] \notin Ended \cup {"idle"}
    /\ Dies(c)
    /\ crashes' = crashes + 1

-----------------------------------------------------------------------------

Step(c) ==
    \/ WriteOutside(c)
    \/ Check(c) \/ Create(c) \/ Acquire(c) \/ GiveUp(c)
    \/ Read(c) \/ SaveAccount(c) \/ Write(c) \/ Throws(c) \/ Release(c)

Next ==
    \/ \E c \in Calls :
          \/ ReadOutside(c) \/ Start(c) \/ Step(c)
          \/ Stall(c) \/ Wake(c) \/ Compromised(c) \/ Crash(c)
    \/ Tick

Spec == Init /\ [][Next]_vars

\* A call that runs goes on, a loop that stands still runs again, time passes.
FairSpec ==
    /\ Spec
    /\ WF_vars(Tick)
    /\ \A c \in Calls : WF_vars(Step(c)) /\ WF_vars(Wake(c))

-----------------------------------------------------------------------------
(* Properties.                                                              *)

\* Two calls are between lock and release at once only if the lock of one of
\* them went stale in its hands.
MutualExclusion ==
    \A c, d \in Calls :
        c # d /\ pc[c] \in Holding /\ pc[d] \in Holding => {c, d} \cap overrun # {}

\* A change, once written, is in state.json until a writer from outside the
\* lock - one that takes none, one that found no file, one that was overrun -
\* drops it or slips it in behind the back of the holder.
KeptLog == INSTANCE Register WITH value <- state \cup excused
Implements == KeptLog!Spec

\* Every call ends - it succeeds, fails or dies - and the lock it leaves behind
\* is free, or stale so that the next call may take it.
CallsEnd == []<>(IsFree /\ \A c \in Calls : pc[c] \in Ended \cup {"idle"})
=============================================================================
