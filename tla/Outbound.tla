------------------------------ MODULE Outbound ------------------------------
(***************************************************************************)
(* What the program does towards services that fail: calls of the X API    *)
(* (src/src/x-api/client.ts) and of the models (src/src/llm/bridge.ts)     *)
(* through retryWithBackoff and a CircuitBreaker, the git backup of the    *)
(* account directory (account-state/git-sync.ts), and the operator alerts  *)
(* (automation/operator-escalation.ts, escalation-state.ts).               *)
(*                                                                         *)
(* A worker is one asynchronous call; calls interleave between awaits.     *)
(* What runs between two awaits, and a locked read-change-write of the     *)
(* state, is one step; a git command that changes the index begins and     *)
(* ends.  The writes of the account directory are numbered, and the tree,  *)
(* the index and the last commit known by the last write they hold.  Some  *)
(* writes ask for a backup of their own and some for none, and nothing     *)
(* orders the backups: the alert of a failing backup writes the state, and *)
(* so asks for another.  A counter that only appears in a message is left  *)
(* out.                                                                    *)
(***************************************************************************)
EXTENDS Naturals, FiniteSets

CONSTANTS
  Workers,        \* calls under way at a time
  Upstreams,      \* "x" and "llm", each with a breaker of its own
  MaxRetries,     \* retries of a call after its first attempt
  Threshold,      \* failures in a row that open a breaker
  ResetWait,      \* ticks an open breaker waits
  Probes,         \* calls let through half open
  Tolerance,      \* backups that fail in a row before the operator is told: 3
  Reasons,        \* reasons of alerts, "git" among them
  Window,         \* ticks in which a reason is posted once
  None,
  MaxFaults,      \* bound on failing attempts, commands and posts
  MaxWrites       \* bound on writes of the account directory by other parts

ASSUME OutboundAssumption ==
  /\ Upstreams \subseteq {"x", "llm"}
  /\ {Threshold, Probes, Tolerance, Window} \subseteq Nat \ {0}
  /\ {MaxRetries, ResetWait, MaxFaults, MaxWrites} \subseteq Nat
  /\ "git" \in Reasons
  /\ None \notin [seen : Nat, emitted : Nat]

VARIABLES
  circuit,  \* the breaker of each upstream
  git,      \* the working tree, the index and who has locked it, the last
            \* commit, and the counters of GitSync
  asked,    \* backups asked for and not begun
  alerts,   \* state.operator_escalation_recent, by ticks since
  job,      \* what each worker is doing
  last,     \* history variable: ticks since a reason was last let through
  faults, writes

vars == <<circuit, git, asked, alerts, job, last, faults, writes>>
-----------------------------------------------------------------------------
Idle == [at |-> "idle"]
At(w, place) == job[w].at = place
Goes(w, j) == job' = [job EXCEPT ![w] = j]
Fault == faults < MaxFaults /\ faults' = faults + 1

Breaker(state, failures, wait, inFlight, successes, period) ==
  [state |-> state, failures |-> failures, wait |-> wait, inFlight |-> inFlight,
   successes |-> successes, period |-> period]
NoBackup == [tree |-> 0, index |-> 0, head |-> 0, lock |-> None, failures |-> 0, told |-> FALSE]

Forgotten == 3 * Window + 1  \* ages are not told apart beyond this
Older(age) == IF age < Forgotten THEN age + 1 ELSE age

Init ==
  /\ circuit = [u \in Upstreams |-> Breaker("closed", 0, 0, 0, 0, 0)]
  /\ git = NoBackup
  /\ asked = 0
  /\ alerts = [r \in Reasons |-> None]
  /\ job = [w \in Workers |-> Idle]
  /\ last = [r \in Reasons |-> Forgotten]
  /\ faults = 0 /\ writes = 0

\* A write of the account directory.  AccountRepo asks for a backup after
\* withState, saveState, saveAccount, writeContent and writeKnowledgeFiles, in
\* the bot; writeState alone (the target buttons) does not, and the repos of
\* the crons have no GitSync.
Written(asks) ==
  /\ git' = [git EXCEPT !.tree = @ + 1]
  /\ asked' = IF asks THEN asked + 1 ELSE asked
-----------------------------------------------------------------------------
\* CircuitBreaker

HalfOpened(b) == Breaker("half-open", b.failures, b.wait, 0, 0, b.period + 1)
Seen(b) == IF b.state = "open" /\ b.wait = 0 THEN HalfOpened(b) ELSE b

Admitted(b) == IF b.state = "half-open" THEN [b EXCEPT !.inFlight = b.inFlight + 1] ELSE b

Refuses(b) == b.state = "open" \/ (b.state = "half-open" /\ b.inFlight >= Probes)

Opened(b, failures, inFlight, successes) ==
  Breaker("open", failures, ResetWait, inFlight, successes, b.period)

Succeeded(b) ==
  CASE b.state = "half-open" /\ b.successes + 1 >= Probes
         -> Breaker("closed", 0, b.wait, 0, 0, b.period)
    [] b.state = "half-open" /\ b.successes + 1 < Probes
         -> Breaker(b.state, b.failures, b.wait, IF b.inFlight > 0 THEN b.inFlight - 1 ELSE 0,
                    b.successes + 1, b.period)
    [] OTHER -> [b EXCEPT !.failures = 0]

FailedFaulty(b) ==  \* Faulty: the failure of a probe is not recorded.
  CASE b.state = "half-open" -> b
    [] b.state # "half-open" /\ b.failures + 1 >= Threshold
         -> Opened(b, Threshold, b.inFlight, b.successes)
    [] OTHER -> [b EXCEPT !.failures = b.failures + 1]
\* Failures beyond the threshold are not told apart.
Failed(b) ==
  CASE b.state = "half-open" -> Opened(b, b.failures, 0, 0)
    [] b.state # "half-open" /\ b.failures + 1 >= Threshold
         -> Opened(b, Threshold, b.inFlight, b.successes)
    [] OTHER -> [b EXCEPT !.failures = b.failures + 1]

Call(at, upstream, retries, base, period, tweets, unseen) ==
  [at |-> at, upstream |-> upstream, retries |-> retries, base |-> base, period |-> period,
   tweets |-> tweets, unseen |-> unseen]

\* A call begins: it is refused at once (X: the operator is told so each
\* time, with no window), or goes out.  A post may leave a tweet.
Begin(w, u) ==
  /\ At(w, "idle")
  /\ LET b == Seen(circuit[u]) IN
       \/ /\ Refuses(b)
          /\ circuit' = [circuit EXCEPT ![u] = b]
          /\ job' = job
       \/ /\ ~ Refuses(b)
          /\ circuit' = [circuit EXCEPT ![u] = Admitted(b)]
          /\ Goes(w, Call("attempt", u, 0, "short",
                          IF b.state = "half-open" THEN b.period ELSE 0, 0, 0))
  /\ UNCHANGED <<git, asked, alerts, last, faults, writes>>

Elsewhere == UNCHANGED <<git, asked, alerts, last, writes>>

Succeeds(w) ==
  /\ At(w, "attempt")
  /\ circuit' = [circuit EXCEPT ![job[w].upstream] = Succeeded(@)]
  /\ Goes(w, Idle)
  /\ Elsewhere /\ UNCHANGED faults

\* What an attempt can meet: the rate limit; nothing sent (5xx, network); a
\* tweet made whose answer is lost; a tweet made whose answer has no id; a
\* refusal (401, 403, other 4xx).  The last two are not tried again.
Outcomes == {"limited", "unsent", "unseen", "no id", "refused"}
Retried(outcome) == outcome \in {"limited", "unsent", "unseen"}

\* The delay is taken before onRetry is called, which lifts the base of the
\* delays that follow once a model has answered 429.
Fails(w, outcome) ==
  /\ At(w, "attempt")
  /\ Fault
  /\ LET j == job[w]
     IN /\ outcome \in {"unseen", "no id"} => j.upstream = "x"
        /\ \/ /\ Retried(outcome) /\ j.retries < MaxRetries
              /\ Goes(w, Call(IF outcome = "limited" THEN "limited" ELSE "sleep", j.upstream,
                              j.retries + 1, j.base, j.period,
                              IF outcome \in {"unseen", "no id"} THEN j.tweets + 1 ELSE j.tweets,
                              IF outcome = "unseen" THEN j.unseen + 1 ELSE j.unseen))
              /\ circuit' = circuit
           \/ /\ ~ (Retried(outcome) /\ j.retries < MaxRetries)
              /\ circuit' = [circuit EXCEPT ![j.upstream] = Failed(@)]
              /\ Goes(w, Idle)
  /\ Elsewhere

\* The sleep ends: job.base is what it was computed from.
Wakes(w) ==
  /\ job[w].at \in {"sleep", "limited"}
  /\ LET j == job[w] IN
       Goes(w, Call("attempt", j.upstream, j.retries,
                    IF j.upstream = "llm" /\ At(w, "limited") THEN "long" ELSE j.base,
                    j.period, j.tweets, j.unseen))
  /\ Elsewhere /\ UNCHANGED <<circuit, faults>>
-----------------------------------------------------------------------------
\* GitSync.syncMutation

Write(asks) ==
  /\ writes < MaxWrites /\ writes' = writes + 1
  /\ Written(asks)
  /\ UNCHANGED <<circuit, alerts, job, last, faults>>

\* of is the last write there was when the backup began.
Begins(w) ==
  /\ At(w, "idle") /\ asked > 0
  /\ asked' = asked - 1
  /\ Goes(w, [at |-> "add", of |-> git.tree])
  /\ UNCHANGED <<circuit, git, alerts, last, faults, writes>>

Around == UNCHANGED <<circuit, asked, alerts, last, writes>>
Moves(w, place) == Goes(w, [at |-> place, of |-> job[w].of])

\* git add and git commit take .git/index.lock, and fail when another run of
\* theirs has it.
Locks(w, place) ==
  /\ IF git.lock = None
       THEN git' = [git EXCEPT !.lock = w] /\ Moves(w, place)
       ELSE git' = git /\ Moves(w, "failed")
  /\ Around /\ UNCHANGED faults

AddBegins(w) == At(w, "add") /\ Locks(w, "adding")

\* Files written while git add runs may be in the index or not.
AddFaulty(w) ==  \* Faulty: what is not staged yet is compared, then staged.
  /\ At(w, "adding")
  /\ \E v \in job[w].of .. git.tree :
       git.index <= v /\ git' = [git EXCEPT !.index = v, !.lock = None]
  /\ Moves(w, IF git.index # git.head THEN "commit" ELSE "same")
  /\ Around /\ UNCHANGED faults
Add(w) ==
  /\ At(w, "adding")
  /\ \E v \in job[w].of .. git.tree :
       git.index <= v /\ git' = [git EXCEPT !.index = v, !.lock = None]
  /\ Moves(w, "diff")
  /\ Around /\ UNCHANGED faults

Diff(w) ==
  /\ At(w, "diff")
  /\ Moves(w, IF git.index # git.head THEN "commit" ELSE "same")
  /\ Around /\ UNCHANGED <<git, faults>>

CommitBegins(w) == At(w, "commit") /\ Locks(w, "committing")

\* A commit with nothing new in the index fails: another backup took it.
Commit(w) ==
  /\ At(w, "committing")
  /\ git' = [git EXCEPT !.head = git.index, !.lock = None]
  /\ Moves(w, IF git.index # git.head THEN "push" ELSE "failed")
  /\ Around /\ UNCHANGED faults

Push(w) ==
  /\ At(w, "push")
  /\ git' = [git EXCEPT !.failures = 0, !.told = FALSE]
  /\ Goes(w, Idle)
  /\ Around /\ UNCHANGED faults

\* A command fails of itself, or a push is stopped after thirty seconds.
GitFails(w) ==
  /\ job[w].at \in {"add", "adding", "diff", "commit", "committing", "push"}
  /\ Fault
  /\ git' = IF git.lock = w THEN [git EXCEPT !.lock = None] ELSE git
  /\ Moves(w, "failed")
  /\ Around

\* recordResult.  No change counts as a success, whatever is not pushed.
NothingNew(w) ==
  /\ At(w, "same")
  /\ git' = [git EXCEPT !.failures = 0, !.told = FALSE]
  /\ Goes(w, Idle)
  /\ Around /\ UNCHANGED faults

RecordFailure(w) ==
  /\ At(w, "failed")
  /\ LET tell == git.failures + 1 >= Tolerance /\ ~ git.told IN
       /\ git' = [git EXCEPT !.told = @ \/ tell,
                             !.failures = IF @ < Tolerance THEN @ + 1 ELSE @]
       /\ Goes(w, IF tell THEN [at |-> "judge", reason |-> "git"] ELSE Idle)
  /\ Around /\ UNCHANGED faults
-----------------------------------------------------------------------------
\* escalateOperator

\* Another part has something to tell the operator.
Raise(w, r) ==
  /\ At(w, "idle") /\ r # "git"
  /\ Fault
  /\ Goes(w, [at |-> "judge", reason |-> r])
  /\ UNCHANGED <<circuit, git, asked, alerts, last, writes>>

\* pruneExpired: an entry not seen for three windows is dropped.
Kept == [r \in Reasons |-> IF alerts[r] # None /\ alerts[r].seen > 3 * Window THEN None ELSE alerts[r]]

\* shouldEscalate: the entry is marked before anything is posted.  GitSync
\* is the bot's; the other alerts may be a cron's.
JudgeFaulty(w) ==  \* Faulty: an entry keeps the time of its first post.
  /\ At(w, "judge")
  /\ LET r == job[w].reason
         emits == Kept[r] = None \/ Kept[r].emitted >= Window
     IN /\ alerts' = [Kept EXCEPT ![r] =
             [seen |-> 0, emitted |-> IF Kept[r] = None THEN 0 ELSE Kept[r].emitted]]
        /\ last' = IF emits THEN [last EXCEPT ![r] = 0] ELSE last
        /\ Goes(w, IF emits THEN [at |-> "post", reason |-> r] ELSE Idle)
  /\ \E asks \in BOOLEAN : (job[w].reason = "git" => asks) /\ Written(asks)
  /\ UNCHANGED <<circuit, faults, writes>>
Judge(w) ==
  /\ At(w, "judge")
  /\ LET r == job[w].reason
         emits == Kept[r] # None => Kept[r].emitted >= Window
     IN /\ alerts' = [Kept EXCEPT ![r] =
             [seen |-> 0, emitted |-> IF emits THEN 0 ELSE Kept[r].emitted]]
        /\ last' = IF emits THEN [last EXCEPT ![r] = 0] ELSE last
        /\ Goes(w, IF emits THEN [at |-> "post", reason |-> r] ELSE Idle)
  /\ \E asks \in BOOLEAN : (job[w].reason = "git" => asks) /\ Written(asks)
  /\ UNCHANGED <<circuit, faults, writes>>

\* Posted, or not: nothing takes the mark back, and GitSync swallows it.
Post(w) ==
  /\ At(w, "post")
  /\ Goes(w, Idle)
  /\ UNCHANGED <<circuit, git, asked, alerts, last, faults, writes>>
-----------------------------------------------------------------------------
Tick ==
  /\ circuit' = [u \in Upstreams |->
       [circuit[u] EXCEPT !.wait = IF circuit[u].wait > 0 THEN circuit[u].wait - 1 ELSE 0]]
  /\ alerts' = [r \in Reasons |-> IF alerts[r] = None THEN None
       ELSE [seen |-> Older(alerts[r].seen), emitted |-> Older(alerts[r].emitted)]]
  /\ last' = [r \in Reasons |-> Older(last[r])]
  /\ UNCHANGED <<git, asked, job, faults, writes>>

Continues(w) ==
  \/ Wakes(w) \/ Begins(w) \/ AddBegins(w) \/ Add(w) \/ Diff(w) \/ CommitBegins(w) \/ Commit(w)
  \/ Push(w)
  \/ NothingNew(w) \/ RecordFailure(w) \/ Judge(w) \/ Post(w)

Next ==
  \/ \E w \in Workers : Continues(w) \/ Succeeds(w) \/ GitFails(w)
  \/ \E w \in Workers, u \in Upstreams : Begin(w, u)
  \/ \E w \in Workers, o \in Outcomes : Fails(w, o)
  \/ \E w \in Workers, r \in Reasons : Raise(w, r)
  \/ \E asks \in BOOLEAN : Write(asks)
  \/ Tick

\* Calls go on being made, time passes, and an upstream that is asked again
\* and again answers in the end.
Fairness ==
  /\ \A w \in Workers : WF_vars(Continues(w)) /\ SF_vars(Succeeds(w))
  /\ \A u \in Upstreams : SF_vars(\E w \in Workers : Begin(w, u))
  /\ WF_vars(Tick)

Spec == Init /\ [][Next]_vars /\ Fairness
-----------------------------------------------------------------------------
TypeOK ==
  /\ \A u \in Upstreams :
       /\ circuit[u].state \in {"closed", "open", "half-open"}
       /\ circuit[u].failures \in 0 .. Threshold
       /\ circuit[u].wait \in 0 .. ResetWait
       /\ circuit[u].inFlight \in 0 .. Probes /\ circuit[u].successes \in 0 .. Probes
  /\ git \in [tree : Nat, index : Nat, head : Nat, lock : Workers \cup {None},
              failures : 0 .. Tolerance, told : BOOLEAN]
  /\ asked \in Nat

\* At most as many calls as the budget probe an upstream half open, however
\* many from before it opened are still out or come back (CircuitBreaker).
ProbeBudget ==
  \A u \in Upstreams : circuit[u].state = "half-open" =>
    Cardinality({w \in Workers : job[w].at \in {"attempt", "sleep", "limited"}
                                  /\ job[w].upstream = u
                                  /\ job[w].period = circuit[u].period}) <= Probes

\* A call makes a second tweet only when the answer to the first was lost
\* on the way: nothing else that is tried again has made one (runWithRetry).
TweetedAgainOnlyUnseen ==
  \A w \in Workers : job[w].at \in {"attempt", "sleep"} => job[w].tweets <= job[w].unseen

\* A backup that does not count as failed has committed all that was written
\* before it began: its own write, those of the buttons and the crons that ask
\* for none, and those whose backup failed or met the lock of another.  This
\* although another backup may stage, commit and write between its commands
\* (syncMutation).
WritesAreCommitted ==
  \A w \in Workers : job[w].at \in {"same", "push"} => git.head >= job[w].of

\* The four of them together.
OutboundInv == TypeOK /\ ProbeBudget /\ TweetedAgainOnlyUnseen /\ WritesAreCommitted

\* Two posts of one reason are let through at least a window apart, however
\* many calls meet it at once (shouldEscalate).
OncePerWindow ==
  [][\A w \in Workers : At(w, "judge") /\ job'[w].at = "post" => last[job[w].reason] >= Window]_vars

\* A breaker closes again and again: no order of late answers and probes
\* leaves it open for good.
BreakerRecovers == \A u \in Upstreams : []<>(circuit[u].state = "closed")
=============================================================================
