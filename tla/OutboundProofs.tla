--------------------------- MODULE OutboundProofs ---------------------------
(***************************************************************************)
(* For any calls, thresholds, windows, failures and writes: a backup that  *)
(* does not fail leaves in a commit all that was written before it began;  *)
(* only a lost answer lets a call make a second tweet; two posts of a      *)
(* reason are a window apart; and, with the probe budget of one that every *)
(* caller uses, one call probes a half-open breaker at a time.  A larger   *)
(* budget is not kept: a success that began before the breaker opened is   *)
(* counted as a probe's and lets a further one through.                    *)
(*                                                                         *)
(* The commit is never ahead of the index, nor the index of the tree; what *)
(* a backup began with is in the index after its add and in a commit after *)
(* its commit, or after it has found the two the same (CommitInv).  Calls  *)
(* carry the half-open period they were let through in, and no later one;  *)
(* in a half-open period without a call in flight none has begun, and with *)
(* a budget of one the first that returns ends it (ProbeInv).              *)
(***************************************************************************)
EXTENDS Outbound, FiniteSetTheorems, TLAPS

CallPlaces == {"attempt", "sleep", "limited"}
CallJobs == [at : CallPlaces, upstream : Upstreams, retries : Nat, base : {"short", "long"},
             period : Nat, tweets : Nat, unseen : Nat]
BackupPlaces ==
  {"add", "adding", "diff", "commit", "committing", "push", "same", "failed"}
BackupJobs == [at : BackupPlaces, of : Nat]
AlertJobs == [at : {"judge", "post"}, reason : Reasons]
Jobs == CallJobs \cup BackupJobs \cup AlertJobs \cup {Idle}
Breakers == [state : {"closed", "open", "half-open"}, failures : 0 .. Threshold,
             wait : 0 .. ResetWait, inFlight : 0 .. Probes, successes : 0 .. Probes, period : Nat]
Trees == [tree : Nat, index : Nat, head : Nat, lock : Workers \cup {None},
          failures : 0 .. Tolerance, told : BOOLEAN]
Ages == [seen : Nat, emitted : Nat]

Typed ==
  /\ circuit \in [Upstreams -> Breakers]
  /\ git \in Trees
  /\ asked \in Nat
  /\ job \in [Workers -> Jobs]
  /\ alerts \in [Reasons -> Ages \cup {None}]
  /\ last \in [Reasons -> Nat]

Calling(w) == job[w].at \in CallPlaces

TweetInv == \A w \in Workers : Calling(w) => job[w].tweets <= job[w].unseen

Fits(j, g) ==
  /\ j.of <= g.tree
  /\ j.at \in {"diff", "commit", "committing"} => j.of <= g.index
  /\ j.at \in {"same", "push"} => j.of <= g.head
CommitInv ==
  /\ git.head <= git.index /\ git.index <= git.tree
  /\ \A w \in Workers : job[w].at \in BackupPlaces => Fits(job[w], git)

WindowInv ==
  \A r \in Reasons :
    /\ alerts[r] = None => last[r] >= Window
    /\ alerts[r] # None => last[r] = alerts[r].emitted /\ alerts[r].seen <= alerts[r].emitted

Probes1(w, u) == Calling(w) /\ job[w].upstream = u /\ job[w].period = circuit[u].period
ProbeInv ==
  /\ \A w \in Workers : Calling(w) => job[w].period <= circuit[job[w].upstream].period
  /\ \A u \in Upstreams : circuit[u].state = "half-open" =>
       /\ circuit[u].period > 0
       /\ circuit[u].inFlight = 0 => \A w \in Workers : ~ Probes1(w, u)
       /\ \A w, v \in Workers : Probes1(w, u) /\ Probes1(v, u) => w = v

-----------------------------------------------------------------------------
(* The steps, by what they are about.                                       *)

CallStep(w) ==
  \/ \E u \in Upstreams : Begin(w, u)
  \/ Succeeds(w) \/ Wakes(w)
  \/ \E o \in Outcomes : Fails(w, o)
GitStep(w) ==
  \/ Begins(w) \/ AddBegins(w) \/ Add(w) \/ Diff(w) \/ CommitBegins(w) \/ Commit(w)
  \/ Push(w) \/ GitFails(w) \/ NothingNew(w) \/ RecordFailure(w)
AlertStep(w) == Judge(w) \/ Post(w) \/ \E r \in Reasons : Raise(w, r)

LEMMA NextSteps ==
  ASSUME [Next]_vars
  PROVE  \/ \E w \in Workers : CallStep(w) \/ GitStep(w) \/ AlertStep(w)
         \/ (\E asks \in BOOLEAN : Write(asks)) \/ Tick \/ UNCHANGED vars
BY DEF Next, Continues, CallStep, GitStep, AlertStep

-----------------------------------------------------------------------------
(* Types.                                                                   *)

LEMMA Numbers ==
  ASSUME OutboundAssumption
  PROVE  /\ Threshold \in Nat /\ Threshold > 0 /\ Probes \in Nat /\ Probes > 0
         /\ Tolerance \in Nat /\ Tolerance > 0 /\ Window \in Nat /\ Window > 0
         /\ ResetWait \in Nat /\ MaxRetries \in Nat
         /\ "git" \in Reasons /\ None \notin Ages
BY DEF OutboundAssumption, Ages

\* What a job is, by its place.
LEMMA JobByPlace ==
  ASSUME Typed, NEW w \in Workers
  PROVE  /\ job[w].at \in CallPlaces => job[w] \in CallJobs
         /\ job[w].at \in BackupPlaces => job[w] \in BackupJobs
         /\ job[w].at \in {"judge", "post"} => job[w] \in AlertJobs
BY DEF Typed, Jobs, CallJobs, BackupJobs, AlertJobs, CallPlaces, BackupPlaces, Idle

LEMMA BreakersTyped ==
  ASSUME OutboundAssumption, NEW b \in Breakers
  PROVE  /\ Seen(b) \in Breakers
         /\ ~ Refuses(b) => Admitted(b) \in Breakers
         /\ Succeeded(b) \in Breakers
         /\ Failed(b) \in Breakers
<1> USE Numbers DEF Breakers, Breaker
<1>1. Seen(b) \in Breakers
  BY DEF Seen, HalfOpened
<1>2. ~ Refuses(b) => Admitted(b) \in Breakers
  <2>1. CASE b.state = "half-open" /\ ~ Refuses(b)
    <3>1. b.inFlight + 1 \in 0 .. Probes
      BY <2>1 DEF Refuses
    <3>2. Admitted(b) = [b EXCEPT !.inFlight = b.inFlight + 1]
      BY <2>1 DEF Admitted
    <3>3. QED
      BY <3>1, <3>2
  <2>2. CASE b.state # "half-open"
    BY <2>2 DEF Admitted
  <2>3. QED
    BY <2>1, <2>2
<1>3. Succeeded(b) \in Breakers
  <2>1. CASE b.state = "half-open" /\ b.successes + 1 >= Probes
    BY <2>1 DEF Succeeded
  <2>2. CASE b.state = "half-open" /\ b.successes + 1 < Probes
    BY <2>2 DEF Succeeded
  <2>3. CASE b.state # "half-open"
    <3>1. Succeeded(b) = [b EXCEPT !.failures = 0]
      BY <2>3 DEF Succeeded
    <3>2. QED
      BY <3>1
  <2>4. QED
    BY <2>1, <2>2, <2>3
<1>4. Failed(b) \in Breakers
  <2>1. CASE b.state = "half-open"
    BY <2>1 DEF Failed, Opened
  <2>2. CASE b.state # "half-open" /\ b.failures + 1 >= Threshold
    BY <2>2 DEF Failed, Opened
  <2>3. CASE b.state # "half-open" /\ b.failures + 1 < Threshold
    <3>1. Failed(b) = [b EXCEPT !.failures = b.failures + 1]
      BY <2>3 DEF Failed
    <3>2. QED
      BY <2>3, <3>1
  <2>4. QED
    BY <2>1, <2>2, <2>3
<1>5. QED
  BY <1>1, <1>2, <1>3, <1>4

\* A worker turns to another job.
LEMMA GoesTyped ==
  ASSUME Typed, NEW w \in Workers, NEW j \in Jobs, Goes(w, j)
  PROVE  /\ job' \in [Workers -> Jobs]
         /\ job'[w] = j
         /\ \A v \in Workers \ {w} : job'[v] = job[v]
BY DEF Typed, Goes

LEMMA PlainTyped == Idle \in Jobs /\ Idle.at = "idle" /\ "idle" \notin BackupPlaces
BY DEF Jobs, Idle, BackupPlaces

LEMMA BackupTyped ==
  ASSUME NEW place \in BackupPlaces, NEW n \in Nat
  PROVE  /\ [at |-> place, of |-> n] \in BackupJobs /\ [at |-> place, of |-> n] \in Jobs
         /\ [at |-> place, of |-> n].at = place /\ [at |-> place, of |-> n].of = n
BY DEF BackupJobs, Jobs

LEMMA AlertTyped ==
  ASSUME NEW place \in {"judge", "post"}, NEW r \in Reasons
  PROVE  /\ [at |-> place, reason |-> r] \in Jobs
         /\ [at |-> place, reason |-> r].at = place /\ [at |-> place, reason |-> r].reason = r
BY DEF AlertJobs, Jobs

\* What a step of a call does to its breaker and its job.
LEMMA BeginIs ==
  ASSUME OutboundAssumption, Typed, NEW w \in Workers, NEW u \in Upstreams, Begin(w, u)
  PROVE  /\ job[w].at = "idle" /\ Elsewhere
         /\ \/ circuit' = [circuit EXCEPT ![u] = Seen(circuit[u])] /\ UNCHANGED job
            \/ /\ ~ Refuses(Seen(circuit[u]))
               /\ circuit' = [circuit EXCEPT ![u] = Admitted(Seen(circuit[u]))]
               /\ \E period \in Nat :
                    /\ Goes(w, Call("attempt", u, 0, "short", period, 0, 0))
                    /\ period = IF Seen(circuit[u]).state = "half-open"
                                  THEN Seen(circuit[u]).period ELSE 0
<1>1. Seen(circuit[u]) \in Breakers
  BY BreakersTyped DEF Typed
<1>2. Seen(circuit[u]).period \in Nat
  BY <1>1 DEF Breakers
<1>3. QED
  BY <1>2 DEF Begin, Elsewhere, At

LEMMA FailsIs ==
  ASSUME OutboundAssumption, Typed, NEW w \in Workers, NEW o \in Outcomes, Fails(w, o)
  PROVE  /\ job[w].at = "attempt" /\ job[w] \in CallJobs /\ Elsewhere
         /\ \/ /\ UNCHANGED circuit
               /\ \E place \in {"sleep", "limited"}, more \in {0, 1} :
                    Goes(w, Call(place, job[w].upstream, job[w].retries + 1, job[w].base,
                                 job[w].period, job[w].tweets + more, job[w].unseen + more))
            \/ /\ circuit' = [circuit EXCEPT ![job[w].upstream] = Failed(circuit[job[w].upstream])]
               /\ Goes(w, Idle)
<1>1. job[w].at = "attempt" /\ job[w] \in CallJobs /\ Elsewhere
  BY JobByPlace DEF Fails, At, CallPlaces
<1>2. job[w].tweets + 0 = job[w].tweets /\ job[w].unseen + 0 = job[w].unseen
  BY <1>1 DEF CallJobs
<1>3. CASE Retried(o) /\ job[w].retries < MaxRetries
  <2>1. /\ UNCHANGED circuit
        /\ Goes(w, Call(IF o = "limited" THEN "limited" ELSE "sleep", job[w].upstream,
                        job[w].retries + 1, job[w].base, job[w].period,
                        IF o \in {"unseen", "no id"} THEN job[w].tweets + 1 ELSE job[w].tweets,
                        IF o = "unseen" THEN job[w].unseen + 1 ELSE job[w].unseen))
    BY <1>3 DEF Fails
  <2>2. o \in {"limited", "unsent", "unseen"}
    BY <1>3 DEF Retried
  <2>3. CASE o = "limited"
    BY <1>1, <1>2, <2>1, <2>3
  <2>4. CASE o = "unsent"
    BY <1>1, <1>2, <2>1, <2>4
  <2>5. CASE o = "unseen"
    BY <1>1, <2>1, <2>5
  <2>6. QED
    BY <2>2, <2>3, <2>4, <2>5
<1>4. CASE ~ (Retried(o) /\ job[w].retries < MaxRetries)
  BY <1>1, <1>4 DEF Fails
<1>5. QED
  BY <1>3, <1>4

\* What a step of a call does, but for periods.
LEMMA CallStepIs ==
  ASSUME OutboundAssumption, Typed, TweetInv, NEW w \in Workers, CallStep(w)
  PROVE  /\ Elsewhere
         /\ job[w].at \in CallPlaces \cup {"idle"}
         /\ circuit' \in [Upstreams -> Breakers]
         /\ \/ UNCHANGED job
            \/ Goes(w, Idle)
            \/ \E j \in CallJobs : Goes(w, j) /\ j.tweets <= j.unseen
<1> USE DEF CallPlaces
<1>1. circuit \in [Upstreams -> Breakers] /\ (Calling(w) => job[w].tweets <= job[w].unseen)
  BY DEF Typed, TweetInv
<1>2. ASSUME NEW u \in Upstreams, Begin(w, u)
      PROVE  /\ Elsewhere /\ job[w].at = "idle"
             /\ circuit' \in [Upstreams -> Breakers]
             /\ UNCHANGED job \/ \E j \in CallJobs : Goes(w, j) /\ j.tweets <= j.unseen
  <2>1. Seen(circuit[u]) \in Breakers
    BY <1>1, BreakersTyped
  <2>2. ~ Refuses(Seen(circuit[u])) => Admitted(Seen(circuit[u])) \in Breakers
    BY <2>1, BreakersTyped
  <2>3. circuit' \in [Upstreams -> Breakers]
    BY <1>1, <1>2, <2>1, <2>2, BeginIs
  <2>4. ASSUME NEW period \in Nat
        PROVE  /\ Call("attempt", u, 0, "short", period, 0, 0) \in CallJobs
               /\ Call("attempt", u, 0, "short", period, 0, 0).tweets
                    <= Call("attempt", u, 0, "short", period, 0, 0).unseen
    BY DEF Call, CallJobs
  <2>5. QED
    BY <1>2, <2>3, <2>4, BeginIs
<1>3. CASE Succeeds(w)
  <2>1. job[w] \in CallJobs /\ job[w].at = "attempt" /\ job[w].upstream \in Upstreams
    BY <1>3, JobByPlace DEF Succeeds, At, CallJobs
  <2>2. Succeeded(circuit[job[w].upstream]) \in Breakers
    BY <1>1, <2>1, BreakersTyped
  <2>3. QED
    BY <1>1, <1>3, <2>1, <2>2 DEF Succeeds
<1>4. CASE Wakes(w)
  <2>1. job[w] \in CallJobs
    BY <1>4, JobByPlace DEF Wakes
  <2>2. PICK base \in {"short", "long"} :
          Goes(w, Call("attempt", job[w].upstream, job[w].retries, base, job[w].period,
                       job[w].tweets, job[w].unseen))
    BY <1>4, <2>1 DEF Wakes, CallJobs
  <2>3. /\ Call("attempt", job[w].upstream, job[w].retries, base, job[w].period,
                job[w].tweets, job[w].unseen) \in CallJobs
        /\ Call("attempt", job[w].upstream, job[w].retries, base, job[w].period,
                job[w].tweets, job[w].unseen).tweets = job[w].tweets
        /\ Call("attempt", job[w].upstream, job[w].retries, base, job[w].period,
                job[w].tweets, job[w].unseen).unseen = job[w].unseen
    BY <2>1, <2>2 DEF CallJobs, Call
  <2>4. job[w].at \in CallPlaces /\ Elsewhere /\ UNCHANGED circuit
    BY <1>4 DEF Wakes
  <2>5. QED
    BY <1>1, <2>2, <2>3, <2>4 DEF Calling
<1>5. ASSUME NEW o \in Outcomes, Fails(w, o)
      PROVE  /\ Elsewhere /\ job[w].at = "attempt"
             /\ circuit' \in [Upstreams -> Breakers]
             /\ \/ Goes(w, Idle)
                \/ \E j \in CallJobs : Goes(w, j) /\ j.tweets <= j.unseen
  <2>1. job[w] \in CallJobs /\ job[w].upstream \in Upstreams /\ Elsewhere /\ job[w].at = "attempt"
    BY <1>5, FailsIs DEF CallJobs
  <2>2. Failed(circuit[job[w].upstream]) \in Breakers
    BY <1>1, <2>1, BreakersTyped
  <2>3. circuit' \in [Upstreams -> Breakers]
    BY <1>1, <1>5, <2>1, <2>2, FailsIs
  <2>4. ASSUME NEW place \in {"sleep", "limited"}, NEW more \in {0, 1}
        PROVE  LET j == Call(place, job[w].upstream, job[w].retries + 1, job[w].base,
                             job[w].period, job[w].tweets + more, job[w].unseen + more)
               IN  j \in CallJobs /\ j.tweets <= j.unseen
    <3>1. job[w].tweets <= job[w].unseen
      BY <1>1, <2>1 DEF Calling
    <3>2. QED
      BY <2>1, <3>1 DEF CallJobs, Call
  <2>5. QED
    BY <1>5, <2>1, <2>3, <2>4, FailsIs
<1>6. QED
  BY <1>2, <1>3, <1>4, <1>5 DEF CallStep, Calling

\* A step that is no backup's takes nothing from the index or the commit.
LEMMA CommitsKept ==
  ASSUME Typed, CommitInv, git' \in Trees,
         git'.index = git.index, git'.head = git.head, git'.tree >= git.tree,
         \A v \in Workers : job'[v].at \in BackupPlaces => job'[v] = job[v]
  PROVE  CommitInv'
<1>1. git \in Trees /\ git.tree \in Nat /\ git.index \in Nat /\ git'.tree \in Nat
  BY DEF Typed, Trees
<1>2. ASSUME NEW v \in Workers, job'[v].at \in BackupPlaces
      PROVE  Fits(job[v], git)'
  <2>1. job'[v] = job[v] /\ job[v] \in BackupJobs /\ Fits(job[v], git)
    BY <1>2, JobByPlace DEF CommitInv
  <2>2. job[v].of \in Nat
    BY <2>1 DEF BackupJobs
  <2>3. QED
    BY <1>1, <2>1, <2>2 DEF Fits
<1>3. git'.head <= git'.index /\ git'.index <= git'.tree
  BY <1>1 DEF CommitInv
<1>4. QED
  BY <1>2, <1>3 DEF CommitInv

LEMMA GitSame ==
  ASSUME Typed, UNCHANGED git
  PROVE  git' \in Trees /\ git'.index = git.index /\ git'.head = git.head /\ git'.tree >= git.tree
BY DEF Typed, Trees

LEMMA CallKeeps ==
  ASSUME OutboundAssumption, Typed, TweetInv, CommitInv, WindowInv,
         NEW w \in Workers, CallStep(w)
  PROVE  Typed' /\ TweetInv' /\ CommitInv' /\ WindowInv'
<1>1. Elsewhere /\ circuit' \in [Upstreams -> Breakers]
  BY CallStepIs
<1>2. ASSUME NEW j \in CallJobs \cup {Idle}, Goes(w, j), Calling(w)' => j.tweets <= j.unseen
      PROVE  Typed' /\ TweetInv' /\ CommitInv' /\ WindowInv'
  <2>1. j \in Jobs /\ j.at \notin BackupPlaces
    BY PlainTyped DEF Jobs, CallJobs, CallPlaces, BackupPlaces
  <2>2. /\ job' \in [Workers -> Jobs] /\ job'[w] = j
        /\ \A v \in Workers \ {w} : job'[v] = job[v]
    BY <1>2, <2>1, GoesTyped
  <2>3. TweetInv'
    BY <1>2, <2>2 DEF TweetInv, Calling
  <2>4. CommitInv'
    BY <1>1, <2>1, <2>2, CommitsKept, GitSame DEF Elsewhere
  <2>5. QED
    BY <1>1, <2>2, <2>3, <2>4 DEF Typed, WindowInv, Elsewhere
<1>3. CASE Goes(w, Idle)
  <2>1. job'[w].at = "idle"
    BY <1>3, PlainTyped, GoesTyped
  <2>2. ~ Calling(w)'
    BY <2>1 DEF Calling, CallPlaces
  <2>3. QED
    BY <1>2, <1>3, <2>2
<1>4. CASE UNCHANGED job
  <2>1. CommitInv'
    BY <1>1, <1>4, CommitsKept, GitSame DEF Elsewhere
  <2>2. QED
    BY <1>1, <1>4, <2>1 DEF Typed, TweetInv, WindowInv, Calling, Elsewhere
<1>5. QED
  BY <1>2, <1>3, <1>4, CallStepIs

-----------------------------------------------------------------------------
(* The backups.                                                             *)

LEMMA GitTyped ==
  ASSUME OutboundAssumption, Typed
  PROVE  /\ git \in Trees /\ asked \in Nat
         /\ git.tree \in Nat /\ git.index \in Nat /\ git.head \in Nat
         /\ git.lock \in Workers \cup {None}
         /\ git.failures \in 0 .. Tolerance /\ git.told \in BOOLEAN
         /\ 0 \in 0 .. Tolerance
         /\ git.failures < Tolerance => git.failures + 1 \in 0 .. Tolerance
BY Numbers DEF Typed, Trees

\* What a step of a backup comes to: the versions keep their order, its own
\* job fits them, and they have only grown.
Came(w) ==
  /\ git' \in Trees
  /\ git.tree = git'.tree /\ git.index <= git'.index /\ git.head <= git'.head
  /\ git'.head <= git'.index /\ git'.index <= git'.tree
  /\ \E j \in Jobs : /\ Goes(w, j) /\ j.at \notin CallPlaces
                     /\ j.at \in BackupPlaces => Fits(j, git')

LEMMA CameTo ==
  ASSUME OutboundAssumption, Typed, CommitInv, NEW w \in Workers, NEW j \in Jobs, Goes(w, j),
         j.at \notin CallPlaces, j.at \in BackupPlaces => Fits(j, git'),
         git' \in Trees, git'.tree = git.tree, git'.index = git.index, git'.head = git.head
  PROVE  Came(w)
BY GitTyped DEF Came, CommitInv

\* What is known of the job of a backup.
LEMMA BackupIs ==
  ASSUME OutboundAssumption, Typed, CommitInv, NEW w \in Workers, job[w].at \in BackupPlaces
  PROVE  job[w].of \in Nat /\ Fits(job[w], git)
BY JobByPlace DEF CommitInv, BackupJobs

\* A step of a backup goes on to a place that asks for no more.
LEMMA MovesOn ==
  ASSUME OutboundAssumption, Typed, CommitInv, NEW w \in Workers, NEW place \in BackupPlaces,
         job[w].at \in BackupPlaces, Moves(w, place),
         git' \in Trees, git'.tree = git.tree, git'.index = git.index, git'.head = git.head,
         place \in {"diff", "commit", "committing"} => job[w].of <= git.index,
         place \in {"same", "push"} => job[w].of <= git.head
  PROVE  Came(w)
<1> DEFINE j == [at |-> place, of |-> job[w].of]
<1>1. job[w].of \in Nat /\ job[w].of <= git.tree
  BY BackupIs DEF Fits
<1>2. j \in Jobs /\ j.at = place /\ j.of = job[w].of
  BY <1>1, BackupTyped
<1>3. Goes(w, j)
  BY DEF Moves
<1>4. j.at \notin CallPlaces
  BY <1>2 DEF BackupPlaces, CallPlaces
<1>5. Fits(j, git')
  BY <1>1, <1>2 DEF Fits
<1> HIDE DEF j
<1>6. QED
  BY <1>2, <1>3, <1>4, <1>5, CameTo

LEMMA LocksComes ==
  ASSUME OutboundAssumption, Typed, CommitInv, NEW w \in Workers,
         NEW place \in {"adding", "committing"}, job[w].at \in BackupPlaces, Locks(w, place),
         place = "committing" => job[w].of <= git.index
  PROVE  Came(w)
<1>1. CASE git.lock = None
  <2>1. git' = [git EXCEPT !.lock = w] /\ Moves(w, place)
    BY <1>1 DEF Locks
  <2>2. git' \in Trees /\ git'.tree = git.tree /\ git'.index = git.index /\ git'.head = git.head
    BY <2>1, GitTyped DEF Trees
  <2>3. QED
    BY <2>1, <2>2, MovesOn DEF BackupPlaces
<1>2. CASE git.lock # None
  BY <1>2, GitTyped, MovesOn DEF Locks, BackupPlaces
<1>3. QED
  BY <1>1, <1>2

\* A backup that is over.
LEMMA Over ==
  ASSUME OutboundAssumption, Typed, CommitInv, NEW w \in Workers,
         NEW j \in {Idle, [at |-> "judge", reason |-> "git"]}, Goes(w, j),
         git' \in Trees, git'.tree = git.tree, git'.index = git.index, git'.head = git.head
  PROVE  Came(w)
<1>1. j \in Jobs /\ j.at \in {"idle", "judge"}
  BY PlainTyped, AlertTyped, Numbers
<1>2. QED
  BY <1>1, CameTo DEF CallPlaces, BackupPlaces

\* A step of a backup passes what it has taken on to its next one.
LEMMA GitStepComes ==
  ASSUME OutboundAssumption, Typed, CommitInv, NEW w \in Workers, GitStep(w)
  PROVE  Came(w)
<1> USE GitTyped
<1>1. git.head <= git.index /\ git.index <= git.tree
  BY DEF CommitInv
<1>2. CASE Begins(w)
  <2> DEFINE j == [at |-> "add", of |-> git.tree]
  <2>1. Goes(w, j) /\ UNCHANGED git
    BY <1>2 DEF Begins
  <2>2. "add" \in BackupPlaces
    BY DEF BackupPlaces
  <2>3. j \in Jobs /\ j.at = "add" /\ j.of = git.tree
    BY <2>2, BackupTyped
  <2>4. j.at \notin CallPlaces /\ Fits(j, git')
    BY <2>1, <2>3 DEF Fits, CallPlaces
  <2> HIDE DEF j
  <2>5. QED
    BY <2>1, <2>3, <2>4, CameTo
<1>3. CASE AddBegins(w)
  BY <1>3, LocksComes DEF AddBegins, At, BackupPlaces
<1>4. CASE Add(w)
  <2>1. PICK v \in job[w].of .. git.tree :
          git.index <= v /\ git' = [git EXCEPT !.index = v, !.lock = None]
    BY <1>4 DEF Add
  <2>2. job[w].of \in Nat /\ job[w].of <= git.tree /\ job[w].at \in BackupPlaces
    BY <1>4, BackupIs DEF Add, At, BackupPlaces, Fits
  <2>3. v \in Nat /\ job[w].of <= v /\ v <= git.tree
    BY <2>2
  <2>4. /\ git' \in Trees
        /\ git'.tree = git.tree /\ git'.index = v /\ git'.head = git.head
    BY <2>1, <2>3 DEF Trees
  <2> DEFINE j == [at |-> "diff", of |-> job[w].of]
  <2>5. "diff" \in BackupPlaces
    BY DEF BackupPlaces
  <2>6. j \in Jobs /\ j.at = "diff" /\ j.of = job[w].of
    BY <2>2, <2>5, BackupTyped
  <2>7. Goes(w, j)
    BY <1>4 DEF Add, Moves
  <2>8. j.at \notin CallPlaces /\ Fits(j, git')
    BY <2>2, <2>3, <2>4, <2>6 DEF Fits, CallPlaces
  <2> HIDE DEF j
  <2>9. git.head <= v /\ git.head <= git.head
    BY <1>1, <2>1, <2>3
  <2>10. QED
    BY <2>1, <2>3, <2>4, <2>6, <2>7, <2>8, <2>9 DEF Came
<1>5. CASE Diff(w)
  <2>1. job[w].of \in Nat /\ job[w].of <= git.index /\ job[w].at \in BackupPlaces
    BY <1>5, BackupIs DEF Diff, At, BackupPlaces, Fits
  <2>2. CASE git.index # git.head
    BY <1>5, <2>1, <2>2, MovesOn DEF Diff, BackupPlaces
  <2>3. CASE git.index = git.head
    BY <1>5, <2>1, <2>3, MovesOn DEF Diff, BackupPlaces
  <2>4. QED
    BY <2>2, <2>3
<1>6. CASE CommitBegins(w)
  <2>1. job[w].of <= git.index /\ job[w].at \in BackupPlaces
    BY <1>6, BackupIs DEF CommitBegins, At, BackupPlaces, Fits
  <2>2. QED
    BY <1>6, <2>1, LocksComes DEF CommitBegins
<1>7. CASE Commit(w)
  <2>1. job[w].of \in Nat /\ job[w].of <= git.index /\ job[w].of <= git.tree
    BY <1>7, BackupIs DEF Commit, At, BackupPlaces, Fits
  <2>2. git' = [git EXCEPT !.head = git.index, !.lock = None]
    BY <1>7 DEF Commit
  <2>3. /\ git' \in Trees
        /\ git'.tree = git.tree /\ git'.index = git.index /\ git'.head = git.index
    BY <2>2 DEF Trees
  <2>4. PICK place \in {"push", "failed"} : Goes(w, [at |-> place, of |-> job[w].of])
    BY <1>7 DEF Commit, Moves
  <2> DEFINE j == [at |-> place, of |-> job[w].of]
  <2>5. place \in BackupPlaces
    BY DEF BackupPlaces
  <2>6. j \in Jobs /\ j.at = place /\ j.of = job[w].of
    BY <2>1, <2>5, BackupTyped
  <2>7. j.at \notin CallPlaces /\ Fits(j, git')
    BY <2>1, <2>3, <2>6 DEF Fits, CallPlaces
  <2>8. Goes(w, j)
    BY <2>4
  <2> HIDE DEF j
  <2>9. QED
    BY <1>1, <2>3, <2>6, <2>7, <2>8 DEF Came
<1>8. CASE Push(w) \/ NothingNew(w)
  <2>1. git' = [git EXCEPT !.failures = 0, !.told = FALSE] /\ Goes(w, Idle)
    BY <1>8 DEF Push, NothingNew
  <2>2. git' \in Trees /\ git'.tree = git.tree /\ git'.index = git.index /\ git'.head = git.head
    BY <2>1 DEF Trees
  <2>3. QED
    BY <2>1, <2>2, Over
<1>9. CASE GitFails(w)
  <2>1. git' = [git EXCEPT !.lock = None] \/ git' = git
    BY <1>9 DEF GitFails
  <2>2. git' \in Trees /\ git'.tree = git.tree /\ git'.index = git.index /\ git'.head = git.head
    BY <2>1 DEF Trees
  <2>3. Moves(w, "failed") /\ job[w].at \in BackupPlaces
    BY <1>9 DEF GitFails, BackupPlaces
  <2>4. QED
    BY <2>2, <2>3, MovesOn DEF BackupPlaces
<1>10. CASE RecordFailure(w)
  <2>1. PICK tell \in BOOLEAN :
          /\ git' = [git EXCEPT !.told = git.told \/ tell,
                                !.failures = IF git.failures < Tolerance THEN git.failures + 1
                                                                        ELSE git.failures]
          /\ Goes(w, IF tell THEN [at |-> "judge", reason |-> "git"] ELSE Idle)
    BY <1>10 DEF RecordFailure
  <2>2. git' \in Trees /\ git'.tree = git.tree /\ git'.index = git.index /\ git'.head = git.head
    BY <2>1 DEF Trees
  <2>3. QED
    BY <2>1, <2>2, Over
<1>11. QED
  BY <1>2, <1>3, <1>4, <1>5, <1>6, <1>7, <1>8, <1>9, <1>10 DEF GitStep

\* What a step of a backup leaves alone.
LEMMA GitStepLeaves ==
  ASSUME OutboundAssumption, Typed, NEW w \in Workers, GitStep(w)
  PROVE  UNCHANGED <<circuit, alerts, last>> /\ asked' \in Nat
<1>1. CASE Begins(w)
  BY <1>1, GitTyped DEF Begins
<1>2. CASE ~ Begins(w)
  <2>1. Around
    BY <1>2 DEF GitStep, AddBegins, Add, Diff, CommitBegins, Commit, Push, GitFails, NothingNew,
         RecordFailure, Locks
  <2>2. QED
    BY <2>1, GitTyped DEF Around
<1>3. QED
  BY <1>1, <1>2

LEMMA GitKeeps ==
  ASSUME OutboundAssumption, Typed, TweetInv, CommitInv, WindowInv,
         NEW w \in Workers, GitStep(w)
  PROVE  Typed' /\ TweetInv' /\ CommitInv' /\ WindowInv'
<1>1. Came(w)
  BY GitStepComes
<1>2. PICK j \in Jobs :
        /\ Goes(w, j) /\ j.at \notin CallPlaces
        /\ j.at \in BackupPlaces => Fits(j, git')
  BY <1>1 DEF Came
<1>3. /\ job' \in [Workers -> Jobs] /\ job'[w] = j
      /\ \A v \in Workers \ {w} : job'[v] = job[v]
  BY <1>2, GoesTyped
<1>4. Typed'
  BY <1>1, <1>3, GitStepLeaves DEF Typed, Came
<1>5. TweetInv'
  BY <1>2, <1>3 DEF TweetInv, Calling
<1>6. WindowInv'
  BY GitStepLeaves DEF WindowInv
<1>7. ASSUME NEW v \in Workers \ {w}, job[v].at \in BackupPlaces
      PROVE  Fits(job[v], git')
  <2>1. job[v].of \in Nat /\ Fits(job[v], git)
    BY <1>7, BackupIs
  <2>2. git.index \in Nat /\ git.head \in Nat /\ git'.index \in Nat /\ git'.head \in Nat
    BY <1>1, GitTyped DEF Came, Trees
  <2>3. QED
    BY <1>1, <2>1, <2>2 DEF Came, Fits
<1>8. CommitInv'
  BY <1>1, <1>2, <1>3, <1>7 DEF CommitInv, Came
<1>9. QED
  BY <1>4, <1>5, <1>6, <1>8

-----------------------------------------------------------------------------
(* The alerts.                                                              *)

LEMMA WrittenKeeps ==
  ASSUME OutboundAssumption, Typed, NEW asks \in BOOLEAN, Written(asks)
  PROVE  /\ git' \in Trees /\ asked' \in Nat
         /\ git'.index = git.index /\ git'.head = git.head /\ git'.tree >= git.tree
<1>1. git' = [git EXCEPT !.tree = git.tree + 1]
  BY DEF Written
<1>2. QED
  BY <1>1, GitTyped DEF Written, Trees

\* The pruned table: what is dropped was let through more than a window ago.
LEMMA KeptIs ==
  ASSUME OutboundAssumption, Typed, WindowInv
  PROVE  /\ Kept \in [Reasons -> Ages \cup {None}]
         /\ \A r \in Reasons :
              /\ Kept[r] = None => last[r] >= Window
              /\ Kept[r] # None => last[r] = Kept[r].emitted /\ Kept[r].seen <= Kept[r].emitted
<1> USE Numbers
<1>1. Kept \in [Reasons -> Ages \cup {None}]
  BY DEF Typed, Kept
<1>2. ASSUME NEW r \in Reasons
      PROVE  /\ Kept[r] = None => last[r] >= Window
             /\ Kept[r] # None => last[r] = Kept[r].emitted /\ Kept[r].seen <= Kept[r].emitted
  <2>1. /\ alerts[r] = None => last[r] >= Window
        /\ alerts[r] # None => last[r] = alerts[r].emitted /\ alerts[r].seen <= alerts[r].emitted
    BY DEF WindowInv
  <2>2. alerts[r] # None => alerts[r] \in Ages
    BY DEF Typed
  <2>3. CASE alerts[r] # None /\ alerts[r].seen > 3 * Window
    <3>1. Kept[r] = None
      BY <2>3 DEF Kept
    <3>2. alerts[r].seen \in Nat /\ alerts[r].emitted \in Nat
      BY <2>2, <2>3 DEF Ages
    <3>3. QED
      BY <2>1, <2>3, <3>1, <3>2
  <2>4. CASE ~ (alerts[r] # None /\ alerts[r].seen > 3 * Window)
    BY <2>1, <2>4 DEF Kept
  <2>5. QED
    BY <2>3, <2>4
<1>3. QED
  BY <1>1, <1>2

\* What judging an alert does: it is let through only a window after the last.
LEMMA JudgeIs ==
  ASSUME OutboundAssumption, Typed, WindowInv, NEW w \in Workers, Judge(w)
  PROVE  LET r == job[w].reason IN
         /\ r \in Reasons /\ job[w].at = "judge"
         /\ (\E asks \in BOOLEAN : Written(asks)) /\ UNCHANGED circuit
         /\ \/ /\ last[r] >= Window
               /\ alerts' = [Kept EXCEPT ![r] = [seen |-> 0, emitted |-> 0]]
               /\ last' = [last EXCEPT ![r] = 0]
               /\ Goes(w, [at |-> "post", reason |-> r])
            \/ /\ Kept[r] # None
               /\ alerts' = [Kept EXCEPT ![r] = [seen |-> 0, emitted |-> Kept[r].emitted]]
               /\ last' = last
               /\ Goes(w, Idle)
<1> DEFINE r == job[w].reason
<1>1. job[w].at = "judge" /\ r \in Reasons
  BY JobByPlace DEF Judge, At, AlertJobs
<1>2. (\E asks \in BOOLEAN : Written(asks)) /\ UNCHANGED circuit
  BY DEF Judge
<1>3. CASE Kept[r] # None => Kept[r].emitted >= Window
  <2>1. last[r] >= Window
    BY <1>1, <1>3, KeptIs
  <2>2. QED
    BY <1>1, <1>2, <1>3, <2>1 DEF Judge
<1>4. CASE ~ (Kept[r] # None => Kept[r].emitted >= Window)
  BY <1>1, <1>2, <1>4 DEF Judge
<1>5. QED
  BY <1>3, <1>4

LEMMA AlertKeeps ==
  ASSUME OutboundAssumption, Typed, TweetInv, CommitInv, WindowInv,
         NEW w \in Workers, AlertStep(w)
  PROVE  Typed' /\ TweetInv' /\ CommitInv' /\ WindowInv' /\ UNCHANGED circuit /\ ~ Calling(w)'
<1> DEFINE Turns(j) == /\ job' \in [Workers -> Jobs] /\ job'[w] = j
                       /\ \A v \in Workers \ {w} : job'[v] = job[v]
<1>1. ASSUME NEW j \in AlertJobs \cup {Idle}, Goes(w, j)
      PROVE  /\ job' \in [Workers -> Jobs] /\ TweetInv' /\ ~ Calling(w)'
             /\ \A v \in Workers : job'[v].at \in BackupPlaces => job'[v] = job[v]
  <2>1. j \in Jobs /\ j.at \notin CallPlaces /\ j.at \notin BackupPlaces
    BY PlainTyped DEF AlertJobs, CallPlaces, BackupPlaces, Jobs
  <2>2. Turns(j)
    BY <1>1, <2>1, GoesTyped
  <2>3. QED
    BY <1>1, <2>1, <2>2 DEF TweetInv, Calling
<1>2. CASE Judge(w)
  <2> DEFINE r == job[w].reason
  <2>1. r \in Reasons /\ job[w].at = "judge" /\ UNCHANGED circuit
    BY <1>2, JudgeIs
  <2>. PICK asks \in BOOLEAN : Written(asks)
    BY <1>2, JudgeIs
  <2>2. PICK j \in AlertJobs \cup {Idle} : Goes(w, j)
    BY <1>2, JudgeIs DEF AlertJobs
  <2>3. /\ job' \in [Workers -> Jobs] /\ TweetInv' /\ ~ Calling(w)'
        /\ \A v \in Workers : job'[v].at \in BackupPlaces => job'[v] = job[v]
    BY <1>1, <2>1, <2>2
  <2>4. CommitInv'
    BY <2>3, WrittenKeeps, CommitsKept
  <2>5. /\ alerts' \in [Reasons -> Ages \cup {None}]
        /\ last' \in [Reasons -> Nat]
        /\ WindowInv'
    <3>1. last \in [Reasons -> Nat]
      BY DEF Typed
    <3>2. CASE /\ alerts' = [Kept EXCEPT ![r] = [seen |-> 0, emitted |-> 0]]
               /\ last' = [last EXCEPT ![r] = 0]
      BY <2>1, <3>1, <3>2, KeptIs, Numbers DEF WindowInv, Ages
    <3>3. CASE /\ Kept[r] # None
               /\ alerts' = [Kept EXCEPT ![r] = [seen |-> 0, emitted |-> Kept[r].emitted]]
               /\ last' = last
      <4>1. Kept[r] \in Ages /\ last[r] = Kept[r].emitted
        BY <2>1, <3>3, KeptIs
      <4>2. Kept[r].emitted \in Nat /\ [seen |-> 0, emitted |-> Kept[r].emitted] \in Ages
        BY <4>1 DEF Ages
      <4>3. QED
        BY <2>1, <3>1, <3>3, <4>1, <4>2, KeptIs, Numbers DEF WindowInv
    <3>4. QED
      BY <1>2, <3>2, <3>3, JudgeIs
  <2>6. QED
    BY <2>1, <2>3, <2>4, <2>5, WrittenKeeps DEF Typed
<1>3. CASE Post(w)
  <2>1. job[w].at = "post" /\ Goes(w, Idle)
        /\ UNCHANGED <<circuit, git, asked, alerts, last>>
    BY <1>3 DEF Post, At
  <2>2. CommitInv'
    BY <1>1, <2>1, CommitsKept, GitSame
  <2>3. QED
    BY <1>1, <2>1, <2>2 DEF Typed, WindowInv
<1>4. ASSUME NEW r \in Reasons, Raise(w, r)
      PROVE  Typed' /\ TweetInv' /\ CommitInv' /\ WindowInv' /\ UNCHANGED circuit /\ ~ Calling(w)'
  <2>1. job[w].at = "idle" /\ Goes(w, [at |-> "judge", reason |-> r])
        /\ UNCHANGED <<circuit, git, asked, alerts, last>>
    BY <1>4 DEF Raise, At
  <2>2. [at |-> "judge", reason |-> r] \in AlertJobs
    BY DEF AlertJobs
  <2>3. CommitInv'
    BY <1>1, <2>1, <2>2, CommitsKept, GitSame
  <2>4. QED
    BY <1>1, <2>1, <2>2, <2>3 DEF Typed, WindowInv
<1>5. QED
  BY <1>2, <1>3, <1>4 DEF AlertStep

-----------------------------------------------------------------------------
(* Writes of other parts, time, and the beginning.                          *)

LEMMA OlderIs ==
  ASSUME OutboundAssumption, NEW a \in Nat, NEW b \in Nat
  PROVE  /\ Older(a) \in Nat /\ Older(a) >= a
         /\ a <= b => Older(a) <= Older(b)
BY Numbers DEF Older, Forgotten

LEMMA TickIs ==
  ASSUME OutboundAssumption, Typed, Tick
  PROVE  /\ circuit' \in [Upstreams -> Breakers]
         /\ \A u \in Upstreams :
              /\ circuit'[u].state = circuit[u].state
              /\ circuit'[u].inFlight = circuit[u].inFlight
              /\ circuit'[u].period = circuit[u].period
<1>1. circuit \in [Upstreams -> Breakers]
  BY DEF Typed
<1>2. DEFINE Sooner(b) == [b EXCEPT !.wait = IF b.wait > 0 THEN b.wait - 1 ELSE 0]
<1>3. ASSUME NEW b \in Breakers
      PROVE  /\ Sooner(b) \in Breakers /\ Sooner(b).state = b.state
             /\ Sooner(b).inFlight = b.inFlight /\ Sooner(b).period = b.period
  BY Numbers DEF Breakers
<1>4. circuit' = [u \in Upstreams |-> Sooner(circuit[u])]
  BY DEF Tick
<1>5. QED
  BY <1>1, <1>3, <1>4

LEMMA RestKeeps ==
  ASSUME OutboundAssumption, Typed, TweetInv, CommitInv, WindowInv,
         (\E asks \in BOOLEAN : Write(asks)) \/ Tick \/ UNCHANGED vars
  PROVE  Typed' /\ TweetInv' /\ CommitInv' /\ WindowInv'
<1>1. ASSUME NEW asks \in BOOLEAN, Write(asks)
      PROVE  Typed' /\ TweetInv' /\ CommitInv' /\ WindowInv'
  <2>1. UNCHANGED <<circuit, alerts, job, last>> /\ Written(asks)
    BY <1>1 DEF Write
  <2>2. CommitInv'
    BY <2>1, WrittenKeeps, CommitsKept
  <2>3. QED
    BY <2>1, <2>2, WrittenKeeps DEF Typed, TweetInv, WindowInv, Calling
<1>2. CASE Tick
  <2>1. UNCHANGED <<git, asked, job>>
    BY <1>2 DEF Tick
  <2>2. last \in [Reasons -> Nat] /\ alerts \in [Reasons -> Ages \cup {None}]
    BY DEF Typed
  <2>3. last' = [r \in Reasons |-> Older(last[r])]
    BY <1>2 DEF Tick
  <2>4. ASSUME NEW r \in Reasons
        PROVE  /\ alerts'[r] \in Ages \cup {None}
               /\ alerts'[r] = None => last'[r] >= Window
               /\ alerts'[r] # None =>
                    last'[r] = alerts'[r].emitted /\ alerts'[r].seen <= alerts'[r].emitted
    <3>1. CASE alerts[r] = None
      <4>1. alerts'[r] = None /\ last[r] >= Window
        BY <1>2, <3>1 DEF Tick, WindowInv
      <4>2. last'[r] >= last[r] /\ last'[r] \in Nat
        BY <2>2, <2>3, OlderIs
      <4>3. QED
        BY <2>2, <4>1, <4>2, Numbers
    <3>2. CASE alerts[r] # None
      <4>1. alerts'[r] = [seen |-> Older(alerts[r].seen), emitted |-> Older(alerts[r].emitted)]
        BY <1>2, <3>2 DEF Tick
      <4>2. /\ alerts[r].seen \in Nat /\ alerts[r].emitted \in Nat
            /\ last[r] = alerts[r].emitted /\ alerts[r].seen <= alerts[r].emitted
        BY <2>2, <3>2 DEF Ages, WindowInv
      <4>3. Older(alerts[r].seen) \in Nat /\ Older(alerts[r].emitted) \in Nat
            /\ Older(alerts[r].seen) <= Older(alerts[r].emitted)
        BY <4>2, OlderIs
      <4>4. alerts'[r] \in Ages /\ last'[r] = Older(alerts[r].emitted)
        BY <2>3, <4>1, <4>2, <4>3 DEF Ages
      <4>5. QED
        BY <4>1, <4>3, <4>4, Numbers
    <3>3. QED
      BY <3>1, <3>2
  <2>5. alerts' \in [Reasons -> Ages \cup {None}]
    <3>1. alerts' = [r \in Reasons |-> alerts'[r]]
      BY <1>2 DEF Tick
    <3>2. QED
      BY <2>4, <3>1
  <2>6. last' \in [Reasons -> Nat]
    BY <2>2, <2>3, OlderIs
  <2>7. QED
    BY <1>2, <2>1, <2>4, <2>5, <2>6, TickIs DEF Typed, TweetInv, CommitInv, WindowInv, Calling
<1>3. CASE UNCHANGED vars
  BY <1>3 DEF vars, Typed, TweetInv, CommitInv, WindowInv, Calling
<1>4. QED
  BY <1>1, <1>2, <1>3

LEMMA StepKeeps ==
  ASSUME OutboundAssumption, Typed, TweetInv, CommitInv, WindowInv, [Next]_vars
  PROVE  Typed' /\ TweetInv' /\ CommitInv' /\ WindowInv'
BY NextSteps, CallKeeps, GitKeeps, AlertKeeps, RestKeeps

LEMMA InitHolds ==
  ASSUME OutboundAssumption, Init
  PROVE  Typed /\ TweetInv /\ CommitInv /\ WindowInv
<1>1. circuit \in [Upstreams -> Breakers]
  BY Numbers DEF Init, Breaker, Breakers
<1>2. git \in Trees /\ git.tree = 0 /\ git.index = 0 /\ git.head = 0
  BY Numbers DEF Init, NoBackup, Trees
<1>3. job \in [Workers -> Jobs] /\ \A w \in Workers : job[w].at = "idle"
  BY PlainTyped DEF Init
<1>4. alerts \in [Reasons -> Ages \cup {None}] /\ \A r \in Reasons : alerts[r] = None
  BY DEF Init
<1>5. last \in [Reasons -> Nat] /\ \A r \in Reasons : last[r] >= Window
  BY Numbers DEF Init, Forgotten
<1>6. QED
  BY <1>1, <1>2, <1>3, <1>4, <1>5
     DEF Init, Typed, TweetInv, CommitInv, WindowInv, Calling, CallPlaces, BackupPlaces

-----------------------------------------------------------------------------
(* Two posts of one reason.                                                 *)

LEMMA OncePerWindowStep ==
  ASSUME OutboundAssumption, Typed, WindowInv, [Next]_vars,
         NEW w \in Workers, At(w, "judge"), job'[w].at = "post"
  PROVE  last[job[w].reason] >= Window
<1>1. job \in [Workers -> Jobs]
  BY DEF Typed
<1>2. ASSUME NEW v \in Workers, CallStep(v) \/ GitStep(v), v # w
      PROVE  job'[w] = job[w]
  BY <1>1, <1>2 DEF CallStep, GitStep, Begin, Succeeds, Fails, Wakes, Begins, AddBegins, Add,
       Diff, CommitBegins, Commit, Push, GitFails, NothingNew, RecordFailure, Locks, Moves, Goes
<1>3. ~ (CallStep(w) \/ GitStep(w))
  BY DEF CallStep, GitStep, Begin, Succeeds, Fails, Wakes, Begins, AddBegins, Add,
       Diff, CommitBegins, Commit, Push, GitFails, NothingNew, RecordFailure, At
<1>4. ASSUME NEW v \in Workers, AlertStep(v), v # w
      PROVE  job'[w] = job[w]
  BY <1>1, <1>4 DEF AlertStep, Judge, Post, Raise, Goes
<1>5. AlertStep(w) => Judge(w)
  BY DEF AlertStep, Post, Raise, At
<1>6. ASSUME Judge(w) PROVE last[job[w].reason] >= Window
  <2>1. Goes(w, Idle) => job'[w].at = "idle"
    BY <1>1 DEF Goes, Idle
  <2>2. QED
    BY <1>6, <2>1, JudgeIs
<1>7. ~ ((\E asks \in BOOLEAN : Write(asks)) \/ Tick \/ UNCHANGED vars)
  BY DEF Write, Tick, vars, At
<1>8. QED
  BY <1>2, <1>3, <1>4, <1>5, <1>6, <1>7, NextSteps DEF At

-----------------------------------------------------------------------------
(* The probe of a half-open breaker, with a budget of one.                  *)

LEMMA SeenIs ==
  ASSUME NEW b \in Breakers
  PROVE  \/ Seen(b) = b
         \/ /\ b.state = "open" /\ Seen(b).state = "half-open"
            /\ Seen(b).inFlight = 0 /\ Seen(b).period = b.period + 1
BY DEF Seen, HalfOpened, Breaker, Breakers

LEMMA AdmittedIs ==
  ASSUME OutboundAssumption, Probes = 1, NEW b \in Breakers, ~ Refuses(b)
  PROVE  /\ Admitted(b).state = b.state /\ Admitted(b).period = b.period
         /\ b.state = "half-open" => b.inFlight = 0 /\ Admitted(b).inFlight = 1
<1>1. b.inFlight \in 0 .. 1
  BY DEF Breakers
<1>2. CASE b.state = "half-open"
  BY <1>1, <1>2 DEF Admitted, Refuses, Breakers
<1>3. CASE b.state # "half-open"
  BY <1>3 DEF Admitted
<1>4. QED
  BY <1>2, <1>3

\* Whatever comes back, the breaker is not half open after it.
LEMMA ReturnedIs ==
  ASSUME OutboundAssumption, Probes = 1, NEW b \in Breakers
  PROVE  /\ Succeeded(b).state # "half-open" /\ Succeeded(b).period = b.period
         /\ Failed(b).state # "half-open" /\ Failed(b).period = b.period
<1>1. b.successes \in 0 .. 1
  BY DEF Breakers
<1>2. b.state = "half-open" =>
        /\ Succeeded(b).state # "half-open" /\ Succeeded(b).period = b.period
        /\ Failed(b).state # "half-open" /\ Failed(b).period = b.period
  BY <1>1 DEF Succeeded, Failed, Opened, Breaker
<1>3. ASSUME b.state # "half-open"
      PROVE  Succeeded(b).state # "half-open" /\ Succeeded(b).period = b.period
  BY <1>3 DEF Succeeded, Breakers
<1>4. ASSUME b.state # "half-open"
      PROVE  Failed(b).state # "half-open" /\ Failed(b).period = b.period
  BY <1>4 DEF Failed, Opened, Breaker, Breakers
<1>5. QED
  BY <1>2, <1>3, <1>4

\* A call ends, or another part's step: no new call, at most fewer half open.
LEMMA NoneBegins ==
  ASSUME Typed, ProbeInv, NEW w \in Workers,
         \A v \in Workers : Calling(v)' =>
           Calling(v) /\ job'[v].upstream = job[v].upstream /\ job'[v].period = job[v].period,
         \A u \in Upstreams : circuit'[u].period = circuit[u].period,
         \A u \in Upstreams : circuit'[u].state = "half-open" =>
           circuit[u].state = "half-open" /\ circuit'[u].inFlight = circuit[u].inFlight
  PROVE  ProbeInv'
<1>1. ASSUME NEW v \in Workers, Calling(v)'
      PROVE  job'[v].period <= circuit'[job'[v].upstream].period
  <2>1. Calling(v) /\ job[v].upstream \in Upstreams
    BY <1>1, JobByPlace DEF Calling, CallJobs
  <2>2. QED
    BY <1>1, <2>1 DEF ProbeInv
<1>2. ASSUME NEW v \in Workers, NEW u \in Upstreams, Probes1(v, u)' PROVE Probes1(v, u)
  BY <1>2 DEF Probes1
<1>3. QED
  BY <1>1, <1>2 DEF ProbeInv

LEMMA BeginKeepsProbe ==
  ASSUME OutboundAssumption, Probes = 1, Typed, ProbeInv,
         NEW w \in Workers, NEW u \in Upstreams, Begin(w, u)
  PROVE  ProbeInv'
<1> DEFINE b == Seen(circuit[u])
<1>1. circuit \in [Upstreams -> Breakers] /\ job \in [Workers -> Jobs] /\ b \in Breakers
  BY BreakersTyped DEF Typed
<1>2. job[w].at = "idle"
  BY BeginIs
<1>3. /\ circuit[u].period \in Nat /\ b.period \in Nat
      /\ \/ b = circuit[u]
         \/ circuit[u].state = "open" /\ b.inFlight = 0 /\ b.period = circuit[u].period + 1
            /\ b.state = "half-open"
  BY <1>1, SeenIs DEF Breakers
\* What seeing the breaker alone does.
<1>4. ASSUME NEW v \in Workers, Calling(v)
      PROVE  /\ job[v].period \in Nat /\ job[v].upstream \in Upstreams
             /\ circuit[job[v].upstream].period \in Nat
             /\ job[v].period <= circuit[job[v].upstream].period
             /\ job[v].upstream = u => job[v].period <= b.period
  <2>1. job[v].period \in Nat /\ job[v].upstream \in Upstreams
    BY <1>4, JobByPlace DEF Calling, CallJobs
  <2>2. job[v].period <= circuit[job[v].upstream].period
    BY <1>4 DEF ProbeInv
  <2>3. circuit[job[v].upstream].period \in Nat
    BY <1>1, <2>1 DEF Breakers
  <2>4. QED
    BY <1>3, <2>1, <2>2, <2>3
<1> DEFINE Probing(v) == Calling(v) /\ job[v].upstream = u /\ job[v].period = b.period
<1>5. ASSUME b.state = "half-open"
      PROVE  /\ b.period > 0
             /\ b.inFlight = 0 => \A v \in Workers : ~ Probing(v)
             /\ \A v, x \in Workers : Probing(v) /\ Probing(x) => v = x
  <2>1. CASE b = circuit[u]
    BY <1>5, <2>1 DEF ProbeInv, Probes1
  <2>2. CASE b.period = circuit[u].period + 1
    <3>1. \A v \in Workers : ~ Probing(v)
      BY <1>3, <1>4, <2>2
    <3>2. QED
      BY <1>3, <2>2, <3>1
  <2>3. QED
    BY <1>3, <2>1, <2>2
<1>6. CASE circuit' = [circuit EXCEPT ![u] = b] /\ UNCHANGED job
  <2>1. circuit'[u] = b /\ \A x \in Upstreams \ {u} : circuit'[x] = circuit[x]
    BY <1>1, <1>6
  <2>2. ASSUME NEW v \in Workers, Calling(v)'
        PROVE  job'[v].period <= circuit'[job'[v].upstream].period
    BY <1>4, <1>6, <2>1, <2>2 DEF Calling
  <2>3. ASSUME NEW x \in Upstreams, circuit'[x].state = "half-open"
        PROVE  /\ circuit'[x].period > 0
               /\ circuit'[x].inFlight = 0 => \A v \in Workers : ~ Probes1(v, x)'
               /\ \A v, y \in Workers : Probes1(v, x)' /\ Probes1(y, x)' => v = y
    <3>1. CASE x = u
      BY <1>5, <1>6, <2>1, <2>3, <3>1 DEF Probes1, Calling
    <3>2. CASE x # u
      BY <1>6, <2>1, <2>3, <3>2 DEF ProbeInv, Probes1, Calling
    <3>3. QED
      BY <3>1, <3>2
  <2>4. QED
    BY <2>2, <2>3 DEF ProbeInv
<1>7. ASSUME ~ Refuses(b), circuit' = [circuit EXCEPT ![u] = Admitted(b)],
             NEW period \in Nat, Goes(w, Call("attempt", u, 0, "short", period, 0, 0)),
             period = IF b.state = "half-open" THEN b.period ELSE 0
      PROVE  ProbeInv'
  <2> DEFINE j == Call("attempt", u, 0, "short", period, 0, 0)
  <2>1. j \in Jobs /\ j.at = "attempt" /\ j.upstream = u /\ j.period = period
    BY DEF Call, CallJobs, Jobs, CallPlaces
  <2>2. job'[w] = j /\ \A v \in Workers \ {w} : job'[v] = job[v]
    BY <1>7, <2>1, GoesTyped
  <2>3. /\ circuit'[u].state = b.state /\ circuit'[u].period = b.period
        /\ b.state = "half-open" => b.inFlight = 0 /\ circuit'[u].inFlight = 1
    BY <1>1, <1>7, AdmittedIs
  <2>4. \A x \in Upstreams \ {u} : circuit'[x] = circuit[x]
    BY <1>1, <1>7
  <2>5. ASSUME NEW v \in Workers, Calling(v)'
        PROVE  job'[v].period <= circuit'[job'[v].upstream].period
    <3>1. CASE v = w
      BY <1>3, <1>7, <2>1, <2>2, <2>3, <3>1
    <3>2. CASE v # w
      <4>1. Calling(v) /\ job'[v] = job[v]
        BY <2>2, <2>5, <3>2 DEF Calling
      <4>2. CASE job[v].upstream = u
        BY <1>4, <2>3, <4>1, <4>2
      <4>3. CASE job[v].upstream # u
        BY <1>4, <2>4, <4>1, <4>3
      <4>4. QED
        BY <4>2, <4>3
    <3>3. QED
      BY <3>1, <3>2
  <2>6. ASSUME NEW x \in Upstreams, circuit'[x].state = "half-open"
        PROVE  /\ circuit'[x].period > 0
               /\ circuit'[x].inFlight = 0 => \A v \in Workers : ~ Probes1(v, x)'
               /\ \A v, y \in Workers : Probes1(v, x)' /\ Probes1(y, x)' => v = y
    <3>1. CASE x = u
      <4>1. b.state = "half-open" /\ b.inFlight = 0 /\ circuit'[u].inFlight = 1
            /\ circuit'[u].period = b.period
        BY <2>3, <2>6, <3>1
      <4>2. \A v \in Workers \ {w} : ~ Probes1(v, u)'
        BY <1>5, <2>2, <4>1 DEF Probes1, Calling
      <4>3. QED
        BY <1>5, <3>1, <4>1, <4>2
    <3>2. CASE x # u
      <4>1. \A v \in Workers : Probes1(v, x)' => Probes1(v, x)
        BY <2>1, <2>2, <2>4, <3>2 DEF Probes1, Calling
      <4>2. QED
        BY <2>4, <2>6, <3>2, <4>1 DEF ProbeInv
    <3>3. QED
      BY <3>1, <3>2
  <2>7. QED
    BY <2>5, <2>6 DEF ProbeInv
<1>8. QED
  BY <1>6, <1>7, BeginIs

LEMMA ProbeStep ==
  ASSUME OutboundAssumption, Probes = 1, Typed, TweetInv, CommitInv, WindowInv, ProbeInv,
         [Next]_vars
  PROVE  ProbeInv'
<1>1. circuit \in [Upstreams -> Breakers] /\ job \in [Workers -> Jobs]
  BY DEF Typed
<1>2. Idle \in Jobs /\ Idle.at \notin CallPlaces
  BY PlainTyped DEF CallPlaces
<1>3. ASSUME NEW w \in Workers, NEW c, job[w] \in CallJobs, Goes(w, Idle),
             circuit' = [circuit EXCEPT ![job[w].upstream] = c],
             c.state # "half-open", c.period = circuit[job[w].upstream].period
      PROVE  ProbeInv'
  <2>1. job'[w] = Idle /\ \A v \in Workers \ {w} : job'[v] = job[v]
    BY <1>2, <1>3, GoesTyped
  <2>2. job[w].upstream \in Upstreams
    BY <1>3 DEF CallJobs
  <2>3. \A u \in Upstreams : circuit'[u].period = circuit[u].period
          /\ (circuit'[u].state = "half-open" => circuit'[u] = circuit[u])
    BY <1>1, <1>3, <2>2
  <2>4. QED
    BY <1>2, <2>1, <2>3, NoneBegins DEF Calling
<1>4. ASSUME NEW w \in Workers, NEW j \in CallJobs, Goes(w, j), Calling(w), UNCHANGED circuit,
             j.upstream = job[w].upstream, j.period = job[w].period
      PROVE  ProbeInv'
  <2>1. job'[w] = j /\ \A v \in Workers \ {w} : job'[v] = job[v]
    BY <1>4, GoesTyped DEF Jobs
  <2>2. QED
    BY <1>4, <2>1, NoneBegins DEF Calling
<1>5. ASSUME NEW w \in Workers, CallStep(w) PROVE ProbeInv'
  <2>1. ASSUME NEW u \in Upstreams, Begin(w, u) PROVE ProbeInv'
    BY <2>1, BeginKeepsProbe
  <2>2. CASE Succeeds(w)
    <3>1. job[w] \in CallJobs /\ job[w].upstream \in Upstreams
      BY <2>2, JobByPlace DEF Succeeds, At, CallPlaces, CallJobs
    <3>2. /\ circuit' = [circuit EXCEPT ![job[w].upstream] = Succeeded(circuit[job[w].upstream])]
          /\ Goes(w, Idle)
      BY <2>2 DEF Succeeds
    <3>3. QED
      BY <1>1, <1>3, <3>1, <3>2, ReturnedIs
  <2>3. CASE Wakes(w)
    <3>1. job[w] \in CallJobs /\ Calling(w) /\ UNCHANGED circuit
      BY <2>3, JobByPlace DEF Wakes, Calling, CallPlaces
    <3>2. PICK base \in {"short", "long"} :
            Goes(w, Call("attempt", job[w].upstream, job[w].retries, base, job[w].period,
                         job[w].tweets, job[w].unseen))
      BY <2>3, <3>1 DEF Wakes, CallJobs
    <3> DEFINE j == Call("attempt", job[w].upstream, job[w].retries, base, job[w].period,
                         job[w].tweets, job[w].unseen)
    <3>3. j \in CallJobs /\ j.upstream = job[w].upstream /\ j.period = job[w].period
      BY <3>1 DEF Call, CallJobs, CallPlaces
    <3>4. QED
      BY <1>4, <3>1, <3>2, <3>3
  <2>4. ASSUME NEW o \in Outcomes, Fails(w, o) PROVE ProbeInv'
    <3>1. job[w] \in CallJobs /\ Calling(w) /\ job[w].upstream \in Upstreams
      BY <2>4, FailsIs DEF Calling, CallPlaces, CallJobs
    <3>2. CASE /\ circuit' = [circuit EXCEPT ![job[w].upstream] = Failed(circuit[job[w].upstream])]
               /\ Goes(w, Idle)
      BY <1>1, <1>3, <3>1, <3>2, ReturnedIs
    <3>3. ASSUME UNCHANGED circuit, NEW place \in {"sleep", "limited"}, NEW more \in {0, 1},
                 Goes(w, Call(place, job[w].upstream, job[w].retries + 1, job[w].base,
                              job[w].period, job[w].tweets + more, job[w].unseen + more))
          PROVE  ProbeInv'
      <4> DEFINE j == Call(place, job[w].upstream, job[w].retries + 1, job[w].base,
                           job[w].period, job[w].tweets + more, job[w].unseen + more)
      <4>1. j \in CallJobs /\ j.upstream = job[w].upstream /\ j.period = job[w].period
        BY <3>1 DEF Call, CallJobs, CallPlaces
      <4>2. QED
        BY <1>4, <3>1, <3>3, <4>1
    <3>4. QED
      BY <2>4, <3>2, <3>3, FailsIs
  <2>5. QED
    BY <1>5, <2>1, <2>2, <2>3, <2>4 DEF CallStep
<1>6. ASSUME NEW w \in Workers, GitStep(w) PROVE ProbeInv'
  <2>1. PICK j \in Jobs : Goes(w, j) /\ j.at \notin CallPlaces
    BY <1>6, GitStepComes DEF Came
  <2>2. job'[w] = j /\ \A v \in Workers \ {w} : job'[v] = job[v]
    BY <2>1, GoesTyped
  <2>3. UNCHANGED circuit
    BY <1>6, GitStepLeaves
  <2>4. QED
    BY <2>1, <2>2, <2>3, NoneBegins DEF Calling
<1>7. ASSUME NEW w \in Workers, AlertStep(w) PROVE ProbeInv'
  <2>1. UNCHANGED circuit /\ ~ Calling(w)'
    BY <1>7, AlertKeeps
  <2>2. \A v \in Workers \ {w} : job'[v] = job[v]
    BY <1>1, <1>7 DEF AlertStep, Judge, Post, Raise, Goes
  <2>3. QED
    BY <2>1, <2>2, NoneBegins DEF Calling
<1>8. ASSUME NEW asks \in BOOLEAN, Write(asks) PROVE ProbeInv'
  BY <1>8 DEF Write, ProbeInv, Probes1, Calling
<1>9. CASE Tick
  <2>1. UNCHANGED job
    BY <1>9 DEF Tick
  <2>2. CASE Workers = {}
    BY <2>1, <2>2, <1>9, TickIs DEF ProbeInv
  <2>3. CASE Workers # {}
    BY <1>9, <2>1, <2>3, TickIs, NoneBegins DEF Calling
  <2>4. QED
    BY <2>2, <2>3
<1>10. CASE UNCHANGED vars
  BY <1>10 DEF vars, ProbeInv, Probes1, Calling
<1>11. QED
  BY <1>5, <1>6, <1>7, <1>8, <1>9, <1>10, NextSteps

LEMMA ProbeBudgetHolds ==
  ASSUME OutboundAssumption, Probes = 1, Typed, ProbeInv
  PROVE  ProbeBudget
<1>1. ASSUME NEW u \in Upstreams, circuit[u].state = "half-open"
      PROVE  Cardinality({w \in Workers : job[w].at \in {"attempt", "sleep", "limited"}
                                  /\ job[w].upstream = u
                                  /\ job[w].period = circuit[u].period}) <= 1
  <2> DEFINE P == {w \in Workers : job[w].at \in {"attempt", "sleep", "limited"}
                                  /\ job[w].upstream = u
                                  /\ job[w].period = circuit[u].period}
  <2>1. \A v, w \in P : v = w
    BY <1>1 DEF ProbeInv, Probes1, Calling, CallPlaces
  <2> HIDE DEF P
  <2>2. CASE P = {}
    <3>1. Cardinality(P) = 0
      BY <2>2, FS_EmptySet
    <3>2. QED
      BY <3>1 DEF P
  <2>3. CASE P # {}
    <3>1. PICK v : v \in P
      BY <2>3
    <3>2. P = {v}
      BY <2>1, <3>1
    <3>3. Cardinality(P) = 1
      BY <3>2, FS_Singleton
    <3>4. QED
      BY <3>3 DEF P
  <2>4. QED
    BY <2>2, <2>3
<1>2. QED
  BY <1>1 DEF ProbeBudget

-----------------------------------------------------------------------------
\* Whatever fails: two posts of one reason are let through at least a window
\* apart, although the table forgets what it has not seen for three
\* (shouldEscalate, pruneExpired).
THEOREM OncePerWindowHolds == Spec => OncePerWindow
<1>1. Init => Typed /\ TweetInv /\ CommitInv /\ WindowInv
  BY OutboundAssumption, InitHolds
<1>2. Typed /\ TweetInv /\ CommitInv /\ WindowInv /\ [Next]_vars
        => (Typed /\ TweetInv /\ CommitInv /\ WindowInv)'
  BY OutboundAssumption, StepKeeps
<1>3. Typed /\ TweetInv /\ CommitInv /\ WindowInv /\ [Next]_vars
        => [\A w \in Workers : At(w, "judge") /\ job'[w].at = "post"
              => last[job[w].reason] >= Window]_vars
  BY OutboundAssumption, OncePerWindowStep
<1>4. QED
  BY <1>1, <1>2, <1>3, PTL DEF Spec, OncePerWindow

\* With the budget of one probe that every caller leaves in force: types, one
\* probe of a half-open breaker at a time, a second tweet only after a lost
\* answer, and a backup that does not count as failed has committed all that was
\* written before it began (CircuitBreaker, runWithRetry, syncMutation).
THEOREM OutboundInvHolds ==
  ASSUME Probes = 1
  PROVE  Spec => []OutboundInv
<1> DEFINE IInv == Typed /\ TweetInv /\ CommitInv /\ WindowInv /\ ProbeInv
<1>1. Init => IInv
  <2>1. ASSUME Init PROVE ProbeInv
    BY <2>1 DEF Init, Idle, ProbeInv, Probes1, Calling, CallPlaces, Breaker
  <2>2. QED
    BY <2>1, OutboundAssumption, InitHolds
<1>2. IInv /\ [Next]_vars => IInv'
  BY OutboundAssumption, StepKeeps, ProbeStep
<1>3. IInv => OutboundInv
  <2>1. ASSUME IInv PROVE TypeOK
    BY <2>1 DEF Typed, TypeOK, Breakers, Trees
  <2>2. ASSUME IInv PROVE ProbeBudget
    BY <2>2, OutboundAssumption, ProbeBudgetHolds
  <2>3. ASSUME IInv PROVE TweetedAgainOnlyUnseen
    BY <2>3 DEF TweetInv, TweetedAgainOnlyUnseen, Calling, CallPlaces
  <2>4. ASSUME IInv PROVE WritesAreCommitted
    <3>1. \A w \in Workers : job[w].at \in {"same", "push"} => job[w].of <= git.head
      BY <2>4 DEF CommitInv, Fits, BackupPlaces
    <3>2. \A w \in Workers : job[w].at \in {"same", "push"} => job[w].of \in Nat
      BY <2>4, OutboundAssumption, BackupIs DEF BackupPlaces
    <3>3. git.head \in Nat
      BY <2>4, OutboundAssumption, GitTyped
    <3>4. QED
      BY <3>1, <3>2, <3>3 DEF WritesAreCommitted
  <2>5. QED
    BY <2>1, <2>2, <2>3, <2>4 DEF OutboundInv
<1>4. QED
  BY <1>1, <1>2, <1>3, PTL DEF Spec
=============================================================================
