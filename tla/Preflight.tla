----------------------------- MODULE Preflight -----------------------------
(***************************************************************************)
(* The hourly self-check of an account in service                          *)
(* (scripts/cron-self-check.ts): gates in a fixed order                    *)
(* (automation/preflight.ts), and the alert when one fails                 *)
(* (automation/preflight-gate.ts, operator-escalation.ts).  It is composed *)
(* with the files of the account (AccountFiles), the knowledge files that  *)
(* are written after account.json (handlers/target.ts, cadence.ts,         *)
(* account-state/knowledge-writer.ts), and the working tree.               *)
(*                                                                         *)
(* A gate reads what it needs when its turn comes; bot, operator and other *)
(* crons go on meanwhile.  What the process is configured with it has read *)
(* when it began.  revision numbers what account.json says of the things   *)
(* the knowledge files repeat.                                             *)
(***************************************************************************)
EXTENDS AccountFiles

CONSTANTS
    MaxChecks,   \* bound: self-checks
    MaxEvents    \* bound: changes of account.json and of the surroundings

ASSUME PreflightAssumption == MaxChecks \in Nat /\ MaxEvents \in Nat /\ NoName \notin Nat

VARIABLES
    env,        \* keys, disk, tools and registry, as the gates find them
    revision,
    knowledge,  \* the revision the knowledge files are of, or None
    regen,      \* revisions about to be written out as knowledge files
    dirty,      \* git status --porcelain prints something
    asked,      \* a backup has been asked for
    check,      \* the self-check under way
    recent,     \* reasons of alerts posted within the window
    untold,     \* history variable: a check failed without an alert, and how
    checks, events

pvars == <<env, revision, knowledge, regen, dirty, asked, check, recent, untold, checks, events>>
allVars == <<filesVars, pvars>>

Possible ==
    [llm |-> {"key", "backend", "auto with a CLI", "auto", "none"}, x |-> BOOLEAN,
     disk |-> {"enough", "low", "error"}, doppler |-> {"alive", "no token", "rejected"},
     git |-> {"works", "fails"}, registry |-> {"channels", "no channels", "no entry"},
     runtime |-> {"right", "old node", "no memory"}]

Good == [llm |-> "key", x |-> TRUE, disk |-> "enough", doppler |-> "alive",
         git |-> "works", registry |-> "channels", runtime |-> "right"]

\* Of these, what a process has from its own start: loadConfig, process.env and
\* process.version.
Config(e) ==
    [llm |-> IF e.llm = "auto with a CLI" THEN "auto" ELSE e.llm, x |-> e.x,
     doppler |-> e.doppler = "no token", runtime |-> e.runtime = "old node"]

Idle == [pc |-> "idle"]

CheckInit ==
    /\ FilesInit
    /\ env = Good
    /\ revision = 0 /\ knowledge \in {NoName, 0} /\ regen = {}
    /\ dirty \in BOOLEAN /\ asked = FALSE
    /\ check = Idle /\ recent \in {{}, {{"git"}}} /\ untold = "no"
    /\ checks \in {0, MaxChecks} /\ events \in {0, MaxEvents}

-----------------------------------------------------------------------------
(* What each gate says: "pass", "skip", "warn" or "fail".                   *)

Fails(condition) == IF condition THEN "fail" ELSE "pass"

\* Both read without migration.
GateAccount == Fails(~AcceptsAccount(accountJson))
GateState == Fails(~Accepts(stateJson))

GateLlm == Fails(env.llm \notin {"key", "backend", "auto with a CLI"})
GateX == IF env.x THEN "pass" ELSE "warn"
GateDisk == Fails(env.disk # "enough")
GateDoppler ==
    CASE env.doppler = "no token" -> "skip"
      [] env.doppler = "alive" -> "pass"
      [] env.doppler = "rejected" -> "fail"
GateGit == Fails(env.git # "works" \/ dirty)

\* The registry the operator keeps (resolveRegistryPath), not the one that
\* launchAccount appends to unless told otherwise; an entry of the latter has
\* no customer_channels.
GateRegistry == Fails(env.registry # "channels")
GateRuntime == Fails(env.runtime # "right")

\* The important words of the account loaded that no file holds, counted up to
\* three; a newer account need not have any.
MissingKeys(loaded) == IF knowledge = loaded THEN {0} ELSE {0, 1, 3}

GateKnowledge(loaded, missing) ==
    CASE loaded = NoName \/ knowledge = NoName -> "fail"
      [] loaded # NoName /\ knowledge # NoName ->
            IF missing = 0 THEN "pass" ELSE IF missing < 3 THEN "warn" ELSE "fail"

\* What is wrong at this moment, by gate; of the knowledge, whether it may be.
Wrong ==
    {g \in {"account", "state", "knowledge", "llm", "disk", "doppler", "git",
            "registry", "runtime"} :
        CASE g = "account" -> ~AcceptsAccount(accountJson)
          [] g = "state" -> ~Accepts(stateJson)
          [] g = "knowledge" -> ~AccountLoads(accountJson) \/ knowledge # revision
          [] g = "llm" -> env.llm \in {"auto", "none"}
          [] g = "disk" -> env.disk \in {"low", "error"}
          [] g = "doppler" -> env.doppler = "rejected"
          [] g = "git" -> dirty \/ env.git = "fails"
          [] g = "registry" -> env.registry \in {"no channels", "no entry"}
          [] g = "runtime" -> env.runtime \in {"old node", "no memory"}}

-----------------------------------------------------------------------------
(* runPreflight, and preflightOrEscalate.                                   *)

At(place) == check.pc = place

\* ever and always are history: what was wrong since the check began, at some
\* moment and all the time.
Watched(c) ==
    IF c.pc = "idle" THEN c
    ELSE [c EXCEPT !.ever = @ \cup Wrong', !.always = @ \cap Wrong']

CheckStep(next) ==
    /\ UNCHANGED <<filesVars, env, revision, knowledge, regen, dirty, asked, recent, untold,
                   checks, events>>
    /\ check' = Watched(next)

Judged(c, gate, verdict) ==
    [c EXCEPT !.failed = IF verdict = "fail" THEN @ \cup {gate} ELSE @]

\* The token is empty or refused, or Discord is not there: main ends before
\* runSelfCheck, and no one is told.  When the login succeeded the gate of the
\* token passes, and is left out.
LoginFails ==
    /\ At("idle") /\ up /\ checks < MaxChecks
    /\ checks' = checks + 1
    /\ UNCHANGED <<filesVars, env, revision, knowledge, regen, dirty, asked, check, recent,
                   untold, events>>

CheckBegins ==
    /\ At("idle") /\ up /\ checks < MaxChecks
    /\ checks' = checks + 1
    /\ check' = [pc |-> "state", failed |-> {g \in {"account"} : GateAccount = "fail"},
                 warned |-> FALSE, loaded |-> NoName, ever |-> Wrong, always |-> Wrong]
    /\ UNCHANGED <<filesVars, env, revision, knowledge, regen, dirty, asked, recent, untold,
                   events>>

ReadState ==
    /\ At("state")
    /\ CheckStep([Judged(check, "state", GateState) EXCEPT !.pc = "load"])

LoadAccount ==
    /\ At("load")
    /\ CheckStep([check EXCEPT !.pc = "knowledge",
                               !.loaded = IF AccountLoads(accountJson) THEN revision ELSE NoName])

ReadKnowledge ==
    /\ At("knowledge")
    /\ \E missing \in MissingKeys(check.loaded) :
          LET verdict == GateKnowledge(check.loaded, missing) IN
          CheckStep([Judged(check, "knowledge", verdict) EXCEPT
                        !.pc = "llm", !.warned = verdict = "warn"])

\* The gates that follow, each at its moment; a missing X key only warns.
After == [llm |-> "disk", disk |-> "doppler", doppler |-> "git", git |-> "registry",
          registry |-> "runtime"]

Verdict(gate) ==
    CASE gate = "llm" -> GateLlm
      [] gate = "disk" -> GateDisk
      [] gate = "doppler" -> GateDoppler
      [] gate = "git" -> GateGit
      [] gate = "registry" -> GateRegistry

RunGate(gate) ==
    /\ At(gate)
    /\ CheckStep([Judged(check, gate, Verdict(gate)) EXCEPT !.pc = After[gate]])

\* Only a warning of the knowledge is told.
LastGateFaulty ==  \* Faulty: a warning takes the place of what failed.
    /\ At("runtime")
    /\ LET c == Judged(check, "runtime", GateRuntime)
       IN CheckStep([c EXCEPT !.pc = IF c.warned \/ c.failed = {} THEN "done" ELSE "tell"])
LastGate ==
    /\ At("runtime")
    /\ LET c == Judged(check, "runtime", GateRuntime)
       IN CheckStep([c EXCEPT !.pc = IF c.failed # {} \/ c.warned THEN "tell" ELSE "done"])

\* buildReason: the names of what failed, or the warning.
Reason == IF check.failed # {} THEN check.failed ELSE {"warning"}

\* shouldEscalate writes the state through withState, which makes a file that
\* is not there and may be given one it cannot read: then nothing is posted.
\* This repo has no GitSync, so the alert itself leaves the tree dirty.
Tell ==
    /\ At("tell")
    /\ \/ /\ ~Loads(Found)
          /\ check' = [check EXCEPT !.pc = "done"]
          /\ untold' = IF check.failed = {} THEN untold ELSE "state"
          /\ UNCHANGED <<stateJson, written, dirty, recent>>
       \/ /\ Loads(Found)
          /\ stateJson' = Loaded(Found) /\ written' = TRUE /\ dirty' = TRUE
          /\ check' = [check EXCEPT !.pc = IF Reason \in recent THEN "done" ELSE "post"]
          /\ recent' = recent \cup {Reason}
          /\ UNCHANGED untold
    /\ UNCHANGED <<accountJson, up, script, wizard, registered, named, finished, changes,
                   env, revision, knowledge, regen, asked, checks, events>>

\* Discord takes the alert, or does not and the mark stays.
Post ==
    /\ At("post")
    /\ check' = [check EXCEPT !.pc = "done"]
    /\ untold' \in {untold, "post"}
    /\ UNCHANGED <<filesVars, env, revision, knowledge, regen, dirty, asked, recent, checks,
                   events>>

CheckEnds ==
    /\ At("done")
    /\ check' = Idle
    /\ UNCHANGED <<filesVars, env, revision, knowledge, regen, dirty, asked, recent, untold,
                   checks, events>>

-----------------------------------------------------------------------------
(* Surroundings.                                                            *)

Event == events < MaxEvents /\ events' = events + 1
Meanwhile == check' = Watched(check)

\* The actions of the files.  A write of the bot asks for a backup unless it is
\* an unlocked one, a write of a cron does not.  It is stopped between two checks.
FilesStep ==
    /\ FilesNext
    /\ up /\ ~up' => At("idle")
    /\ LET wrote == accountJson' # accountJson \/ stateJson' # stateJson IN
         /\ dirty' = (dirty \/ wrote)
         /\ asked' \in {asked, asked \/ (wrote /\ up)}
    /\ knowledge' = IF wizard = "knowledge" /\ changes' = changes /\ wizard' = "none"
                    THEN revision ELSE knowledge
    /\ UNCHANGED <<env, revision, regen, recent, untold, checks, events>>
    /\ Meanwhile

\* A handler loads account.json, saves it changed, and writes the knowledge
\* files afterwards; the training and enable_all do not.
HandlerSaves(regenerates) ==
    /\ up /\ AccountLoads(accountJson)
    /\ Event
    /\ accountJson' = AccountLoaded(accountJson)
    /\ revision' = revision + 1
    /\ regen' = IF regenerates THEN regen \cup {revision + 1} ELSE regen
    /\ dirty' = TRUE /\ asked' = TRUE
    /\ UNCHANGED <<stateJson, up, script, wizard, registered, written, named, finished, changes,
                   env, knowledge, recent, untold, checks>>
    /\ Meanwhile

\* The files are written, of what the handler saved or of what it loads again,
\* in any order of the handlers, or the write fails.
Regenerate(r) ==
    /\ r \in regen
    /\ regen' = regen \ {r}
    /\ \/ knowledge' \in {r, revision} /\ dirty' = TRUE /\ asked' = TRUE
       \/ UNCHANGED <<knowledge, dirty, asked>>
    /\ UNCHANGED <<filesVars, env, revision, recent, untold, checks, events>>
    /\ Meanwhile

\* The backup of a write of the bot takes what other writers left as well.
Backup ==
    /\ asked
    /\ asked' = FALSE /\ dirty' = FALSE
    /\ UNCHANGED <<filesVars, env, revision, knowledge, regen, recent, untold, checks, events>>
    /\ Meanwhile

Surroundings ==
    /\ Event
    /\ \E f \in DOMAIN Possible :
          \E v \in Possible[f] \ {env[f]} : env' = [env EXCEPT ![f] = v]
    /\ At("idle") \/ Config(env') = Config(env)
    /\ UNCHANGED <<filesVars, revision, knowledge, regen, dirty, asked, recent, untold, checks>>
    /\ Meanwhile

\* The window of the alerts passes: ten minutes, a check is made each hour.
WindowPasses ==
    /\ recent # {} /\ At("idle")
    /\ recent' = {}
    /\ UNCHANGED <<filesVars, env, revision, knowledge, regen, dirty, asked, check, untold,
                   checks, events>>

CheckNext ==
    \/ LoginFails \/ CheckBegins \/ ReadState \/ LoadAccount \/ ReadKnowledge
    \/ (\E gate \in DOMAIN After : RunGate(gate))
    \/ LastGate \/ Tell \/ Post \/ CheckEnds
    \/ FilesStep \/ Backup \/ Surroundings \/ WindowPasses
    \/ \E b \in BOOLEAN : HandlerSaves(b)
    \/ \E r \in regen : Regenerate(r)

CheckSpec == CheckInit /\ [][CheckNext]_allVars

-----------------------------------------------------------------------------
(* Properties.                                                              *)

\* The verdict of a check is fair although each of its gates reads at a moment
\* of its own: what fails was wrong at some moment of the check, and what was
\* wrong all the time fails, the knowledge aside, whose differences need not
\* show.  And when something failed, an alert of just that was let through
\* within the window, also when state.json had to be made for it, unless it
\* could not be recorded because state.json does not load (runPreflight,
\* preflightOrEscalate).
VerdictIsFair ==
    At("done") =>
        /\ check.failed \subseteq check.ever
        /\ check.always \ {"knowledge"} \subseteq check.failed
        /\ check.failed # {} => check.failed \in recent \/ untold = "state"
=============================================================================
