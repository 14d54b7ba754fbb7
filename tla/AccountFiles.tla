---------------------------- MODULE AccountFiles ----------------------------
(***************************************************************************)
(* What account.json and state.json may hold, and what becomes of it when  *)
(* it is read and written: the schemas (account-state/state-schema.ts,     *)
(* account-schema.ts), the migration every reader but a few goes through   *)
(* (schema-migration.ts), the script that brings an account over from the  *)
(* Python program (scripts/migrate-from-python.ts) and the wizard that     *)
(* makes a new one (onboarding/launch-wizard.ts).                          *)
(*                                                                         *)
(* A field that keeps sessions is missing, a list, a map, or something     *)
(* else.  An entry is its name, its status and, for tracked tweets, its    *)
(* phase; any other field of it is filled with a default or right.  Fields *)
(* that go the same way are one here: "wizard" stands for the retro,       *)
(* onboarding and first-window sessions, "inbound" for replies and quotes, *)
(* "plain" for skip_dates, seen_event_ids and what only has a default.     *)
(* Locks, and the steps of a write, are in StateStore.                     *)
(***************************************************************************)
EXTENDS Naturals, FiniteSets, SequencesExt

CONSTANTS
    Ids,         \* names of sessions, queue items, digest days
    MaxEntries,  \* bound: entries of a field of the file as it is found
    MaxChanges,  \* bound: writes of the bot, and deaths
    NoName

ASSUME FilesAssumption ==
    /\ MaxEntries \in Nat /\ MaxChanges \in Nat
    /\ NoName \notin Ids

Fields == {"posting", "wizard", "inbound", "target", "queue", "digest", "plain"}

\* The statuses the schema knows; "" stands for a status that is not there,
\* free text is "text".
PostingStates == {"created", "repairing", "published", "failed_terminal", "expired"}
PublishStatuses == {"scheduled", "held", "published", "failed", "cancelled"}
InboundStatuses == {"open", "posted", "discord_pending", "operator_escalated", "error"}
TargetStatuses == {"open", "posted", "skipped", "operator_escalated", "error"}
WizardStates == {"created", "asking", "completed", "cancelled"}

Known == [posting |-> PostingStates, queue |-> PublishStatuses, inbound |-> InboundStatuses,
          target |-> TargetStatuses, wizard |-> WizardStates, digest |-> {"text"},
          plain |-> {"text"}]

Default == [posting |-> "created", queue |-> "scheduled", inbound |-> "open",
            target |-> "open", wizard |-> "created", digest |-> "text", plain |-> "text"]

VARIABLES
    accountJson,
    stateJson,
    up,        \* the bot and its crons run
    script,    \* where migrate-from-python is
    wizard,    \* where launchAccount is
    registered,
    written,   \* state.json was written by this program
    named,     \* history variable: entries there were, by field and name
    finished,  \* history variable: those of them nothing is left to do for
    changes

filesVars ==
    <<accountJson, stateJson, up, script, wizard, registered, written, named, finished, changes>>

-----------------------------------------------------------------------------
(* Files.                                                                   *)

Entry(own, status, phase) == [own |-> own, plain |-> TRUE, status |-> status, phase |-> phase]
ScalarEntry == [own |-> NoName, plain |-> FALSE, status |-> "", phase |-> ""]

Missing == [shape |-> "missing", items |-> <<>>]
Scalar == [shape |-> "scalar", items |-> <<>>]
List(s) == [shape |-> "list", items |-> s]
Map(m) == [shape |-> "map", items |-> m]
Items(v) == {v.items[i] : i \in DOMAIN v.items}

Absent == [kind |-> "absent"]
Garbage == [kind |-> "garbage"]   \* no JSON
NoObject == [kind |-> "other"]    \* JSON, but no object
Object(fields) == [kind |-> "object", fields |-> fields]

\* The name by which a reader knows an entry: the key of a map that stays
\* one, else the id it carries or is given.
NameIn(f, v, i) ==
    IF v.shape = "map" /\ (f \in {"inbound", "target"} \/ v.items[i].own = NoName)
    THEN i ELSE v.items[i].own

NamedItems(f, v, k) == {v.items[i] : i \in {j \in DOMAIN v.items : NameIn(f, v, j) = k}}
Names(f, v) == {NameIn(f, v, i) : i \in DOMAIN v.items} \ {NoName}

-----------------------------------------------------------------------------
(* migrateState.                                                            *)

\* { id, ...session }, or { id, value } for what is no object.
WithId(e, k) == [e EXCEPT !.own = IF @ = NoName THEN k ELSE @, !.plain = TRUE]

AsList(m) ==
    LET order == SetToSeq(DOMAIN m) IN
    List([i \in 1 .. Len(order) |-> WithId(m[order[i]], order[i])])

\* The last entry of a name is kept, one without a name is dropped.
AsMap(s) ==
    LET at(k) == {i \in DOMAIN s : s[i].plain /\ s[i].own = k}
        last(k) == CHOOSE i \in at(k) : \A j \in at(k) : j <= i
    IN Map([k \in {j \in Ids : at(j) # {}} |-> s[last(k)]])

\* convertSessionDictToArray.
SessionList(v) ==
    CASE v.shape = "map" -> AsList(v.items)
      [] v.shape = "list" -> v
      [] OTHER -> List(<<>>)

\* convertInboundSessionsArrayToDict, and the like for target_discovery_sessions.
SessionMap(v) ==
    CASE v.shape = "list" -> AsMap(v.items)
      [] v.shape = "map" -> v
      [] OTHER -> Map(<<>>)

\* normalizePublishQueue.
QueueList(v) ==
    CASE v.shape = "map" -> AsList(v.items)
      [] v.shape = "missing" -> List(<<>>)
      [] OTHER -> v

\* ensureRuntimeFields.
DigestList(v) == IF v.shape = "list" THEN v ELSE List(<<>>)
PlainList(v) == IF v.shape = "missing" THEN List(<<>>) ELSE v

\* Faulty: a session that failed for good is taken for one to repair.
PostingRemapFaulty(status) ==
    CASE status \in {"failed_recoverable", "failed"} -> "repairing"
      [] status = "completed" -> "published"
      [] status = "cancelled" -> "failed_terminal"
      [] OTHER -> status

\* POSTING_STATE_REMAP: states the Python program had.
PostingRemap(status) ==
    CASE status = "failed_recoverable" -> "repairing"
      [] status = "completed" -> "published"
      [] status \in {"failed", "cancelled"} -> "failed_terminal"
      [] OTHER -> status

\* TARGET_DISCOVERY_STATUS_REMAP does not list operator_escalated, which the
\* schema knows and the reactions cron writes.
TargetRemap(status) ==
    CASE status \in {"", "open", "posted", "skipped", "error"} -> status
      [] status = "done" -> "posted"
      [] status = "failed" -> "error"
      [] OTHER -> "open"

\* Each entry that is an object becomes the entry of its place in items.
Replaced(v, items) ==
    [v EXCEPT !.items =
        [i \in DOMAIN v.items |-> IF v.items[i].plain THEN items[i] ELSE v.items[i]]]

\* coercePostingSessionShape and coerceTargetDiscoverySessions.
RemapPosting(v) ==
    Replaced(v, [i \in DOMAIN v.items |-> [v.items[i] EXCEPT !.status = PostingRemap(@)]])
RemapTarget(v) ==
    Replaced(v, [k \in DOMAIN v.items |->
                    [WithId(v.items[k], k) EXCEPT !.status = TargetRemap(@)]])

MigratedField(f, v) ==
    CASE f = "posting" -> RemapPosting(SessionList(v))
      [] f = "wizard" -> SessionList(v)
      [] f = "inbound" -> SessionMap(v)
      [] f = "target" -> RemapTarget(SessionMap(v))
      [] f = "queue" -> QueueList(v)
      [] f = "digest" -> DigestList(v)
      [] f = "plain" -> PlainList(v)

Migrated(file) ==
    Object([f \in Fields |->
        MigratedField(f, IF file.kind = "object" THEN file.fields[f] ELSE Missing)])

-----------------------------------------------------------------------------
(* StateJsonSchema.                                                         *)

\* What the schema makes of a field before it looks at its entries.
Prepared(f, v) ==
    CASE v.shape = "missing" -> IF f \in {"inbound", "target"} THEN Map(<<>>) ELSE List(<<>>)
      [] f = "posting" /\ v.shape # "missing" -> SessionList(v)
      [] f = "inbound" /\ v.shape # "missing" -> SessionMap(v)
      [] OTHER -> v

\* An entry is an object of a status the schema knows, or of none, and but for
\* the inbound ones it has an id.
AcceptsField(f, v) ==
    LET p == Prepared(f, v) IN
    /\ p.shape = IF f \in {"inbound", "target"} THEN "map" ELSE "list"
    /\ f # "plain" =>
         \A e \in Items(p) : /\ e.plain
                             /\ f # "inbound" => e.own # NoName
                             /\ e.status \in Known[f] \cup {""}

Accepts(file) ==
    file.kind = "object" /\ \A f \in Fields : AcceptsField(f, file.fields[f])

ParsedField(f, v) ==
    LET p == Prepared(f, v) IN
    Replaced(p, [i \in DOMAIN p.items |->
                    [p.items[i] EXCEPT !.status = IF @ = "" THEN Default[f] ELSE @]])

Parsed(file) == Object([f \in Fields |-> ParsedField(f, file.fields[f])])

\* A reader that migrates gets Loaded(file), or an error.
Loads(file) == file.kind \in {"object", "other"} /\ Accepts(Migrated(file))
Loaded(file) == Parsed(Migrated(file))

-----------------------------------------------------------------------------
(* account.json: assets is external_reference_assets, level is              *)
(* automation_level, parts the objects of which it is made besides.  A part *)
(* is wrong when any of its fields has a value its schema refuses.          *)

Parts == {"cadence", "engagement", "approval", "trigger", "voice", "news"}
PartsAre(p, what) == [q \in Parts |-> IF q = p THEN what ELSE "right"]

Account(assets, level, parts) ==
    [kind |-> "object", assets |-> assets, level |-> level, parts |-> parts]
AccountRecords ==
    [kind : {"object"}, assets : {"missing", "strings", "objects"},
     level : {"no system", "missing", "right", "wrong"},
     parts : [Parts -> {"missing", "right", "wrong"}]]
Accounts ==
    {a \in AccountRecords :
        \E p \in Parts, w \in {"missing", "right", "wrong"} : a.parts = PartsAre(p, w)}
NoAccount == Account("missing", "no system", [p \in Parts |-> "missing"])

\* migrateAccount.
MigratedAccount(file) ==
    IF file.kind = "object"
    THEN [file EXCEPT !.assets = IF @ = "strings" THEN "objects" ELSE @,
                      !.level = IF @ = "missing" THEN "right" ELSE @]
    ELSE NoAccount

\* AccountJsonSchema: what is there is right; what is not is filled.
AcceptsAccount(file) ==
    /\ file.kind = "object" /\ file.level # "wrong"
    /\ \A p \in Parts : file.parts[p] # "wrong"
ParsedAccount(file) == [file EXCEPT !.level = "right", !.parts = PartsAre("news", "right")]

AccountLoads(file) ==
    file.kind \in {"object", "other"} /\ AcceptsAccount(MigratedAccount(file))
AccountLoaded(file) == ParsedAccount(MigratedAccount(file))

-----------------------------------------------------------------------------
(* What is still to be done for an entry, for the parts of the program that *)
(* look for such entries, and what its writer had done with.                *)

UpForWork(f, e) ==
    CASE f = "posting" -> e.status \notin {"published", "failed_terminal", "expired"}
      [] f = "queue" -> e.status \in {"scheduled", "held"}
      [] f = "inbound" -> e.status \in {"open", "discord_pending"}
      [] f = "target" -> e.status = "open" /\ e.phase \in {"", "open"}
      [] f = "wizard" -> e.status \in {"created", "asking"}
      [] OTHER -> FALSE

DoneInPython == {"completed", "failed", "cancelled", "done"}

Done(f, e) ==
    /\ e.plain /\ f \notin {"digest", "plain"}
    /\ \/ e.status \in Known[f] /\ ~UpForWork(f, e)
       \/ f \in {"posting", "target"} /\ e.status \in DoneInPython
       \/ f = "target" /\ e.status = "operator_escalated"

\* As the file is found: one field has a past, or account.json has one.  Of
\* statuses that go the same way one is enough.
Statuses ==
    [posting |-> {"", "created", "published", "failed_recoverable", "completed", "failed", "text"},
     target |-> {"", "open", "posted", "operator_escalated", "done", "text"},
     inbound |-> {"", "open", "posted"},
     queue |-> {"", "scheduled", "published"},
     wizard |-> {"", "created", "completed"},
     digest |-> {"text"}, plain |-> {"text"}]

\* A writer that gives a tweet up says so in both fields.
Entries(f) ==
    {ScalarEntry} \cup
    {e \in [own : Ids \cup {NoName}, plain : {TRUE}, status : Statuses[f],
            phase : IF f = "target" THEN {"open", "operator_escalated"} ELSE {""}] :
        (e.status = "operator_escalated" /\ f = "target") <=> e.phase = "operator_escalated"}

Values(f) ==
    {Missing, Scalar}
    \cup {List(s) : s \in UNION {[1 .. n -> Entries(f)] : n \in 0 .. MaxEntries}}
    \cup {Map(m) : m \in UNION {[K -> Entries(f)] :
                                  K \in {J \in SUBSET Ids :
                                            IsFiniteSet(J) /\ Cardinality(J) <= MaxEntries}}}

AllMissing == [f \in Fields |-> Missing]

\* buildStarterAccount.
StarterAccount == ParsedAccount(NoAccount)

\* The digest always was a list, and a list without names has no past.
NamedAtFirst(fields) ==
    UNION {{<<f, k>> : k \in Names(f, fields[f])} : f \in Fields \ {"digest", "plain"}}

\* An entry of the list of a map field that is no object has no name either.
FilesInit ==
    /\ \/ /\ accountJson \in Accounts \cup {Absent, Garbage, NoObject}
          /\ stateJson \in {Absent, Garbage, NoObject, Object(AllMissing)}
       \/ /\ accountJson = StarterAccount
          /\ \E f \in Fields : \E v \in Values(f) :
                stateJson = Object([AllMissing EXCEPT ![f] = v])
    /\ named = IF stateJson.kind = "object" THEN NamedAtFirst(stateJson.fields) ELSE {}
    /\ finished = {n \in named :
                     \A e \in NamedItems(n[1], stateJson.fields[n[1]], n[2]) : Done(n[1], e)}
    /\ up = FALSE /\ script = "none" /\ wizard = "none"
    /\ registered = FALSE /\ written = FALSE
    /\ changes \in {0, MaxChanges}

-----------------------------------------------------------------------------
(* migrate-from-python: account.json, then state.json.  A file that is not  *)
(* there is passed over; one that cannot be read ends it.                   *)

AtRest == ~up /\ script = "none" /\ wizard = "none"
HistoryUnchanged == UNCHANGED <<named, finished, changes>>

ScriptAccount ==
    /\ AtRest
    /\ accountJson = Absent \/ AccountLoads(accountJson)
    /\ accountJson' = IF accountJson = Absent THEN accountJson ELSE AccountLoaded(accountJson)
    /\ script' = "state"
    /\ UNCHANGED <<stateJson, up, wizard, registered, written>> /\ HistoryUnchanged

\* Faulty: what is written has been migrated but not been through the schema.
ScriptStateFaulty ==
    /\ script = "state"
    /\ IF Loads(stateJson) THEN stateJson' = Migrated(stateJson) /\ written' = TRUE
                           ELSE UNCHANGED <<stateJson, written>>
    /\ script' = "none"
    /\ UNCHANGED <<accountJson, up, wizard, registered>> /\ HistoryUnchanged
ScriptState ==
    /\ script = "state"
    /\ IF Loads(stateJson) THEN stateJson' = Loaded(stateJson) /\ written' = TRUE
                           ELSE UNCHANGED <<stateJson, written>>
    /\ script' = "none"
    /\ UNCHANGED <<accountJson, up, wizard, registered>> /\ HistoryUnchanged

-----------------------------------------------------------------------------
(* launchAccount: it reads without migration, and writes what is not there. *)

LaunchAccount ==
    /\ AtRest
    /\ accountJson = Absent \/ AcceptsAccount(accountJson)
    /\ accountJson' = IF accountJson = Absent THEN StarterAccount ELSE accountJson
    /\ wizard' = "state"
    /\ UNCHANGED <<stateJson, up, script, registered, written>> /\ HistoryUnchanged

LaunchState ==
    /\ wizard = "state"
    /\ \/ /\ stateJson = Absent
          /\ stateJson' = Parsed(Object(AllMissing)) /\ written' = TRUE
          /\ wizard' = "registry"
       \/ /\ stateJson # Absent
          /\ wizard' = IF Accepts(stateJson) THEN "registry" ELSE "none"
          /\ UNCHANGED <<stateJson, written>>
    /\ UNCHANGED <<accountJson, up, script, registered>> /\ HistoryUnchanged

Register ==
    /\ wizard = "registry"
    /\ registered' = TRUE
    /\ wizard' = "knowledge"
    /\ UNCHANGED <<accountJson, stateJson, up, script, written>> /\ HistoryUnchanged

\* The knowledge files come last; what becomes of them is in Preflight.
LaunchKnowledge ==
    /\ wizard = "knowledge"
    /\ wizard' = "none"
    /\ UNCHANGED <<accountJson, stateJson, up, script, registered, written>> /\ HistoryUnchanged

Change == changes < MaxChanges /\ changes' = changes + 1

BreaksOff ==
    /\ script # "none" \/ wizard # "none"
    /\ Change
    /\ script' = "none" /\ wizard' = "none"
    /\ UNCHANGED <<accountJson, stateJson, up, registered, written, named, finished>>

-----------------------------------------------------------------------------
(* The program at work.  The script is run while no bot is.                 *)

Starts ==
    /\ AtRest
    /\ up' = TRUE
    /\ UNCHANGED <<accountJson, stateJson, script, wizard, registered, written>> /\ HistoryUnchanged

Stop ==
    /\ up
    /\ up' = FALSE
    /\ UNCHANGED <<accountJson, stateJson, script, wizard, registered, written>> /\ HistoryUnchanged

\* withStateLock makes the file {} when there is none, to have one to lock.
Found == IF stateJson = Absent THEN Object(AllMissing) ELSE stateJson
InField(f) == Loaded(Found).fields[f]

\* withState, or an unlocked load and write (which a file must be there for):
\* what was loaded, changed, is parsed and written.
Writes(f, v) ==
    /\ up /\ Loads(Found)
    /\ Change
    /\ stateJson' = Parsed(Object([Loaded(Found).fields EXCEPT ![f] = v]))
    /\ written' = TRUE
    /\ UNCHANGED <<accountJson, up, script, wizard, registered>>

Opens(f, k) ==
    LET e == Entry(k, Default[f], "") IN
    /\ f # "plain"
    /\ k \notin Names(f, InField(f))
    /\ Writes(f, IF InField(f).shape = "map"
                THEN Map([j \in DOMAIN InField(f).items \cup {k} |->
                             IF j = k THEN e ELSE InField(f).items[j]])
                ELSE List(Append(InField(f).items, e)))
    /\ named' = named \cup {<<f, k>>}
    /\ UNCHANGED finished

Ends == [posting |-> "published", queue |-> "published", inbound |-> "posted",
         target |-> "operator_escalated", wizard |-> "completed"]

\* An entry comes to its end; a tracked tweet is given up.
Finishes(f, i) ==
    LET done == [InField(f).items[i] EXCEPT
                    !.status = Ends[f],
                    !.phase = IF f = "target" THEN "operator_escalated" ELSE @] IN
    /\ UpForWork(f, InField(f).items[i])
    /\ Writes(f, [InField(f) EXCEPT !.items[i] = done])
    /\ named' = named
    /\ finished' = IF Cardinality({j \in DOMAIN InField(f).items :
                                     NameIn(f, InField(f), j) = NameIn(f, InField(f), i)}) = 1
                   THEN finished \cup {<<f, NameIn(f, InField(f), i)>>} ELSE finished

\* handlers/automation.ts.
SetLevel ==
    /\ up /\ AccountLoads(accountJson)
    /\ accountJson' = ParsedAccount([AccountLoaded(accountJson) EXCEPT !.level = "right"])
    /\ accountJson' # accountJson
    /\ UNCHANGED <<stateJson, up, script, wizard, registered, written>> /\ HistoryUnchanged

FilesNext ==
    \/ ScriptAccount \/ ScriptState
    \/ LaunchAccount \/ LaunchState \/ Register \/ LaunchKnowledge
    \/ BreaksOff \/ Starts \/ Stop \/ SetLevel
    \/ \E f \in Fields, k \in Ids : up /\ Loads(Found) /\ Opens(f, k)
    \/ \E f \in DOMAIN Ends :
          up /\ Loads(Found) /\ \E i \in DOMAIN InField(f).items : Finishes(f, i)

FilesSpec == FilesInit /\ [][FilesNext]_filesVars

-----------------------------------------------------------------------------
(* Properties.                                                              *)

FilesTypeOK ==
    /\ accountJson.kind \in {"absent", "garbage", "other", "object"}
    /\ stateJson.kind \in {"absent", "garbage", "other", "object"}
    /\ script \in {"none", "state"}
    /\ wizard \in {"none", "state", "registry", "knowledge"}
    /\ finished \subseteq named

\* What a reader is given can be written, and it or any later reader of it is
\* given the same: no session changes by being loaded again, and a file this
\* program wrote means the same to the readers that do not migrate, its
\* statuses of given-up tweets aside (migrateState, readState).
Settled ==
    /\ Loads(stateJson) =>
         LET x == Loaded(stateJson) IN Accepts(x) /\ Parsed(x) = x /\ Migrated(x) = x
    /\ written => Accepts(stateJson) /\ Parsed(stateJson) = stateJson
    /\ AccountLoads(accountJson) =>
         LET x == AccountLoaded(accountJson) IN AcceptsAccount(x) /\ AccountLoaded(x) = x

\* An account in the registry has both files, in the form of this program,
\* wherever a launch or a migration broke off (launchAccount).
RegisteredHasFiles == registered => AcceptsAccount(accountJson) /\ Accepts(stateJson)

\* The three of them together.
FilesInv == FilesTypeOK /\ Settled /\ RegisteredHasFiles

\* No entry with a name is ever lost to a reader, and none that was done with
\* is up for work again, whichever shape and vocabulary of the Python program
\* it is kept in: a tweet would be posted or shown a second time.
FinishedStays ==
    Loads(stateJson) =>
        /\ \A n \in named : n[2] \in Names(n[1], InField(n[1]))
        /\ \A n \in finished :
              \A e \in NamedItems(n[1], InField(n[1]), n[2]) : ~UpForWork(n[1], e)
=============================================================================
