-------------------------------- MODULE Startup --------------------------------
(***************************************************************************)
(* What main does before it serves: config.Load reads and validates the     *)
(* environment, InitDatabase runs the migrations (migrator.go), each in a   *)
(* transaction that also records its name in schema_migrations, and         *)
(* InitModules seeds the shifts file, each shift in a transaction of its    *)
(* own (ShiftRepository.Upsert), and builds the topic registry, which has   *)
(* limits of its own.  Any statement may fail, the process may die at any   *)
(* point, and it is started again, possibly with another environment.       *)
(*                                                                         *)
(* A transaction is its staged effects: lost on failure or crash, durable   *)
(* at commit.  A shift is its key (machine_id, name) and its contents.  A   *)
(* variable of the environment that is unset, blank or does not parse is    *)
(* << >>, any other is <<value>>; a topic list is split and trimmed.        *)
(***************************************************************************)
EXTENDS Integers, Sequences

CONSTANTS
    NumMigrations,  \* migration files, numbered in name order
    NumStmts,       \* SQL statements in each of them
    Environments,   \* the BROKER_* variables a start may find, and the shifts file
    MaxStarts       \* bound: process starts

ASSUME StartupAssumption ==
    /\ NumMigrations \in Nat /\ NumStmts \in Nat \ {0} /\ MaxStarts \in Nat

VARIABLES
    phase,     \* down, migrating, seeding, wiring, serving or a step of the shutdown
    starts,    \* process starts so far
    config,    \* the Config of this start
    applied,   \* getApplied's result
    next,      \* the migration Run looks at
    staged,    \* statements executed in the open transaction
    executed,  \* durable: per migration, statements executed, over all runs
    recorded,  \* durable: schema_migrations
    seeded,    \* entries of the shifts file upserted so far
    shifts,    \* durable: the shifts table, rows of an id and an entry
    lastID     \* durable: the last id that AUTOINCREMENT has given out

durable == <<executed, recorded, shifts, lastID>>
startup == <<phase, starts, config, applied, next, staged, seeded, durable>>

Migrations == 1..NumMigrations

StartupInit ==
    /\ phase = "down" /\ starts = 0 /\ config = << >>
    /\ applied = {} /\ next = 1 /\ staged = 0
    /\ executed = [m \in Migrations |-> 0] /\ recorded = {}
    /\ seeded = 0 /\ shifts = {} /\ lastID = 0

-----------------------------------------------------------------------------
(* config.Load and NewTopicRegistry                                         *)

\* envOrDefault, envIntOrDefault, envBoolOrDefault
OrDefault(raw, fallback) == IF raw = << >> THEN fallback ELSE raw[1]

parseTopics(parts) == SelectSeq(parts, LAMBDA t : t # "")

LoadConfig(env) ==
    [env EXCEPT !.topics = parseTopics(@),
                !.maxClients = OrDefault(@, 5),
                !.queueBuffer = OrDefault(@, 10000),
                !.oee = OrDefault(@, FALSE),
                !.stateTopic = OrDefault(@, "machine/state")]

\* Load's result has the types of Config.
ASSUME EnvironmentAssumption ==
    \A env \in Environments :
        /\ LoadConfig(env).topics \in Seq(STRING)
        /\ LoadConfig(env).maxClients \in Int /\ LoadConfig(env).queueBuffer \in Int

containsTopic(topics, target) == \E i \in DOMAIN topics : topics[i] = target

\* Faulty variant: the state topic is not looked for.
ValidAnyStateTopic(c) ==
    /\ Len(c.topics) > 0
    /\ c.maxClients >= 1 /\ c.maxClients <= 5
    /\ c.username # "" /\ c.password # ""

\* Config.validate
Valid(c) ==
    /\ Len(c.topics) > 0
    /\ c.maxClients >= 1 /\ c.maxClients <= 5
    /\ c.username # "" /\ c.password # ""
    /\ c.oee => containsTopic(c.topics, c.stateTopic)

\* NewTopicRegistry
RegistryAccepts(topics) ==
    /\ Len(topics) > 0 /\ Len(topics) <= 5
    /\ \A i \in DOMAIN topics : topics[i] # ""

-----------------------------------------------------------------------------
(* main up to InitDatabase, and Migrator.Run                                *)

\* Faulty variant: schema_migrations is not read.
GetAppliedNone == applied' = {} /\ next' = 1 /\ staged' = 0

\* ensureTrackingTable and getApplied, before the loop of Run
GetApplied == applied' = recorded /\ next' = 1 /\ staged' = 0

\* Load, and exit when it fails; InitDatabase, as far as the first migration
Start(env) ==
    /\ phase = "down" /\ starts < MaxStarts
    /\ starts' = starts + 1
    /\ config' = LoadConfig(env)
    /\ phase' = IF Valid(LoadConfig(env)) THEN "migrating" ELSE "down"
    /\ GetApplied /\ seeded' = 0
    /\ UNCHANGED durable

SkipApplied ==
    /\ phase = "migrating" /\ next \in applied
    /\ next' = next + 1
    /\ UNCHANGED <<phase, starts, config, applied, staged, seeded, durable>>

Pending == phase = "migrating" /\ next \in Migrations \ applied

ExecStmt ==
    /\ Pending /\ staged < NumStmts
    /\ staged' = staged + 1
    /\ UNCHANGED <<phase, starts, config, applied, next, seeded, durable>>

\* INSERT INTO schema_migrations, then Commit
CommitMigration ==
    /\ Pending /\ staged = NumStmts
    /\ executed' = [executed EXCEPT ![next] = @ + staged]
    /\ recorded' = recorded \cup {next}
    /\ next' = next + 1 /\ staged' = 0
    /\ UNCHANGED <<phase, starts, config, applied, seeded, shifts, lastID>>

\* Run returns, its locals are gone; InitModules begins with make(chan), which
\* panics for a negative size.
MigrationsDone ==
    /\ phase = "migrating" /\ next > NumMigrations
    /\ phase' = IF config.queueBuffer >= 0 THEN "seeding" ELSE "down"
    /\ applied' = {} /\ next' = 1
    /\ UNCHANGED <<starts, config, staged, seeded, durable>>

-----------------------------------------------------------------------------
(* InitModules: UseCase.Seed, ShiftRepository.Upsert, the registry          *)

\* The shifts to seed: none without OEE, a path or a file that parses.
File == IF config.oee THEN config.shifts ELSE << >>

Row(id, e) == [id |-> id, entry |-> e]

\* Faulty variant: INSERT only if the key is absent.
InsertIfAbsent(e) ==
    IF \E r \in shifts : r.entry.key = e.key
      THEN UNCHANGED <<shifts, lastID>>
      ELSE shifts' = shifts \cup {Row(lastID + 1, e)} /\ lastID' = lastID + 1

\* DELETE the rows of the key, INSERT the new one, in one transaction.
Upsert(e) ==
    /\ shifts' = {r \in shifts : r.entry.key # e.key} \cup {Row(lastID + 1, e)}
    /\ lastID' = lastID + 1

SeedNext ==
    /\ phase = "seeding" /\ seeded < Len(File)
    /\ Upsert(File[seeded + 1])
    /\ seeded' = seeded + 1
    /\ UNCHANGED <<phase, starts, config, applied, next, staged, executed, recorded>>

SeedDone ==
    /\ phase = "seeding" /\ seeded = Len(File)
    /\ phase' = "wiring"
    /\ UNCHANGED <<starts, config, applied, next, staged, seeded, durable>>

\* An Upsert fails: Seed returns, "shift seeding skipped", and startup goes on.
SeedFails ==
    /\ phase = "seeding" /\ seeded < Len(File)
    /\ phase' = "wiring"
    /\ UNCHANGED <<starts, config, applied, next, staged, seeded, durable>>

\* The rest of InitModules: exit if the registry refuses the topics, else
\* StartServers.
Wire ==
    /\ phase = "wiring"
    /\ phase' = IF RegistryAccepts(config.topics) THEN "serving" ELSE "down"
    /\ seeded' = 0
    /\ UNCHANGED <<starts, config, applied, next, staged, durable>>

\* A migration fails and main exits, or the process dies.
GoDown ==
    /\ phase # "down"
    /\ phase' = "down"
    /\ config' = << >> /\ applied' = {} /\ next' = 1 /\ staged' = 0 /\ seeded' = 0
    /\ UNCHANGED <<starts, durable>>

StartupStep ==
    \/ \E env \in Environments : Start(env)
    \/ SkipApplied \/ ExecStmt \/ CommitMigration \/ MigrationsDone
    \/ SeedNext \/ SeedDone \/ SeedFails \/ Wire

-----------------------------------------------------------------------------
(* Properties                                                               *)

\* Whatever the failures and restarts, a migration's statements are in the
\* database exactly once if it is recorded and not at all if it is not, no
\* migration is recorded before an earlier one, and a process that got past
\* InitDatabase has all of them.
MigratedExactlyOnce ==
    /\ \A m \in Migrations : executed[m] = IF m \in recorded THEN NumStmts ELSE 0
    /\ \A m \in recorded : 1..m \subseteq recorded
    /\ phase \notin {"down", "migrating"} => recorded = Migrations

\* The shifts table never holds two rows of one key, though files repeat keys
\* and each start seeds again, and what was seeded of the current file stands:
\* for each key among its seeded entries the row is the last one of them.
SeedWins ==
    /\ \A r, q \in shifts : r.entry.key = q.entry.key => r = q
    /\ phase \in {"seeding", "wiring"} =>
         \A i \in 1..seeded :
            (\A j \in (i + 1)..seeded : File[j].key # File[i].key) =>
                \E r \in shifts : r.entry = File[i]

\* Two sets of limits are checked at two moments of the start (validate before
\* the database is touched, NewTopicRegistry after seeding) on defaults, unset
\* and unparsable values alike: a process that serves is within both, and its
\* state topic can be published to.
ServesWithinLimits ==
    phase = "serving" =>
        /\ Len(config.topics) \in 1..5 /\ config.maxClients \in 1..5
        /\ config.queueBuffer >= 0
        /\ config.oee => config.stateTopic \in {config.topics[i] : i \in DOMAIN config.topics}
=============================================================================
