--------------------------- MODULE LifecycleProofs ---------------------------
(***************************************************************************)
(* Four facts of the process's life, for any number of migrations,          *)
(* statements, environments, starts, consumers and requests: migrations     *)
(* take effect exactly once and in order, what was seeded of the shifts     *)
(* file stands, a process that serves is within the limits of both its      *)
(* checks, and no HTTP request in flight has the database closed under it.  *)
(***************************************************************************)
EXTENDS Lifecycle, SequenceTheorems, TLAPS

\* What Migrator.Run knows: while it runs, the recorded migrations are those
\* getApplied returned and those before the one it looks at.
MigratorKnows ==
    /\ recorded \subseteq Migrations
    /\ executed = [m \in Migrations |-> IF m \in recorded THEN NumStmts ELSE 0]
    /\ \A m \in recorded : 1..m \subseteq recorded
    /\ phase \notin {"down", "migrating"} => recorded = Migrations
    /\ phase = "migrating" =>
         /\ next \in 1..(NumMigrations + 1)
         /\ 1..(next - 1) \subseteq recorded
         /\ recorded \subseteq applied \cup 1..(next - 1)
         /\ applied \subseteq recorded

LEMMA MigratorInit == Init => MigratorKnows
  BY StartupAssumption DEF Init, StartupInit, MigratorKnows, Migrations

\* A step that neither migrates nor touches the tables.
LEMMA MigratorIdle ==
    ASSUME MigratorKnows, UNCHANGED <<executed, recorded>>,
           \/ phase' = "down"
           \/ UNCHANGED <<phase, next, applied>>
           \/ phase \notin {"down", "migrating"} /\ phase' # "migrating"
    PROVE  MigratorKnows'
  BY DEF MigratorKnows

LEMMA MigratorStep == MigratorKnows /\ [Next]_vars => MigratorKnows'
<1> SUFFICES ASSUME MigratorKnows, [Next]_vars PROVE MigratorKnows'
  OBVIOUS
<1>1. ASSUME NEW env \in Environments, Start(env) PROVE MigratorKnows'
  <2>1. /\ phase' \in {"down", "migrating"} /\ applied' = recorded /\ next' = 1
        /\ UNCHANGED <<executed, recorded>>
    BY <1>1 DEF Start, GetApplied, durable
  <2> QED
    BY <2>1, StartupAssumption DEF MigratorKnows, Migrations
<1>2. CASE SkipApplied
  <2>1. /\ phase = "migrating" /\ next \in applied /\ next' = next + 1
        /\ UNCHANGED <<phase, applied, executed, recorded>>
    BY <1>2 DEF SkipApplied, durable
  <2>2. next \in Migrations /\ next \in recorded /\ next \in Nat
    BY <2>1, StartupAssumption DEF MigratorKnows, Migrations
  <2>3. 1..(next' - 1) = 1..(next - 1) \cup {next}
    BY <2>1, <2>2, StartupAssumption DEF Migrations
  <2>4. next' \in 1..(NumMigrations + 1)
    BY <2>1, <2>2, StartupAssumption DEF Migrations
  <2> QED
    BY <2>1, <2>2, <2>3, <2>4 DEF MigratorKnows
<1>3. CASE ExecStmt
  BY <1>3, MigratorIdle DEF ExecStmt, durable
<1>4. CASE CommitMigration
  <2>1. /\ phase = "migrating" /\ next \in Migrations \ applied /\ staged = NumStmts
        /\ executed' = [executed EXCEPT ![next] = @ + staged]
        /\ recorded' = recorded \cup {next} /\ next' = next + 1
        /\ UNCHANGED <<phase, applied>>
    BY <1>4 DEF CommitMigration, Pending
  <2>2. next \in 1..NumMigrations /\ next \in Nat
    BY <2>1, StartupAssumption DEF Migrations
  <2>3. next \notin recorded
    BY <2>1, <2>2 DEF MigratorKnows
  <2>4. 1..(next' - 1) = 1..(next - 1) \cup {next} /\ 1..next = 1..(next - 1) \cup {next}
    BY <2>1, <2>2
  <2>5. next' \in 1..(NumMigrations + 1)
    BY <2>1, <2>2, StartupAssumption
  <2>6. executed' = [m \in Migrations |-> IF m \in recorded' THEN NumStmts ELSE 0]
    <3>1. executed = [m \in Migrations |-> IF m \in recorded THEN NumStmts ELSE 0]
      BY DEF MigratorKnows
    <3>2. executed[next] + staged = NumStmts
      BY <2>1, <2>3, <3>1, StartupAssumption
    <3>3. executed' = [executed EXCEPT ![next] = NumStmts]
      BY <2>1, <3>2
    <3> QED
      BY <2>1, <3>1, <3>3
  <2>7. recorded' \subseteq Migrations /\ \A m \in recorded' : 1..m \subseteq recorded'
    BY <2>1, <2>4 DEF MigratorKnows
  <2>8. /\ 1..(next' - 1) \subseteq recorded'
        /\ recorded' \subseteq applied' \cup 1..(next' - 1) /\ applied' \subseteq recorded'
    BY <2>1, <2>4 DEF MigratorKnows
  <2> QED
    BY <2>1, <2>5, <2>6, <2>7, <2>8 DEF MigratorKnows
<1>5. CASE MigrationsDone
  <2>1. /\ phase = "migrating" /\ next > NumMigrations /\ phase' # "migrating"
        /\ UNCHANGED <<executed, recorded>>
    BY <1>5 DEF MigrationsDone, durable
  <2>2. next = NumMigrations + 1
    BY <2>1, StartupAssumption DEF MigratorKnows
  <2>3. 1..(next - 1) = Migrations
    BY <2>2, StartupAssumption DEF Migrations
  <2>4. recorded = Migrations
    BY <2>1, <2>3 DEF MigratorKnows
  <2> QED
    BY <2>1, <2>4 DEF MigratorKnows
<1>6. CASE SeedNext \/ SeedDone \/ SeedFails \/ Wire
  BY <1>6, MigratorIdle DEF SeedNext, SeedDone, SeedFails, Wire, durable
<1>7. ASSUME NEW c \in Callers, Begin(c) \/ Step(c) \/ EndsEarly(c) \/ Returns(c)
      PROVE  MigratorKnows'
  BY <1>7, MigratorIdle DEF Begin, Step, EndsEarly, Returns, startup, durable
<1>8. CASE Signal \/ HTTPDrained \/ CloseComponents
  BY <1>8, MigratorIdle DEF Signal, HTTPDrained, CloseComponents, ToPhase, durable
<1>9. CASE Exit \/ Crash
  BY <1>9, MigratorIdle DEF Exit, Crash, GoDown, durable
<1>10. CASE UNCHANGED vars
  BY <1>10, MigratorIdle DEF vars, startup, durable
<1> QED
  BY <1>1, <1>2, <1>3, <1>4, <1>5, <1>6, <1>7, <1>8, <1>9, <1>10 DEF Next, StartupStep

\* Whatever statement fails and whenever the process dies, a recorded migration
\* took effect exactly once, in order, and a process past InitDatabase has all.
THEOREM MigrationsExact == Spec => []MigratedExactlyOnce
<1>1. MigratorKnows => MigratedExactlyOnce
  BY DEF MigratorKnows, MigratedExactlyOnce
<1> QED
  BY <1>1, MigratorInit, MigratorStep, PTL DEF Spec

-----------------------------------------------------------------------------
\* Shutdown has waited for the requests, and none has begun since.
Drained == phase \in {"closing", "dbClosed"} => \A c \in Requests : call[c] = 0

LEMMA DrainedStep == Drained /\ [Next]_vars => Drained'
<1> SUFFICES ASSUME Drained, [Next]_vars PROVE Drained'
  OBVIOUS
<1>1. CASE StartupStep /\ UNCHANGED call
  <2>1. phase' \notin {"closing", "dbClosed"}
    BY <1>1 DEF StartupStep, Start, SkipApplied, ExecStmt, CommitMigration, Pending,
                MigrationsDone, SeedNext, SeedDone, SeedFails, Wire
  <2> QED
    BY <2>1 DEF Drained
<1>2. ASSUME NEW c \in Callers, Begin(c) PROVE Drained'
  <2>1. /\ UNCHANGED phase /\ call' = [call EXCEPT ![c] = 1]
        /\ c \in Requests => phase = "serving"
    BY <1>2 DEF Begin, startup
  <2> QED
    BY <2>1 DEF Drained
<1>3. ASSUME NEW c \in Callers, Step(c) PROVE Drained'
  <2>1. UNCHANGED phase /\ call[c] # 0 /\ call' = [call EXCEPT ![c] = @ + 1]
    BY <1>3 DEF Step, startup
  <2> QED
    BY <2>1 DEF Drained
<1>4. ASSUME NEW c \in Callers, EndsEarly(c) PROVE Drained'
  <2>1. UNCHANGED phase /\ call[c] # 0 /\ call' = [call EXCEPT ![c] = Len(Program(c))]
    BY <1>4 DEF EndsEarly, startup
  <2> QED
    BY <2>1 DEF Drained
<1>5. ASSUME NEW c \in Callers, Returns(c) PROVE Drained'
  <2>1. UNCHANGED phase /\ call' = [call EXCEPT ![c] = 0]
    BY <1>5 DEF Returns, startup
  <2> QED
    BY <2>1 DEF Drained
<1>6. CASE Signal
  BY <1>6 DEF Signal, ToPhase, Drained
<1>7. CASE HTTPDrained
  BY <1>7 DEF HTTPDrained, ToPhase, Drained
<1>8. CASE CloseComponents
  BY <1>8 DEF CloseComponents, ToPhase, Drained
<1>9. CASE Exit \/ Crash
  BY <1>9 DEF Exit, Crash, GoDown, Drained
<1>10. CASE UNCHANGED vars
  BY <1>10 DEF vars, startup, Drained
<1> QED
  BY <1>1, <1>2, <1>3, <1>4, <1>5, <1>6, <1>7, <1>8, <1>9, <1>10 DEF Next

\* main closes the database only after every HTTP request that was accepted has
\* been answered, however many there are and whatever they wait for.
THEOREM RequestsAnswered == Spec => []RequestsKeepDatabase
<1>1. Init => Drained
  BY DEF Init, StartupInit, Drained
<1>2. Drained => RequestsKeepDatabase
  BY DEF Drained, RequestsKeepDatabase
<1> QED
  BY <1>1, <1>2, DrainedStep, PTL DEF Spec

-----------------------------------------------------------------------------
\* What a start has seeded so far stands, and nothing is seeded before the
\* migrations are done.
Seeding ==
    /\ SeedWins
    /\ phase = "migrating" => seeded = 0
    /\ phase \in {"seeding", "wiring"} => seeded \in Nat

\* A step that neither seeds nor touches the shifts table.
LEMMA SeedingIdle ==
    ASSUME Seeding, UNCHANGED <<shifts, config>>,
           \/ phase' \notin {"migrating", "seeding", "wiring"}
           \/ UNCHANGED seeded /\ phase = "migrating"
           \/ UNCHANGED <<seeded, phase>>
           \/ UNCHANGED seeded /\ phase = "seeding" /\ phase' = "wiring"
    PROVE  Seeding'
  BY DEF Seeding, SeedWins, File

\* Upsert replaces the rows of its key, so the entries seeded before it and not
\* superseded keep theirs.
LEMMA SeedNextStep == Seeding /\ SeedNext => Seeding'
<1> SUFFICES ASSUME Seeding, SeedNext PROVE Seeding'
  OBVIOUS
<1> DEFINE n == seeded + 1
           e == File[n]
           new == Row(lastID + 1, e)
<1>1. /\ phase = "seeding" /\ phase' = "seeding" /\ seeded' = n /\ UNCHANGED config
      /\ shifts' = {r \in shifts : r.entry.key # e.key} \cup {new}
  BY DEF SeedNext, Upsert
<1>2. seeded \in Nat /\ n \in Nat /\ new.entry = e /\ File' = File
  BY <1>1 DEF Seeding, Row, File
<1>3. \A r, q \in shifts' : r.entry.key = q.entry.key => r = q
  BY <1>1, <1>2 DEF Seeding, SeedWins
<1>4. ASSUME NEW i \in 1..n, \A j \in (i + 1)..n : File[j].key # File[i].key
      PROVE  \E r \in shifts' : r.entry = File[i]
  <2>1. CASE i = n
    BY <1>1, <1>2, <2>1
  <2>2. CASE i # n
    <3>1. i \in 1..seeded /\ n \in (i + 1)..n /\ (i + 1)..seeded \subseteq (i + 1)..n
      BY <1>2, <2>2
    <3>2. PICK r \in shifts : r.entry = File[i]
      BY <1>1, <1>4, <3>1 DEF Seeding, SeedWins
    <3>3. r.entry.key # e.key
      BY <1>4, <3>1, <3>2
    <3> QED
      BY <1>1, <3>2, <3>3
  <2> QED
    BY <2>1, <2>2
<1> QED
  BY <1>1, <1>2, <1>3, <1>4 DEF Seeding, SeedWins

LEMMA SeedingStep == Seeding /\ [Next]_vars => Seeding'
<1> SUFFICES ASSUME Seeding, [Next]_vars PROVE Seeding'
  OBVIOUS
<1>1. ASSUME NEW env \in Environments, Start(env) PROVE Seeding'
  <2>1. phase' \in {"down", "migrating"} /\ seeded' = 0 /\ UNCHANGED shifts
    BY <1>1 DEF Start, GetApplied, durable
  <2> QED
    BY <2>1 DEF Seeding, SeedWins
<1>2. CASE SkipApplied \/ ExecStmt \/ CommitMigration \/ MigrationsDone
  BY <1>2, SeedingIdle DEF SkipApplied, ExecStmt, CommitMigration, MigrationsDone, durable
<1>3. CASE SeedNext
  BY <1>3, SeedNextStep
<1>4. CASE SeedDone \/ SeedFails \/ Wire
  BY <1>4, SeedingIdle DEF SeedDone, SeedFails, Wire, durable
<1>5. ASSUME NEW c \in Callers, Begin(c) \/ Step(c) \/ EndsEarly(c) \/ Returns(c)
      PROVE  Seeding'
  BY <1>5, SeedingIdle DEF Begin, Step, EndsEarly, Returns, startup, durable
<1>6. CASE Signal \/ HTTPDrained \/ CloseComponents
  BY <1>6, SeedingIdle DEF Signal, HTTPDrained, CloseComponents, ToPhase, durable
<1>7. CASE Exit \/ Crash
  BY <1>7 DEF Exit, Crash, GoDown, durable, Seeding, SeedWins
<1>8. CASE UNCHANGED vars
  BY <1>8, SeedingIdle DEF vars, startup, durable
<1> QED
  BY <1>1, <1>2, <1>3, <1>4, <1>5, <1>6, <1>7, <1>8 DEF Next, StartupStep

\* However often a file repeats a key, whatever earlier starts seeded and wherever
\* they died, the shifts table holds one row per key, and of the current file's
\* entries seeded so far the last one of each key.
THEOREM SeedStands == Spec => []SeedWins
<1>1. Init => Seeding
  BY DEF Init, StartupInit, Seeding, SeedWins
<1>2. Seeding => SeedWins
  BY DEF Seeding
<1> QED
  BY <1>1, <1>2, SeedingStep, PTL DEF Spec

-----------------------------------------------------------------------------
\* What main has checked of its Config by the phase it has reached.
Checked ==
    /\ phase # "down" =>
         /\ config.topics \in Seq(STRING) /\ config.maxClients \in Int
         /\ config.queueBuffer \in Int /\ Valid(config)
    /\ phase \notin {"down", "migrating"} => config.queueBuffer >= 0
    /\ phase = "serving" => RegistryAccepts(config.topics)

LEMMA CheckedStep == Checked /\ [Next]_vars => Checked'
<1> SUFFICES ASSUME Checked, [Next]_vars PROVE Checked'
  OBVIOUS
\* A step on which nothing new is relied upon.
<1>i. ASSUME UNCHANGED config, phase # "down",
             phase' \in {phase, "draining", "closing", "dbClosed", "wiring"},
             phase' = "migrating" \/ phase # "migrating"
      PROVE  Checked'
  BY <1>i DEF Checked
<1>d. ASSUME phase' = "down" PROVE Checked'
  BY <1>d DEF Checked
<1>1. ASSUME NEW env \in Environments, Start(env) PROVE Checked'
  <2>1. config' = LoadConfig(env) /\ phase' \in {"down", "migrating"}
    BY <1>1 DEF Start
  <2>2. phase' = "migrating" => Valid(LoadConfig(env))
    BY <1>1 DEF Start
  <2>3. phase' = "migrating" => Valid(config)'
    BY <2>1, <2>2 DEF Valid, containsTopic
  <2> QED
    BY <2>1, <2>3, EnvironmentAssumption DEF Checked
<1>2. CASE SkipApplied \/ ExecStmt \/ CommitMigration
  BY <1>2, <1>i DEF SkipApplied, ExecStmt, CommitMigration, Pending
<1>3. CASE MigrationsDone
  BY <1>3 DEF MigrationsDone, Checked
<1>4. CASE SeedNext \/ SeedDone \/ SeedFails
  BY <1>4, <1>i DEF SeedNext, SeedDone, SeedFails
<1>5. CASE Wire
  BY <1>5 DEF Wire, Checked
<1>6. ASSUME NEW c \in Callers, Begin(c) \/ Step(c) \/ EndsEarly(c) \/ Returns(c)
      PROVE  Checked'
  BY <1>6, <1>i, <1>d DEF Begin, Step, EndsEarly, Returns, startup, Alive, ShuttingDown
<1>7. CASE Signal \/ HTTPDrained \/ CloseComponents
  BY <1>7, <1>i DEF Signal, HTTPDrained, CloseComponents, ToPhase
<1>8. CASE Exit \/ Crash
  BY <1>8, <1>d DEF Exit, Crash, GoDown
<1>9. CASE UNCHANGED vars
  BY <1>9 DEF vars, startup, Checked
<1> QED
  BY <1>1, <1>2, <1>3, <1>4, <1>5, <1>6, <1>7, <1>8, <1>9 DEF Next, StartupStep

\* Of all the environments a start may find, those that get as far as serving
\* are within the limits of validate, of make(chan) and of NewTopicRegistry.
THEOREM ServingIsWithinLimits == Spec => []ServesWithinLimits
<1>1. Init => Checked
  BY DEF Init, StartupInit, Checked
<1>2. Checked => ServesWithinLimits
  <2> SUFFICES ASSUME Checked, phase = "serving"
               PROVE  /\ Len(config.topics) \in 1..5 /\ config.maxClients \in 1..5
                      /\ config.queueBuffer >= 0
                      /\ config.oee =>
                           config.stateTopic \in {config.topics[i] : i \in DOMAIN config.topics}
    BY DEF ServesWithinLimits
  <2>1. /\ config.topics \in Seq(STRING) /\ config.maxClients \in Int /\ Valid(config)
        /\ config.queueBuffer >= 0 /\ RegistryAccepts(config.topics)
    BY DEF Checked
  <2>2. Len(config.topics) \in Nat /\ Len(config.topics) > 0 /\ Len(config.topics) <= 5
    BY <2>1, LenProperties DEF RegistryAccepts
  <2>3. config.maxClients \in Int /\ config.maxClients >= 1 /\ config.maxClients <= 5
    BY <2>1 DEF Valid
  <2>4. config.oee => containsTopic(config.topics, config.stateTopic)
    BY <2>1 DEF Valid
  <2>5. \A n \in Int : (n >= 1 \/ n > 0) /\ n <= 5 => n \in 1..5
    OBVIOUS
  <2>6. Len(config.topics) \in 1..5
    <3> DEFINE n == Len(config.topics)
    <3>1. n \in Int /\ n > 0 /\ n <= 5
      BY <2>2
    <3> HIDE DEF n
    <3>2. n \in 1..5
      BY <3>1, <2>5
    <3> QED
      BY <3>2 DEF n
  <2>7. config.maxClients \in 1..5
    BY <2>3, <2>5
  <2>8. config.oee => config.stateTopic \in {config.topics[i] : i \in DOMAIN config.topics}
    BY <2>4 DEF containsTopic
  <2> QED
    BY <2>1, <2>6, <2>7, <2>8
<1> QED
  BY <1>1, <1>2, CheckedStep, PTL DEF Spec
=============================================================================
