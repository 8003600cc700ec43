-------------------------- MODULE DatabaseLifecycle --------------------------
(***************************************************************************)
(* The commands that set the databases up and keep them: migrations, seeds,*)
(* the MongoDB bootstrap and the partition maintenance of PostgreSQL, run  *)
(* by several operators at the same time, each of which may die between    *)
(* two statements, while administrators use the system.  Time counts       *)
(* weeks; a month is MonthWeeks of them.  A partition is named by its      *)
(* table and its first week.  Rolling migrations back is left out, and of  *)
(* the audit entries of the seeds nothing is kept.                         *)
(***************************************************************************)
EXTENDS Integers, FiniteSets, Sequences

CONSTANTS
  Operator,       \* who runs commands
  MonthWeeks,     \* weeks of a month
  MonthsAhead,    \* futureMonthlyPartitions
  WeeksAhead,     \* futureWeeklyPartitions
  MonthsKept,     \* auditLogsRetentionMonths, incidentEventsRetentionMonths
  WeeksKept,      \* queueMetricsRetentionDays
  Destructive,    \* allowDestructiveRetention
  Expected,       \* collection -> its indexes, MONGO_COLLECTION_DEFINITIONS
  MonthsMigrated, \* months ahead that the migration creates, 3
  WeeksMigrated,  \* weeks ahead that it creates, 8
  Server,         \* the Redis server, [version, policy, appendonly, answers]
  DemoWeek,       \* the week of the development fixtures, BASE_TIME
  FirstWeek,      \* when the first command may run
  LastWeek,       \* bound on the clock
  MaxRuns         \* bound on the commands run

ASSUME DatabaseAssumption ==
  /\ MonthWeeks \in Nat \ {0}
  /\ {MonthsAhead, WeeksAhead, MonthsKept, WeeksKept, MonthsMigrated, WeeksMigrated,
      DemoWeek, FirstWeek, LastWeek, MaxRuns} \subseteq Nat
  /\ Server.answers \in BOOLEAN

VARIABLES
  today,       \* the week
  pg,          \* migrations applied, knex's lock, the concurrent index, the rows
  partitions,  \* partitions attached, [table, from]
  until,       \* table -> end of the windows a finished run has created
  mongo,       \* collections with their indexes, development documents
  cmd,         \* what each operator runs
  facts,       \* how commands have ended
  left         \* commands still to be run

databaseVars == <<today, pg, partitions, until, mongo, cmd, facts, left>>

Idle == [kind |-> "idle"]
Absent == "absent"
Collections == DOMAIN Expected

\* The rows of g, except where f has a row.
Over(f, g) == [k \in DOMAIN f \cup DOMAIN g |-> IF k \in DOMAIN f THEN f[k] ELSE g[k]]

Goes(o, c) == cmd' = [cmd EXCEPT ![o] = c]
\* The ends that the properties speak of.
Recorded == {"migrated", "seeded", "demo", "bootstrapped", "incomplete", "no partition"}
Ends(o, fact) == Goes(o, Idle) /\ facts' = facts \cup ({fact} \cap Recorded)
Starts(o, c) == cmd[o] = Idle /\ left > 0 /\ left' = left - 1 /\ Goes(o, c)

-----------------------------------------------------------------------------
(* Partitions.                                                             *)

\* audit_logs and incident_events are monthly, queue_metrics is weekly.
Tables == {"audit_logs", "queue_metrics"}
Length(t) == IF t = "audit_logs" THEN MonthWeeks ELSE 1
StartOf(t, week) == week - (week % Length(t))
EndOf(p) == p.from + Length(p.table)

Windows(t, week, first, last) ==
  {[table |-> t, from |-> StartOf(t, week) + k * Length(t)] : k \in first..last}
HasPartition(t, week) == [table |-> t, from |-> StartOf(t, week)] \in partitions

\* Tables and their partitions are taken in the order of their names.
First(p, ps) ==
  \A q \in ps : IF p.table = q.table THEN p.from <= q.from ELSE p.table = "audit_logs"

Ahead(t) == IF t = "audit_logs" THEN MonthsAhead ELSE WeeksAhead

\* Mutant: the current period is taken for granted.
FutureWindows(t, week) == Windows(t, week, 1, Ahead(t))
BuildFuturePartitionWindows(t, week) == Windows(t, week, 0, Ahead(t))

Cutoff(t, week) ==
  IF t = "audit_logs" THEN StartOf(t, week) - MonthsKept * MonthWeeks ELSE week - WeeksKept
EligibleForDrop(p, cutoff) == EndOf(p) < cutoff

Maintenance(parts) ==
  [kind |-> "maintain", do |-> parts, tables |-> Tables, table |-> "none", todo |-> {}, end |-> 0]

\* runPostgresMaintenance: a run is "partitions", "retention" or both.
StartMaintenance(o) ==
  /\ \E m \in SUBSET {"partitions", "retention"} \ {{}} :
       Starts(o, Maintenance(m))
  /\ UNCHANGED <<today, pg, partitions, until, mongo, facts>>

Maintains(o, part) == cmd[o].kind = "maintain" /\ part \in cmd[o].do

\* assertPartitionedParentExists: the migration of the partitions is not applied.
NoParent == pg.applied < 2

\* ensureFuturePartitions for one parent table: the parent has to exist, what
\* is missing is found with one query.
PlanPartitions(o) ==
  /\ Maintains(o, "partitions") /\ cmd[o].todo = {} /\ cmd[o].end = 0
  /\ IF NoParent
     THEN Ends(o, "no parent") /\ UNCHANGED until
     ELSE /\ LET t == IF "audit_logs" \in cmd[o].tables THEN "audit_logs" ELSE "queue_metrics"
                 w == BuildFuturePartitionWindows(t, today)
             IN Goes(o, [kind |-> "maintain", do |-> cmd[o].do, tables |-> cmd[o].tables \ {t},
                         table |-> t, todo |-> w \ partitions,
                         end |-> StartOf(t, today) + (Ahead(t) + 1) * Length(t)])
          /\ UNCHANGED <<until, facts>>
  /\ UNCHANGED <<today, pg, partitions, mongo, left>>

CreatePartition(o) ==
  /\ Maintains(o, "partitions")
  /\ \E p \in cmd[o].todo :
       /\ First(p, cmd[o].todo)
       /\ partitions' = partitions \cup {p}
       /\ Goes(o, [cmd[o] EXCEPT !.todo = @ \ {p}])
  /\ UNCHANGED <<today, pg, until, mongo, facts, left>>

Later(a, b) == IF a > b THEN a ELSE b

TableDone(o) ==
  /\ Maintains(o, "partitions") /\ cmd[o].todo = {} /\ cmd[o].end > 0
  /\ until' = [until EXCEPT ![cmd[o].table] = Later(@, cmd[o].end)]
  /\ IF cmd[o].tables # {}
     THEN Goes(o, [Maintenance(cmd[o].do) EXCEPT !.tables = cmd[o].tables])
     ELSE Goes(o, Maintenance(cmd[o].do \ {"partitions"}))
  /\ UNCHANGED <<today, pg, partitions, mongo, facts, left>>

\* runRetentionMaintenance: the cut-off dates are those of the start, the
\* partitions of a table are read once and dropped one by one.
PlanRetention(o) ==
  /\ cmd[o].kind = "maintain" /\ cmd[o].do = {"retention"}
  /\ Goes(o, [kind |-> "retain",
              todo |-> {p \in partitions : Destructive /\ EligibleForDrop(p, Cutoff(p.table, today))}])
  /\ UNCHANGED <<today, pg, partitions, until, mongo, facts, left>>

DropPartition(o) ==
  /\ cmd[o].kind = "retain"
  /\ \E p \in cmd[o].todo :
       /\ First(p, cmd[o].todo)
       /\ partitions' = partitions \ {p}
       /\ Goes(o, [cmd[o] EXCEPT !.todo = @ \ {p}])
  /\ UNCHANGED <<today, pg, until, mongo, facts, left>>

MaintenanceDone(o) ==
  /\ \/ cmd[o].kind = "maintain" /\ cmd[o].do = {}
     \/ cmd[o].kind = "retain" /\ cmd[o].todo = {}
  /\ Ends(o, "maintained")
  /\ UNCHANGED <<today, pg, partitions, until, mongo, left>>

-----------------------------------------------------------------------------
(* Migrations, in the order of their files.  Each is a transaction of its  *)
(* own, except those that build an index concurrently.                     *)

Migrations == <<"foundation", "partitions", "tables", "integrity", "indexes">>
Migrated == Len(Migrations)

\* knex takes its lock row; the lock of a process that died stays.
StartMigrate(o) ==
  /\ IF pg.locked
     THEN /\ cmd[o] = Idle /\ left > 0 /\ left' = left - 1
          /\ UNCHANGED <<cmd, pg>>
     ELSE /\ Starts(o, [kind |-> "migrate", building |-> FALSE])
          /\ pg' = [pg EXCEPT !.locked = TRUE]
  /\ UNCHANGED <<today, partitions, until, mongo, facts>>

Pending(o) == cmd[o].kind = "migrate" /\ pg.applied < Migrated
NextMigration == Migrations[pg.applied + 1]

\* One month and one week back, and what is created ahead.
BootstrapWindows ==
  Windows("audit_logs", today, -1, MonthsMigrated) \cup Windows("queue_metrics", today, -1, WeeksMigrated)
BootstrapEnd ==
  [t \in Tables |->
    StartOf(t, today) + Length(t) * (1 + IF t = "audit_logs" THEN MonthsMigrated ELSE WeeksMigrated)]

Migrate(o) ==
  /\ Pending(o) /\ NextMigration \notin {"indexes", "partitions"}
  /\ pg' = [pg EXCEPT !.applied = @ + 1]
  /\ UNCHANGED <<today, partitions, until, mongo, cmd, facts, left>>

MigratePartitions(o) ==
  /\ Pending(o) /\ NextMigration = "partitions"
  /\ pg' = [pg EXCEPT !.applied = @ + 1]
  /\ partitions' = partitions \cup BootstrapWindows
  /\ until' = BootstrapEnd
  /\ UNCHANGED <<today, mongo, cmd, facts, left>>

\* CREATE INDEX CONCURRENTLY IF NOT EXISTS: an index that exists, valid or
\* not, is left alone.
MigrateIndexes(o) ==
  /\ Pending(o) /\ NextMigration = "indexes"
  /\ IF pg.index = Absent
     THEN pg' = [pg EXCEPT !.index = "invalid"] /\ Goes(o, [cmd[o] EXCEPT !.building = TRUE])
     ELSE IF cmd[o].building
     THEN pg' = [pg EXCEPT !.index = "valid", !.applied = @ + 1] /\ Goes(o, [cmd[o] EXCEPT !.building = FALSE])
     ELSE pg' = [pg EXCEPT !.applied = @ + 1] /\ UNCHANGED cmd
  /\ UNCHANGED <<today, partitions, until, mongo, facts, left>>

MigrateDone(o) ==
  /\ cmd[o].kind = "migrate" /\ pg.applied = Migrated
  /\ pg' = [pg EXCEPT !.locked = FALSE]
  /\ Ends(o, "migrated")
  /\ UNCHANGED <<today, partitions, until, mongo, left>>

-----------------------------------------------------------------------------
(* Seeds: one transaction under an advisory lock.  The rows a step inserts *)
(* are kept with the command until the commit.                             *)

CoreSteps == <<"initial-admin", "default-configuration", "builtin-rules">>
SeedSteps(profile) == IF profile = "development" THEN Append(CoreSteps, "development-demo") ELSE CoreSteps
InSeed(o) == cmd[o].kind = "seed" /\ cmd[o].step <= Len(SeedSteps(cmd[o].profile)) + 1

Seed(profile, step, own) == [kind |-> "seed", profile |-> profile, step |-> step, own |-> own]

\* pg_try_advisory_xact_lock: the second run is refused, as is one before the
\* tables exist.
StartSeed(o) ==
  /\ \E profile \in {"core", "development"} :
       IF (\E x \in Operator : InSeed(x)) \/ pg.applied < 3
       THEN /\ cmd[o] = Idle /\ left > 0 /\ left' = left - 1
            /\ UNCHANGED cmd
       ELSE Starts(o, Seed(profile, 1, <<>>))
  /\ UNCHANGED <<today, pg, partitions, until, mongo, facts>>

Config == {"k1", "k2"}
Demo == {"metrics", "links"}
Missing(keys, seen, value) == [k \in keys \ DOMAIN seen |-> value]
Insert(keys, seen, value) == [rows |-> Missing(keys, seen, value)]
Throw(reason) == [throws |-> reason]
Holds(seen, k, value) == k \in DOMAIN seen /\ seen[k] = value

\* seedInitialAdministrator: nothing when an active administrator exists.
SeedInitialAdministrator(seen) ==
  IF "admin" \in DOMAIN seen /\ seen["admin"] # "active" THEN Throw("name taken")
  ELSE Insert({"admin"}, seen, "active")
SeedDefaultConfiguration(seen) == Insert(Config, seen, "default")
SeedBuiltinRules(seen) ==
  IF Holds(seen, "rule", "custom") THEN Throw("custom rule") ELSE Insert({"rule"}, seen, "builtin")

\* seedDevelopmentDemoData: the fixtures of partitioned tables are dated.
SeedDevelopmentDemoData(seen) ==
  IF ~Holds(seen, "admin", "active") \/ "rule" \notin DOMAIN seen THEN Throw("no core seed")
  ELSE IF ~(Demo \subseteq DOMAIN seen) /\ ~(\A t \in Tables : HasPartition(t, DemoWeek))
  THEN Throw("no partition")
  ELSE Insert(Demo, seen, "demo")

Step(name, seen) ==
  CASE name = "initial-admin" -> SeedInitialAdministrator(seen)
    [] name = "default-configuration" -> SeedDefaultConfiguration(seen)
    [] name = "builtin-rules" -> SeedBuiltinRules(seen)
    [] name = "development-demo" -> SeedDevelopmentDemoData(seen)

\* The rows of a dropped partition are gone.
Visible(rows) ==
  [k \in {x \in DOMAIN rows : x \notin Demo \/ \A t \in Tables : HasPartition(t, DemoWeek)} |-> rows[k]]

RunStep(o) ==
  /\ cmd[o].kind = "seed" /\ cmd[o].step <= Len(SeedSteps(cmd[o].profile))
  /\ LET r == Step(SeedSteps(cmd[o].profile)[cmd[o].step], Over(cmd[o].own, Visible(pg.rows))) IN
       IF "throws" \in DOMAIN r THEN Ends(o, r.throws)
       ELSE Goes(o, Seed(cmd[o].profile, cmd[o].step + 1, Over(r.rows, cmd[o].own))) /\ UNCHANGED facts
  /\ UNCHANGED <<today, pg, partitions, until, mongo, left>>

\* Mutant: what the steps wrote replaces what is there.
OverwriteRows(own) == Over(own, Over(Missing({"k1", "k2"}, own, "default"), pg.rows))
CommittedRows(own) == Over(own, pg.rows)

CommitSeed(o) ==
  /\ cmd[o].kind = "seed" /\ cmd[o].step = Len(SeedSteps(cmd[o].profile)) + 1
  /\ pg' = [pg EXCEPT !.rows = CommittedRows(cmd[o].own)]
  /\ IF cmd[o].profile = "core" THEN Ends(o, "seeded")
     ELSE Goes(o, Seed(cmd[o].profile, cmd[o].step + 1, <<>>)) /\ facts' = facts \cup {"seeded", "demo"}
  /\ UNCHANGED <<today, partitions, until, mongo, left>>

\* seedDevelopmentMongoData: events, then the AI results that refer to them.
SeedMongo(o) ==
  /\ cmd[o].kind = "seed" /\ cmd[o].step > Len(SeedSteps(cmd[o].profile)) + 1
  /\ IF mongo.demo < 2
     THEN mongo' = [mongo EXCEPT !.demo = @ + 1] /\ UNCHANGED <<cmd, facts>>
     ELSE Ends(o, "demo complete") /\ UNCHANGED mongo
  /\ UNCHANGED <<today, pg, partitions, until, left>>

\* What administrators do to the same rows through the API, once: a bound.
Administered == \E k \in DOMAIN pg.rows : pg.rows[k] \in {"inactive", "changed", "custom"}
Reserved == UNION {IF InSeed(o) THEN DOMAIN cmd[o].own ELSE {} : o \in Operator}
Administer ==
  /\ pg.applied >= 3 /\ ~Administered
  /\ \E k \in {"admin", "k1", "rule"} \ Reserved :
       LET value == IF k = "admin" THEN "inactive" ELSE IF k = "k1" THEN "changed" ELSE "custom"
       IN /\ k = "rule" => k \notin DOMAIN pg.rows
          /\ k # "rule" => k \in DOMAIN pg.rows
          /\ pg' = [pg EXCEPT !.rows = Over([x \in {k} |-> value], @)]
  /\ UNCHANGED <<today, partitions, until, mongo, cmd, facts, left>>

-----------------------------------------------------------------------------
(* The MongoDB bootstrap.                                                  *)

StartBootstrap(o) ==
  /\ Starts(o, [kind |-> "bootstrap", stage |-> "next", todo |-> Collections])
  /\ UNCHANGED <<today, pg, partitions, until, mongo, facts>>

Exists(c) == c \in DOMAIN mongo.collections
Bootstraps(o, stage) == cmd[o].kind = "bootstrap" /\ cmd[o].stage = stage

ReadCollectionInfo(o) ==
  /\ Bootstraps(o, "next")
  /\ cmd[o].todo # {}
  /\ LET c == CHOOSE x \in cmd[o].todo : TRUE IN
       Goes(o, [kind |-> "bootstrap", stage |-> "collection", todo |-> cmd[o].todo \ {c},
                at |-> c, existed |-> Exists(c)])
  /\ UNCHANGED <<today, pg, partitions, until, mongo, facts, left>>

\* Mutant: a collection that exists has been set up before.
IndexesOfNew(c, existed) == IF existed THEN {} ELSE Expected[c]
\* The indexes of a collection that are still to be created.
IndexesToCreate(c, existed) == IF existed THEN Expected[c] \ mongo.collections[c] ELSE Expected[c]

EnsureCollection(o) ==
  /\ Bootstraps(o, "collection")
  /\ LET c == cmd[o].at IN
       IF ~cmd[o].existed /\ Exists(c) THEN Ends(o, "collection exists") /\ UNCHANGED mongo
       ELSE /\ mongo' = IF cmd[o].existed THEN mongo
                        ELSE [mongo EXCEPT !.collections = Over([x \in {c} |-> {}], @)]
            /\ Goes(o, [kind |-> "bootstrap", stage |-> "indexes", todo |-> cmd[o].todo,
                        at |-> c, create |-> IndexesToCreate(c, cmd[o].existed)])
            /\ UNCHANGED facts
  /\ UNCHANGED <<today, pg, partitions, until, left>>

EnsureIndexes(o) ==
  /\ Bootstraps(o, "indexes")
  /\ IF cmd[o].create = {}
     THEN Goes(o, [kind |-> "bootstrap", stage |-> "next", todo |-> cmd[o].todo]) /\ UNCHANGED mongo
     ELSE LET i == CHOOSE x \in cmd[o].create : TRUE
          IN /\ mongo' = [mongo EXCEPT !.collections[cmd[o].at] = @ \cup {i}]
             /\ Goes(o, [cmd[o] EXCEPT !.create = @ \ {i}])
  /\ UNCHANGED <<today, pg, partitions, until, facts, left>>

\* readMongoBootstrapStatus and the success of the run.
MongoComplete ==
  /\ DOMAIN mongo.collections = Collections
  /\ \A c \in Collections : Expected[c] \subseteq mongo.collections[c]

BootstrapDone(o) ==
  /\ Bootstraps(o, "next") /\ cmd[o].todo = {}
  /\ Ends(o, IF MongoComplete THEN "bootstrapped" ELSE "incomplete")
  /\ UNCHANGED <<today, pg, partitions, until, mongo, left>>

-----------------------------------------------------------------------------
(* Verification.                                                           *)

\* verifyIncidentIndexes looks an index up by its name, valid or not.
IndexesVerified == pg.index # Absent

\* verifyMigrationStatus, verifyTables and the other catalog checks.
SchemaVerified == pg.applied = Migrated /\ IndexesVerified
SeedsVerified ==
  /\ Holds(pg.rows, "admin", "active")
  /\ "rule" \in DOMAIN pg.rows /\ Config \subseteq DOMAIN pg.rows
VerifyPostgres == SchemaVerified /\ SeedsVerified

\* verifyMongoDb passes what the bootstrap command reads as its own status.
VerifyMongo == MongoComplete

\* checkServerVersion, checkProductionRuntimeConfig and the probes: only a
\* probe that is answered wrongly fails, a setting is a warning.
ServerVersion == IF Server.version >= 7 THEN "pass" ELSE "warn"
RuntimeConfig == IF Server.policy = "allkeys-lru" /\ Server.appendonly THEN "pass" ELSE "warn"
Probes == IF Server.answers THEN "pass" ELSE "fail"
VerifyRedis == "fail" \notin {ServerVersion, RuntimeConfig, Probes}

Verified == VerifyPostgres /\ VerifyMongo /\ VerifyRedis

-----------------------------------------------------------------------------
\* The process of a command dies; a transaction is rolled back.
Crash(o) == cmd[o] # Idle /\ Goes(o, Idle) /\ UNCHANGED <<today, pg, partitions, until, mongo, facts, left>>

WeekPasses == today < LastWeek /\ today' = today + 1 /\ UNCHANGED <<pg, partitions, until, mongo, cmd, facts, left>>

\* A new installation, or one that is migrated and whose bootstrap died in the
\* first collections.
DatabaseInit ==
  /\ today = FirstWeek
  /\ cmd = [o \in Operator |-> Idle]
  /\ left = MaxRuns
  /\ \/ /\ pg = [applied |-> 0, locked |-> FALSE, index |-> Absent, rows |-> <<>>]
        /\ partitions = {}
        /\ until = [t \in Tables |-> 0]
        /\ mongo = [collections |-> <<>>, demo |-> 0]
        /\ facts = {}
     \/ /\ pg = [applied |-> Migrated, locked |-> FALSE, index |-> "valid", rows |-> <<>>]
        /\ partitions = BootstrapWindows
        /\ until = BootstrapEnd
        /\ \E c \in Collections : mongo = [collections |-> [x \in {c} |-> {}], demo |-> 0]
        /\ facts = {"migrated"}

DatabaseNext ==
  \/ WeekPasses \/ Administer
  \/ \E o \in Operator :
       \/ StartMaintenance(o) \/ PlanPartitions(o) \/ CreatePartition(o) \/ TableDone(o)
       \/ PlanRetention(o) \/ DropPartition(o) \/ MaintenanceDone(o)
       \/ StartMigrate(o) \/ Migrate(o) \/ MigratePartitions(o) \/ MigrateIndexes(o) \/ MigrateDone(o)
       \/ StartSeed(o) \/ RunStep(o) \/ CommitSeed(o) \/ SeedMongo(o)
       \/ StartBootstrap(o) \/ ReadCollectionInfo(o) \/ EnsureCollection(o) \/ EnsureIndexes(o)
       \/ BootstrapDone(o) \/ Crash(o)

DatabaseSpec == DatabaseInit /\ [][DatabaseNext]_databaseVars

-----------------------------------------------------------------------------
\* No bootstrap runs to its end and finds an index missing, whatever earlier runs
\* left half done and whatever runs beside it; and once migrations, seeds and
\* bootstrap have each succeeded, and while the administrator is active, the
\* verifier accepts the databases just if Redis answers its probes.
SetupAccepted ==
  /\ "incomplete" \notin facts
  /\ {"migrated", "seeded", "bootstrapped"} \subseteq facts /\ pg.rows["admin"] = "active" =>
       (Verified <=> Server.answers)

\* A row dated today has its partition until the end of the windows that the
\* migration or a finished maintenance run created.
PartitionsCover == \A t \in Tables : today < until[t] => HasPartition(t, today)

\* Retention drops a partition only when all its rows are past the retention
\* period, and no command changes a row that exists: configuration, accounts and
\* rules keep what administrators made of them.
NothingTakenAway ==
  [][/\ \A p \in partitions \ partitions' :
          EndOf(p) <= today - (IF p.table = "audit_logs" THEN MonthsKept * MonthWeeks ELSE WeeksKept)
     /\ cmd' # cmd => \A k \in DOMAIN pg.rows : pg'.rows[k] = pg.rows[k]]_databaseVars
=============================================================================
