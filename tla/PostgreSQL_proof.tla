--------------------------- MODULE PostgreSQL_proof ---------------------------
(***************************************************************************)
(* Proofs about what is kept in the databases, in two parts that share no  *)
(* constant and no variable.                                               *)
(*                                                                         *)
(* DatabaseLifecycle: the commands of any operators leave what they        *)
(* promise whoever runs beside them and wherever they die (DatabaseInv).   *)
(*                                                                         *)
(* IncidentCorrelation: an incident database is Consistent if what it says *)
(* of its incidents is so.  The correlation of a batch keeps that          *)
(* (CorrelateKeeps) and so do the commands of analysts; a commit that is   *)
(* not refused merges two such databases into a third (MergeKeeps).        *)
(* IncidentInv says it of the committed database, and of the snapshot and  *)
(* the result of each running job.                                         *)
(***************************************************************************)
EXTENDS DatabaseLifecycle, IncidentCorrelation, FiniteSetTheorems, SequenceTheorems, WellFoundedInduction, TLAPS

(* Windows.                                                                *)

LEMMA Division ==
  ASSUME NEW w \in Nat, NEW d \in Nat \ {0}
  PROVE  \E q \in Nat : w - (w % d) = q * d /\ q * d <= w /\ w < q * d + d
BY SMT

LEMMA Multiples ==
  ASSUME NEW a \in Nat, NEW b \in Nat, NEW d \in Nat \ {0}
  PROVE  /\ a <= b <=> a * d <= b * d
         /\ a < b <=> a * d < b * d
BY SMT

LEMMA LengthPositive ==
  ASSUME NEW t
  PROVE  Length(t) \in Nat \ {0}
BY DatabaseAssumption DEF Length

\* The week lies in its period.
LEMMA Period ==
  ASSUME NEW t, NEW w \in Nat
  PROVE  /\ StartOf(t, w) \in Nat
         /\ StartOf(t, w) <= w /\ w < StartOf(t, w) + Length(t)
<1>1. PICK q \in Nat : /\ w - (w % Length(t)) = q * Length(t)
                       /\ q * Length(t) <= w /\ w < q * Length(t) + Length(t)
  BY LengthPositive, Division
<1> QED  BY <1>1, LengthPositive DEF StartOf

\* The periods of a table that are created from week v on leave no gap.
LEMMA WindowsCover ==
  ASSUME NEW t, NEW v \in Nat, NEW w \in Nat, NEW n \in Nat, NEW first \in {-1, 0},
         v <= w, w < StartOf(t, v) + (n + 1) * Length(t)
  PROVE  [table |-> t, from |-> StartOf(t, w)] \in Windows(t, v, first, n)
<1> DEFINE d == Length(t)
<1>1. d \in Nat \ {0}
  BY LengthPositive
<1> HIDE DEF d
<1>2. PICK q \in Nat : v - (v % d) = q * d /\ q * d <= v /\ v < q * d + d
  BY <1>1, Division
<1>3. PICK r \in Nat : w - (w % d) = r * d /\ r * d <= w /\ w < r * d + d
  BY <1>1, Division
<1>4. StartOf(t, v) = q * d /\ StartOf(t, w) = r * d
  BY <1>2, <1>3 DEF StartOf, d
<1>5. (q + n + 1) * d = q * d + (n + 1) * d /\ (r + 1) * d = r * d + d
  BY <1>1, <1>2, <1>3
<1>6. q * d < (r + 1) * d /\ r * d < (q + n + 1) * d
  <2>1. w < q * d + (n + 1) * d
    BY <1>4 DEF d
  <2>2. {q * d, r * d, (n + 1) * d} \subseteq Int
    BY <1>1, <1>2, <1>3
  <2> QED  BY <1>1, <1>2, <1>3, <1>5, <2>1, <2>2
<1>7. q < r + 1 /\ r < q + n + 1
  BY <1>1, <1>6, Multiples, q \in Nat, r + 1 \in Nat, r \in Nat, q + n + 1 \in Nat
<1>8. r - q \in first .. n
  BY <1>7
<1>9. r * d = q * d + (r - q) * d
  BY <1>1
<1> QED  BY <1>4, <1>8, <1>9 DEF Windows, d
-----------------------------------------------------------------------------
(* What the commands and the databases are.                                *)

Key == {"admin", "rule"} \cup Config \cup Demo
Value == {"active", "inactive", "default", "changed", "builtin", "custom", "demo"}
Rows == UNION {[K -> Value] : K \in SUBSET Key}
Partition == [table : Tables, from : Int]
Index == UNION {Expected[c] : c \in Collections}
Catalogs == UNION {[C -> SUBSET Index] : C \in SUBSET Collections}

Maintaining ==
  [kind : {"maintain"}, do : SUBSET {"partitions", "retention"}, tables : SUBSET Tables,
   table : Tables \cup {"none"}, todo : SUBSET Partition, end : Int]
Retaining == [kind : {"retain"}, todo : SUBSET Partition]
Migrating == [kind : {"migrate"}, building : BOOLEAN]
Seeding == [kind : {"seed"}, profile : {"core", "development"}, step : Nat \ {0}, own : Rows]
Bootstrapping ==
  [kind : {"bootstrap"}, stage : {"next"}, todo : SUBSET Collections]
    \cup [kind : {"bootstrap"}, stage : {"collection"}, todo : SUBSET Collections,
          at : Collections, existed : BOOLEAN]
    \cup [kind : {"bootstrap"}, stage : {"indexes"}, todo : SUBSET Collections,
          at : Collections, create : SUBSET Index]

Commands == {Idle} \cup Maintaining \cup Retaining \cup Migrating \cup Seeding \cup Bootstrapping

DatabaseTypeOK ==
  /\ today \in Nat
  /\ pg \in [applied : 0..Migrated, locked : BOOLEAN, index : {Absent, "invalid", "valid"}, rows : Rows]
  /\ partitions \subseteq Partition
  /\ until \in [Tables -> Int]
  /\ mongo \in [collections : Catalogs, demo : Nat]
  /\ cmd \in [Operator -> Commands]
  /\ facts \subseteq Recorded

-----------------------------------------------------------------------------
(* The inductive invariant.                                                *)

\* Partitions: what a finished run created is there from today on, what a run
\* has planned is there or still in its hands, and what retention drops has
\* ended before today and before the retention period.
Planned(c) ==
  c.kind = "maintain" /\ c.end > 0 =>
    /\ c.table \in Tables
    /\ \A w \in Nat : today <= w /\ w < c.end =>
         [table |-> c.table, from |-> StartOf(c.table, w)] \in partitions \cup c.todo

Kept(t) == IF t = "audit_logs" THEN MonthsKept * MonthWeeks ELSE WeeksKept
Retained(c) ==
  c.kind = "retain" => \A p \in c.todo : EndOf(p) < today /\ EndOf(p) <= today - Kept(p.table)

Covered ==
  \A t \in Tables, w \in Nat : today <= w /\ w < until[t] => HasPartition(t, w)

PartitionsInv == Covered /\ \A o \in Operator : Planned(cmd[o]) /\ Retained(cmd[o])

\* Seeds: one at a time; what it has inserted nobody has inserted beside it,
\* and what its steps so far are about is there.
Agree(f, g) == \A k \in DOMAIN f \cap DOMAIN g : f[k] = g[k]
Has(c, k) == k \in DOMAIN c.own \cup DOMAIN pg.rows
Seeded(c) ==
  /\ Agree(c.own, pg.rows)
  /\ c.step = 1 => DOMAIN c.own = {}
  /\ c.step > 1 => Has(c, "admin")
  /\ c.step > 2 => \A k \in Config : Has(c, k)
  /\ c.step > 3 => Has(c, "rule")

DemoAsSeeded(rows) == \A k \in Demo \cap DOMAIN rows : rows[k] = "demo"

SeedInv ==
  /\ \A o, x \in Operator : InSeed(o) /\ InSeed(x) => o = x
  /\ \A o \in Operator : InSeed(o) => Seeded(cmd[o]) /\ DemoAsSeeded(cmd[o].own)
  /\ DemoAsSeeded(pg.rows)

\* The bootstrap: a collection that it is past has its indexes.
Ready(c) == Exists(c) /\ Expected[c] \subseteq mongo.collections[c]
Bootstrapped(c) ==
  c.kind = "bootstrap" =>
    /\ \A x \in Collections \ c.todo : Ready(x) \/ (c.stage # "next" /\ x = c.at)
    /\ c.stage = "collection" /\ c.existed => Exists(c.at)
    /\ c.stage = "indexes" =>
         Exists(c.at) /\ Expected[c.at] \subseteq mongo.collections[c.at] \cup c.create

BootstrapInv == \A o \in Operator : Bootstrapped(cmd[o])

\* What has succeeded is not undone.
FactsInv ==
  /\ "incomplete" \notin facts
  /\ "migrated" \in facts => pg.applied = Migrated
  /\ pg.applied = Migrated => pg.index # Absent
  /\ "seeded" \in facts => {"admin", "rule"} \cup Config \subseteq DOMAIN pg.rows
  /\ "bootstrapped" \in facts => MongoComplete

DatabaseInv == DatabaseTypeOK /\ PartitionsInv /\ SeedInv /\ BootstrapInv /\ FactsInv
-----------------------------------------------------------------------------
(* Types.                                                                  *)

LEMMA Kinds ==
  ASSUME DatabaseTypeOK, NEW o \in Operator
  PROVE  /\ cmd[o] \in Commands
         /\ cmd[o].kind = "maintain" => cmd[o] \in Maintaining
         /\ cmd[o].kind = "retain" => cmd[o] \in Retaining
         /\ cmd[o].kind = "migrate" => cmd[o] \in Migrating
         /\ cmd[o].kind = "seed" => cmd[o] \in Seeding
         /\ cmd[o].kind = "bootstrap" => cmd[o] \in Bootstrapping
         /\ Idle.kind = "idle"
<1>1. cmd[o] \in Commands
  BY DEF DatabaseTypeOK
<1>2. /\ Idle.kind = "idle"
      /\ \A c \in Maintaining : c.kind = "maintain"
      /\ \A c \in Retaining : c.kind = "retain"
      /\ \A c \in Migrating : c.kind = "migrate"
      /\ \A c \in Seeding : c.kind = "seed"
      /\ \A c \in Bootstrapping : c.kind = "bootstrap"
  BY DEF Idle, Maintaining, Retaining, Migrating, Seeding, Bootstrapping
<1> QED  BY <1>1, <1>2 DEF Commands

LEMMA GoesTo ==
  ASSUME DatabaseTypeOK, NEW o \in Operator, NEW c, Goes(o, c)
  PROVE  /\ cmd'[o] = c
         /\ \A x \in Operator \ {o} : cmd'[x] = cmd[x]
         /\ c \in Commands => cmd' \in [Operator -> Commands]
BY DEF DatabaseTypeOK, Goes

LEMMA EndsIn ==
  ASSUME DatabaseTypeOK, NEW o \in Operator, NEW fact, Ends(o, fact)
  PROVE  /\ cmd'[o] = Idle
         /\ \A x \in Operator \ {o} : cmd'[x] = cmd[x]
         /\ cmd' \in [Operator -> Commands]
         /\ facts' \subseteq Recorded /\ facts \subseteq facts' /\ facts' \subseteq facts \cup {fact}
<1>1. Goes(o, Idle) /\ facts' = facts \cup ({fact} \cap Recorded) /\ Idle \in Commands
  BY DEF Ends, Commands
<1>2. facts' \subseteq Recorded /\ facts \subseteq facts' /\ facts' \subseteq facts \cup {fact}
  BY <1>1 DEF DatabaseTypeOK
<1> QED  BY <1>1, <1>2, GoesTo

LEMMA OverRows ==
  ASSUME NEW f \in Rows, NEW g \in Rows
  PROVE  Over(f, g) \in Rows
<1>1. PICK K \in SUBSET Key : f \in [K -> Value]
  BY DEF Rows
<1>2. PICK L \in SUBSET Key : g \in [L -> Value]
  BY DEF Rows
<1>3. Over(f, g) \in [K \cup L -> Value]
  BY <1>1, <1>2 DEF Over
<1> QED  BY <1>3 DEF Rows

LEMMA MissingRows ==
  ASSUME NEW keys \in SUBSET Key, NEW seen, NEW value \in Value
  PROVE  Missing(keys, seen, value) \in Rows
<1>1. Missing(keys, seen, value) \in [keys \ DOMAIN seen -> Value]
  BY DEF Missing
<1> QED  BY <1>1 DEF Rows

LEMMA NoRows == <<>> \in Rows
<1>1. <<>> \in [{} -> Value]
  BY DOMAIN <<>> = {}
<1> QED  BY <1>1 DEF Rows

LEMMA WindowsTyped ==
  ASSUME NEW t \in Tables, NEW v \in Nat, NEW first \in Int, NEW n \in Int
  PROVE  Windows(t, v, first, n) \subseteq Partition
<1>1. StartOf(t, v) \in Int /\ Length(t) \in Int
  BY Period, LengthPositive
<1>2. \A k \in first..n : StartOf(t, v) + k * Length(t) \in Int
  BY <1>1
<1> QED  BY <1>2 DEF Windows, Partition

LEMMA BootstrapTyped ==
  ASSUME today \in Nat
  PROVE  BootstrapWindows \subseteq Partition /\ BootstrapEnd \in [Tables -> Int]
<1>1. {MonthsMigrated, WeeksMigrated} \subseteq Int /\ {"audit_logs", "queue_metrics"} = Tables
  BY DatabaseAssumption DEF Tables
<1>2. BootstrapWindows \subseteq Partition
  BY <1>1, WindowsTyped DEF BootstrapWindows
<1>3. \A t \in Tables : StartOf(t, today) \in Int /\ Length(t) \in Int
  BY Period, LengthPositive
<1>4. \A t \in Tables :
        StartOf(t, today) + Length(t) * (1 + IF t = "audit_logs" THEN MonthsMigrated ELSE WeeksMigrated) \in Int
  BY <1>1, <1>3
<1>5. BootstrapEnd \in [Tables -> Int]
  BY <1>4 DEF BootstrapEnd
<1> QED  BY <1>2, <1>5

LEMMA MaintenanceTyped ==
  ASSUME NEW parts \in SUBSET {"partitions", "retention"}
  PROVE  Maintenance(parts) \in Maintaining
BY DEF Maintenance, Maintaining

\* The commands of the maintenance are what they are said to be.
LEMMA MaintenanceKeepsTypes ==
  ASSUME DatabaseTypeOK, NEW o \in Operator,
         \/ StartMaintenance(o) \/ PlanPartitions(o) \/ CreatePartition(o) \/ TableDone(o)
         \/ PlanRetention(o) \/ DropPartition(o) \/ MaintenanceDone(o)
  PROVE  DatabaseTypeOK'
<1> USE DEF DatabaseTypeOK
<1>1. CASE StartMaintenance(o)
  <2>1. PICK m \in SUBSET {"partitions", "retention"} : Goes(o, Maintenance(m))
    BY <1>1 DEF StartMaintenance, Starts
  <2> QED  BY <1>1, <2>1, GoesTo, MaintenanceTyped DEF StartMaintenance, Commands
<1>2. CASE PlanPartitions(o)
  <2>1. cmd[o] \in Maintaining
    BY <1>2, Kinds DEF PlanPartitions, NoParent, Maintains
  <2>2. CASE pg.applied < 2
    BY <1>2, <2>2, EndsIn DEF PlanPartitions, NoParent
  <2>3. CASE ~(pg.applied < 2)
    <3> DEFINE t == IF "audit_logs" \in cmd[o].tables THEN "audit_logs" ELSE "queue_metrics"
               w == BuildFuturePartitionWindows(t, today)
               end == StartOf(t, today) + (Ahead(t) + 1) * Length(t)
               c == [kind |-> "maintain", do |-> cmd[o].do, tables |-> cmd[o].tables \ {t},
                     table |-> t, todo |-> w \ partitions, end |-> end]
    <3>1. t \in Tables
      BY DEF Tables
    <3>2. Ahead(t) \in Nat /\ StartOf(t, today) \in Nat /\ Length(t) \in Nat
      BY DatabaseAssumption, Period, LengthPositive DEF Ahead
    <3>3. end \in Int
      BY <3>2
    <3>4. w \subseteq Partition
      BY <3>1, <3>2, WindowsTyped DEF BuildFuturePartitionWindows
    <3>5. Goes(o, c) /\ UNCHANGED <<today, pg, partitions, until, mongo, facts>>
      BY <1>2, <2>3 DEF PlanPartitions, NoParent
    <3> HIDE DEF t, w, end
    <3>6. c \in Maintaining
      BY <2>1, <3>1, <3>3, <3>4 DEF Maintaining
    <3> HIDE DEF c
    <3> QED  BY <3>5, <3>6, GoesTo DEF Commands
  <2> QED  BY <2>2, <2>3
<1>3. CASE CreatePartition(o)
  <2>1. cmd[o] \in Maintaining
    BY <1>3, Kinds DEF CreatePartition, Maintains
  <2>2. PICK p \in cmd[o].todo :
          partitions' = partitions \cup {p} /\ Goes(o, [cmd[o] EXCEPT !.todo = @ \ {p}])
    BY <1>3 DEF CreatePartition
  <2>3. [cmd[o] EXCEPT !.todo = @ \ {p}] \in Maintaining /\ p \in Partition
    BY <2>1, <2>2 DEF Maintaining
  <2>4. cmd' \in [Operator -> Commands]
    BY <2>2, <2>3, GoesTo DEF Commands
  <2> QED  BY <1>3, <2>2, <2>3, <2>4 DEF CreatePartition
<1>4. CASE TableDone(o)
  <2>1. cmd[o] \in Maintaining
    BY <1>4, Kinds DEF TableDone, Maintains
  <2>2. until' \in [Tables -> Int]
    BY <1>4, <2>1 DEF TableDone, Later, Maintaining
  <2>3. cmd[o].do \ {"partitions"} \in SUBSET {"partitions", "retention"}
    BY <2>1 DEF Maintaining
  <2>5. [Maintenance(cmd[o].do) EXCEPT !.tables = cmd[o].tables] \in Maintaining
    BY <2>1, MaintenanceTyped DEF Maintaining
  <2>4. cmd' \in [Operator -> Commands]
    BY <1>4, <2>3, <2>5, GoesTo, MaintenanceTyped DEF TableDone, Commands
  <2> QED  BY <1>4, <2>2, <2>4 DEF TableDone
<1>5. CASE PlanRetention(o)
  <2>1. [kind |-> "retain",
         todo |-> {p \in partitions : Destructive /\ EligibleForDrop(p, Cutoff(p.table, today))}] \in Retaining
    BY DEF Retaining
  <2>2. cmd' \in [Operator -> Commands]
    BY <1>5, <2>1, GoesTo DEF PlanRetention, Commands
  <2> QED  BY <1>5, <2>2 DEF PlanRetention
<1>6. CASE DropPartition(o)
  <2>1. cmd[o] \in Retaining
    BY <1>6, Kinds DEF DropPartition
  <2>2. PICK p \in cmd[o].todo :
          partitions' = partitions \ {p} /\ Goes(o, [cmd[o] EXCEPT !.todo = @ \ {p}])
    BY <1>6 DEF DropPartition
  <2>3. [cmd[o] EXCEPT !.todo = @ \ {p}] \in Retaining
    BY <2>1 DEF Retaining
  <2>4. cmd' \in [Operator -> Commands]
    BY <2>2, <2>3, GoesTo DEF Commands
  <2> QED  BY <1>6, <2>2, <2>4 DEF DropPartition
<1>7. CASE MaintenanceDone(o)
  BY <1>7, EndsIn DEF MaintenanceDone
<1> QED  BY <1>1, <1>2, <1>3, <1>4, <1>5, <1>6, <1>7

LEMMA MigrationKeepsTypes ==
  ASSUME DatabaseTypeOK, NEW o \in Operator,
         \/ StartMigrate(o) \/ Migrate(o) \/ MigratePartitions(o) \/ MigrateIndexes(o) \/ MigrateDone(o)
  PROVE  DatabaseTypeOK'
<1> USE DEF DatabaseTypeOK
<1>1. Migrated = 5
  BY DEF Migrated, Migrations
<1>2. Pending(o) => pg.applied + 1 \in 0..Migrated /\ cmd[o] \in Migrating
  BY <1>1, Kinds DEF Pending
<1>3. CASE StartMigrate(o)
  <2>1. [kind |-> "migrate", building |-> FALSE] \in Commands
    BY DEF Commands, Migrating
  <2>2. cmd' \in [Operator -> Commands]
    BY <1>3, <2>1, GoesTo DEF StartMigrate, Starts
  <2> QED  BY <1>3, <2>2 DEF StartMigrate
<1>4. CASE Migrate(o)
  BY <1>2, <1>4 DEF Migrate
<1>5. CASE MigratePartitions(o)
  BY <1>2, <1>5, BootstrapTyped DEF MigratePartitions
<1>6. CASE MigrateIndexes(o)
  <2>1. [cmd[o] EXCEPT !.building = TRUE] \in Commands /\ [cmd[o] EXCEPT !.building = FALSE] \in Commands
    BY <1>2, <1>6 DEF MigrateIndexes, Commands, Migrating
  <2>2. cmd' \in [Operator -> Commands]
    BY <1>6, <2>1, GoesTo DEF MigrateIndexes
  <2>3. pg' \in [applied : 0..Migrated, locked : BOOLEAN, index : {Absent, "invalid", "valid"}, rows : Rows]
    BY <1>2, <1>6 DEF MigrateIndexes
  <2> QED  BY <1>6, <2>2, <2>3 DEF MigrateIndexes
<1>7. CASE MigrateDone(o)
  BY <1>7, EndsIn DEF MigrateDone
<1> QED  BY <1>3, <1>4, <1>5, <1>6, <1>7

\* The seeds: the steps in their order, and what each of them inserts.
Names == {"initial-admin", "default-configuration", "builtin-rules", "development-demo"}
KeysOf(name) ==
  CASE name = "initial-admin" -> {"admin"}
    [] name = "default-configuration" -> Config
    [] name = "builtin-rules" -> {"rule"}
    [] name = "development-demo" -> Demo
ValueOf(name) ==
  CASE name = "initial-admin" -> "active"
    [] name = "default-configuration" -> "default"
    [] name = "builtin-rules" -> "builtin"
    [] name = "development-demo" -> "demo"

LEMMA Appended ==
  ASSUME NEW s \in Seq(Names), NEW n \in Nat, Len(s) = n, NEW name \in Names
  PROVE  /\ Len(Append(s, name)) = n + 1 /\ Append(s, name)[n + 1] = name
         /\ \A i \in 1..n : Append(s, name)[i] = s[i]
BY AppendProperties

LEMMA SeedOrder ==
  ASSUME NEW profile \in {"core", "development"}
  PROVE  /\ Len(SeedSteps(profile)) = IF profile = "development" THEN 4 ELSE 3
         /\ SeedSteps(profile)[1] = "initial-admin"
         /\ SeedSteps(profile)[2] = "default-configuration"
         /\ SeedSteps(profile)[3] = "builtin-rules"
         /\ profile = "development" => SeedSteps(profile)[4] = "development-demo"
<1>1. Len(CoreSteps) = 3 /\ CoreSteps[1] = "initial-admin" /\ CoreSteps[2] = "default-configuration"
      /\ CoreSteps[3] = "builtin-rules" /\ CoreSteps \in Seq(Names)
  BY DEF CoreSteps, Names
<1> HIDE DEF CoreSteps
<1>2. CASE profile = "core"
  <2>1. SeedSteps(profile) = CoreSteps
    BY <1>2 DEF SeedSteps
  <2> QED  BY <1>1, <1>2, <2>1
<1>3. CASE profile = "development"
  <2>1. SeedSteps(profile) = Append(CoreSteps, "development-demo") /\ "development-demo" \in Names
    BY <1>3 DEF SeedSteps, Names
  <2>2. PICK n \in Nat : n = 3
    OBVIOUS
  <2>3. Len(SeedSteps(profile)) = n + 1 /\ SeedSteps(profile)[n + 1] = "development-demo"
        /\ \A i \in 1..n : SeedSteps(profile)[i] = CoreSteps[i]
    BY <1>1, <2>1, <2>2, Appended
  <2> QED  BY <1>1, <1>3, <2>2, <2>3
<1> QED  BY <1>2, <1>3

Reasons == {"name taken", "custom rule", "no core seed", "no partition"}

LEMMA SeedSizes ==
  ASSUME NEW c \in Seeding
  PROVE  /\ c.step \in Nat \ {0} /\ c.profile \in {"core", "development"} /\ c.own \in Rows
         /\ Len(SeedSteps(c.profile)) = IF c.profile = "development" THEN 4 ELSE 3
<1>1. c.step \in Nat \ {0} /\ c.profile \in {"core", "development"} /\ c.own \in Rows
  BY DEF Seeding
<1> QED  BY <1>1, SeedOrder

LEMMA StepInserts ==
  ASSUME NEW name \in Names, NEW seen
  PROVE  \/ \E reason \in Reasons : Step(name, seen) = Throw(reason)
         \/ Step(name, seen) = Insert(KeysOf(name), seen, ValueOf(name))
<1>1. CASE name = "initial-admin"
  <2>1. Step(name, seen) = SeedInitialAdministrator(seen) /\ KeysOf(name) = {"admin"} /\ ValueOf(name) = "active"
    BY <1>1 DEF Step, KeysOf, ValueOf
  <2> QED  BY <2>1 DEF SeedInitialAdministrator, Reasons
<1>2. CASE name = "default-configuration"
  <2>1. Step(name, seen) = SeedDefaultConfiguration(seen) /\ KeysOf(name) = Config /\ ValueOf(name) = "default"
    BY <1>2 DEF Step, KeysOf, ValueOf
  <2> QED  BY <2>1 DEF SeedDefaultConfiguration
<1>3. CASE name = "builtin-rules"
  <2>1. Step(name, seen) = SeedBuiltinRules(seen) /\ KeysOf(name) = {"rule"} /\ ValueOf(name) = "builtin"
    BY <1>3 DEF Step, KeysOf, ValueOf
  <2> QED  BY <2>1 DEF SeedBuiltinRules, Reasons
<1>4. CASE name = "development-demo"
  <2>1. Step(name, seen) = SeedDevelopmentDemoData(seen) /\ KeysOf(name) = Demo /\ ValueOf(name) = "demo"
    BY <1>4 DEF Step, KeysOf, ValueOf
  <2> QED  BY <2>1 DEF SeedDevelopmentDemoData, Reasons
<1> QED  BY <1>1, <1>2, <1>3, <1>4 DEF Names

\* A step that does not throw adds its rows to those of the command.
LEMMA StepRuns ==
  ASSUME DatabaseTypeOK, NEW o \in Operator, RunStep(o)
  PROVE  /\ cmd[o] \in Seeding /\ cmd[o].step <= Len(SeedSteps(cmd[o].profile))
         /\ UNCHANGED <<today, pg, partitions, until, mongo, left>>
         /\ \/ \E reason \in Reasons : Ends(o, reason)
            \/ \E name \in Names :
                 /\ name = SeedSteps(cmd[o].profile)[cmd[o].step]
                 /\ Goes(o, Seed(cmd[o].profile, cmd[o].step + 1,
                      Over(Missing(KeysOf(name), Over(cmd[o].own, Visible(pg.rows)), ValueOf(name)), cmd[o].own)))
                 /\ UNCHANGED facts
<1>1. cmd[o] \in Seeding
  BY Kinds DEF RunStep
<1> DEFINE name == SeedSteps(cmd[o].profile)[cmd[o].step]
           seen == Over(cmd[o].own, Visible(pg.rows))
           r == Step(name, seen)
<1>2. cmd[o].step \in Nat \ {0} /\ cmd[o].profile \in {"core", "development"}
  BY <1>1 DEF Seeding
<1>3. name \in Names
  <2>1. cmd[o].step <= Len(SeedSteps(cmd[o].profile))
    BY DEF RunStep
  <2>2. Len(SeedSteps(cmd[o].profile)) = IF cmd[o].profile = "development" THEN 4 ELSE 3
    BY <1>1, SeedSizes
  <2>3. \/ cmd[o].step = 1 \/ cmd[o].step = 2 \/ cmd[o].step = 3
        \/ cmd[o].step = 4 /\ cmd[o].profile = "development"
    BY <1>2, <2>1, <2>2
  <2> QED  BY <1>2, <2>3, SeedOrder DEF Names
<1>4. IF "throws" \in DOMAIN r THEN Ends(o, r.throws)
      ELSE Goes(o, Seed(cmd[o].profile, cmd[o].step + 1, Over(r.rows, cmd[o].own))) /\ UNCHANGED facts
  BY DEF RunStep
<1>5. CASE \E reason \in Reasons : r = Throw(reason)
  <2>1. "throws" \in DOMAIN r /\ r.throws \in Reasons
    BY <1>5 DEF Throw
  <2> HIDE DEF r
  <2>2. Ends(o, r.throws)
    BY <1>4, <2>1
  <2> QED  BY <1>1, <2>1, <2>2 DEF RunStep
<1>6. CASE r = Insert(KeysOf(name), seen, ValueOf(name))
  <2>1. "throws" \notin DOMAIN r /\ r.rows = Missing(KeysOf(name), seen, ValueOf(name))
    BY <1>6 DEF Insert
  <2> HIDE DEF name, r
  <2>2. Goes(o, Seed(cmd[o].profile, cmd[o].step + 1, Over(Missing(KeysOf(name), seen, ValueOf(name)), cmd[o].own)))
        /\ UNCHANGED facts
    BY <1>4, <2>1
  <2>3. name = SeedSteps(cmd[o].profile)[cmd[o].step]
    BY DEF name
  <2> QED  BY <1>1, <1>3, <2>2, <2>3 DEF RunStep
<1> QED  BY <1>3, <1>5, <1>6, StepInserts

LEMMA NamesTyped ==
  ASSUME NEW name \in Names
  PROVE  KeysOf(name) \in SUBSET Key /\ ValueOf(name) \in Value
BY DEF Names, KeysOf, ValueOf, Key, Value

LEMMA SeedKeepsTypes ==
  ASSUME DatabaseTypeOK, NEW o \in Operator,
         StartSeed(o) \/ RunStep(o) \/ CommitSeed(o) \/ SeedMongo(o)
  PROVE  DatabaseTypeOK'
<1> USE DEF DatabaseTypeOK
<1>1. CASE StartSeed(o)
  <2>1. \A profile \in {"core", "development"} :
          Seed(profile, 1, <<>>) \in Commands
    BY NoRows DEF Commands, Seeding, Seed
  <2>2. cmd' \in [Operator -> Commands]
    BY <1>1, <2>1, GoesTo DEF StartSeed, Starts
  <2> QED  BY <1>1, <2>2 DEF StartSeed
<1>2. CASE RunStep(o)
  <2>1. cmd[o] \in Seeding /\ cmd[o].step + 1 \in Nat \ {0}
    <3>1. cmd[o] \in Seeding
      BY <1>2, StepRuns
    <3> QED  BY <3>1, SeedSizes
  <2>2. CASE \E reason \in Reasons : Ends(o, reason)
    BY <1>2, <2>2, StepRuns, EndsIn
  <2>3. ASSUME NEW name \in Names, NEW seen,
               Goes(o, Seed(cmd[o].profile, cmd[o].step + 1, Over(Missing(KeysOf(name), seen, ValueOf(name)), cmd[o].own)))
        PROVE  cmd' \in [Operator -> Commands]
    <3>1. Over(Missing(KeysOf(name), seen, ValueOf(name)), cmd[o].own) \in Rows
      BY <2>1, NamesTyped, MissingRows, OverRows DEF Seeding
    <3>2. Seed(cmd[o].profile, cmd[o].step + 1, Over(Missing(KeysOf(name), seen, ValueOf(name)), cmd[o].own)) \in Seeding
      BY <2>1, <3>1 DEF Seeding, Seed
    <3> QED  BY <2>3, <3>2, GoesTo DEF Commands
  <2> QED  BY <1>2, <2>2, <2>3, StepRuns
<1>3. CASE CommitSeed(o)
  <2>1. cmd[o] \in Seeding /\ cmd[o].step + 1 \in Nat \ {0}
    BY <1>3, Kinds, SeedSizes DEF CommitSeed
  <2>2. Seed(cmd[o].profile, cmd[o].step + 1, <<>>) \in Commands
    BY <2>1, NoRows DEF Commands, Seeding, Seed
  <2>3. cmd' \in [Operator -> Commands] /\ facts' \subseteq Recorded
    <3>1. CASE cmd[o].profile = "core"
      BY <1>3, <3>1, EndsIn DEF CommitSeed
    <3>2. CASE cmd[o].profile # "core"
      <4>1. /\ Goes(o, Seed(cmd[o].profile, cmd[o].step + 1, <<>>))
            /\ facts' = facts \cup {"seeded", "demo"}
        BY <1>3, <3>2, Zenon DEF CommitSeed
      <4>2. cmd' \in [Operator -> Commands]
        BY <2>2, <4>1, GoesTo, Zenon
      <4>3. facts' \subseteq Recorded
        <5>1. facts \subseteq Recorded
          OBVIOUS
        <5>2. "seeded" \in Recorded /\ "demo" \in Recorded
          BY DEF Recorded
        <5> QED  BY <4>1, <5>1, <5>2, Zenon
      <4> QED  BY <4>2, <4>3, Zenon
    <3> QED  BY <3>1, <3>2
  <2>4. CommittedRows(cmd[o].own) \in Rows
    BY <2>1, OverRows DEF CommittedRows, Seeding
  <2> QED  BY <1>3, <2>3, <2>4 DEF CommitSeed
<1>4. CASE SeedMongo(o)
  <2>1. cmd' \in [Operator -> Commands] /\ facts' \subseteq Recorded
    BY <1>4, EndsIn DEF SeedMongo
  <2>2. mongo \in [collections : Catalogs, demo : Nat]
    OBVIOUS
  <2>3. mongo' = [mongo EXCEPT !.demo = @ + 1] \/ mongo' = mongo
    BY <1>4 DEF SeedMongo
  <2>4. mongo' \in [collections : Catalogs, demo : Nat]
    BY ONLY <2>2, <2>3
  <2> QED  BY <1>4, <2>1, <2>4 DEF SeedMongo
<1> QED  BY <1>1, <1>2, <1>3, <1>4

LEMMA AdministerKeepsTypes ==
  ASSUME DatabaseTypeOK, Administer
  PROVE  DatabaseTypeOK'
<1>1. PICK k \in {"admin", "k1", "rule"}, value \in {"inactive", "changed", "custom"} :
        pg' = [pg EXCEPT !.rows = Over([x \in {k} |-> value], @)]
  BY DEF Administer
<1>2. [x \in {k} |-> value] \in [{k} -> Value] /\ {k} \in SUBSET Key
  BY DEF Value, Key, Config
<1>3. Over([x \in {k} |-> value], pg.rows) \in Rows
  BY <1>2, OverRows DEF Rows, DatabaseTypeOK
<1> QED  BY <1>1, <1>3 DEF Administer, DatabaseTypeOK

LEMMA CatalogGrows ==
  ASSUME NEW f \in Catalogs, NEW c \in Collections
  PROVE  /\ Over([x \in {c} |-> {}], f) \in Catalogs
         /\ \A i \in Index : [f EXCEPT ![c] = @ \cup {i}] \in Catalogs
<1>1. PICK C \in SUBSET Collections : f \in [C -> SUBSET Index]
  BY DEF Catalogs
<1>2. Over([x \in {c} |-> {}], f) \in [C \cup {c} -> SUBSET Index]
  BY <1>1 DEF Over
<1>3. \A i \in Index : [f EXCEPT ![c] = @ \cup {i}] \in [C -> SUBSET Index]
  BY <1>1
<1> QED  BY <1>1, <1>2, <1>3 DEF Catalogs

\* What the steps of the bootstrap do to the command and the catalog.
LEMMA BootstrapSteps ==
  ASSUME DatabaseTypeOK, NEW o \in Operator
  PROVE  /\ ReadCollectionInfo(o) => \E c \in cmd[o].todo :
              Goes(o, [kind |-> "bootstrap", stage |-> "collection", todo |-> cmd[o].todo \ {c},
                       at |-> c, existed |-> Exists(c)])
         /\ EnsureIndexes(o) /\ cmd[o].create # {} => \E i \in cmd[o].create :
              /\ mongo' = [mongo EXCEPT !.collections[cmd[o].at] = @ \cup {i}]
              /\ Goes(o, [cmd[o] EXCEPT !.create = @ \ {i}])
BY DEF ReadCollectionInfo, EnsureIndexes

LEMMA BootstrapKeepsTypes ==
  ASSUME DatabaseTypeOK, NEW o \in Operator,
         \/ StartBootstrap(o) \/ ReadCollectionInfo(o) \/ EnsureCollection(o) \/ EnsureIndexes(o)
         \/ BootstrapDone(o)
  PROVE  DatabaseTypeOK'
<1> USE DEF DatabaseTypeOK
<1>1. CASE StartBootstrap(o)
  <2>1. [kind |-> "bootstrap", stage |-> "next", todo |-> Collections] \in Commands
    BY DEF Commands, Bootstrapping
  <2>2. cmd' \in [Operator -> Commands]
    BY <1>1, <2>1, GoesTo DEF StartBootstrap, Starts
  <2> QED  BY <1>1, <2>2 DEF StartBootstrap
<1>2. CASE ReadCollectionInfo(o)
  <2>1. cmd[o] \in Bootstrapping /\ cmd[o].todo \subseteq Collections
    BY <1>2, Kinds DEF ReadCollectionInfo, Bootstraps, Bootstrapping
  <2>2. PICK c \in cmd[o].todo :
          Goes(o, [kind |-> "bootstrap", stage |-> "collection", todo |-> cmd[o].todo \ {c},
                   at |-> c, existed |-> Exists(c)])
    BY <1>2, BootstrapSteps
  <2>3. Exists(c) \in BOOLEAN
    BY DEF Exists
  <2>4. [kind |-> "bootstrap", stage |-> "collection", todo |-> cmd[o].todo \ {c},
         at |-> c, existed |-> Exists(c)] \in Commands
    BY <2>1, <2>3 DEF Commands, Bootstrapping
  <2>5. cmd' \in [Operator -> Commands]
    BY <2>2, <2>4, GoesTo
  <2> QED  BY <1>2, <2>5 DEF ReadCollectionInfo
<1>3. CASE EnsureCollection(o)
  <2>1. cmd[o].todo \subseteq Collections /\ cmd[o].at \in Collections
    BY <1>3, Kinds DEF EnsureCollection, Bootstraps, Bootstrapping
  <2>2. CASE ~cmd[o].existed /\ Exists(cmd[o].at)
    BY <1>3, <2>2, EndsIn DEF EnsureCollection
  <2>3. CASE ~(~cmd[o].existed /\ Exists(cmd[o].at))
    <3>1. IndexesToCreate(cmd[o].at, cmd[o].existed) \subseteq Index
      BY <2>1 DEF IndexesToCreate, Index
    <3>2. [kind |-> "bootstrap", stage |-> "indexes", todo |-> cmd[o].todo,
           at |-> cmd[o].at, create |-> IndexesToCreate(cmd[o].at, cmd[o].existed)] \in Commands
      BY <2>1, <3>1 DEF Commands, Bootstrapping
    <3>3. cmd' \in [Operator -> Commands]
      BY <1>3, <2>3, <3>2, GoesTo DEF EnsureCollection
    <3>4. mongo' \in [collections : Catalogs, demo : Nat]
      <4>1. Over([x \in {cmd[o].at} |-> {}], mongo.collections) \in Catalogs
        BY <2>1, CatalogGrows
      <4>2. mongo' = mongo \/ mongo' = [mongo EXCEPT !.collections = Over([x \in {cmd[o].at} |-> {}], @)]
        BY <1>3, <2>3 DEF EnsureCollection
      <4>3. mongo \in [collections : Catalogs, demo : Nat]
        OBVIOUS
      <4> QED  BY ONLY <4>1, <4>2, <4>3
    <3> QED  BY <1>3, <2>3, <3>3, <3>4 DEF EnsureCollection
  <2> QED  BY <2>2, <2>3
<1>4. CASE EnsureIndexes(o)
  <2>1. /\ cmd[o].todo \subseteq Collections /\ cmd[o].at \in Collections /\ cmd[o].create \subseteq Index
        /\ cmd[o] \in [kind : {"bootstrap"}, stage : {"indexes"}, todo : SUBSET Collections,
                       at : Collections, create : SUBSET Index]
    BY <1>4, Kinds DEF EnsureIndexes, Bootstraps, Bootstrapping
  <2>2. CASE cmd[o].create = {}
    <3>1. [kind |-> "bootstrap", stage |-> "next", todo |-> cmd[o].todo] \in Commands
      BY <2>1 DEF Commands, Bootstrapping
    <3>2. cmd' \in [Operator -> Commands] /\ UNCHANGED mongo
      BY <1>4, <2>2, <3>1, GoesTo DEF EnsureIndexes
    <3> QED  BY <1>4, <3>2 DEF EnsureIndexes
  <2>3. CASE cmd[o].create # {}
    <3>1. PICK i \in cmd[o].create :
            /\ mongo' = [mongo EXCEPT !.collections[cmd[o].at] = @ \cup {i}]
            /\ Goes(o, [cmd[o] EXCEPT !.create = @ \ {i}])
      BY <1>4, <2>3, BootstrapSteps
    <3>2. [cmd[o] EXCEPT !.create = @ \ {i}] \in Commands
      BY <2>1 DEF Commands, Bootstrapping
    <3>3. cmd' \in [Operator -> Commands]
      BY <3>1, <3>2, GoesTo
    <3>4. [mongo.collections EXCEPT ![cmd[o].at] = @ \cup {i}] \in Catalogs
      BY <2>1, CatalogGrows
    <3>5. mongo' \in [collections : Catalogs, demo : Nat]
      BY <3>1, <3>4
    <3> QED  BY <1>4, <3>3, <3>5 DEF EnsureIndexes
  <2> QED  BY <2>2, <2>3
<1>5. CASE BootstrapDone(o)
  BY <1>5, EndsIn DEF BootstrapDone, Recorded
<1> QED  BY <1>1, <1>2, <1>3, <1>4, <1>5
-----------------------------------------------------------------------------
(* Partitions.                                                             *)

\* A command that is not about partitions leaves what is known of them.
LEMMA OtherCommand ==
  ASSUME PartitionsInv, UNCHANGED <<today, until>>, partitions \subseteq partitions',
         NEW o \in Operator, \A x \in Operator \ {o} : cmd'[x] = cmd[x],
         Planned(cmd[o])', Retained(cmd[o])'
  PROVE  PartitionsInv'
<1>1. Covered'
  BY DEF PartitionsInv, Covered, HasPartition
<1>2. ASSUME NEW x \in Operator PROVE Planned(cmd[x])' /\ Retained(cmd[x])'
  <2>1. CASE x = o
    BY <2>1
  <2>2. CASE x # o
    <3>1. cmd'[x] = cmd[x] /\ Planned(cmd[x]) /\ Retained(cmd[x])
      BY <2>2 DEF PartitionsInv
    <3> QED  BY <3>1 DEF Planned, Retained
  <2> QED  BY <2>1, <2>2
<1> QED  BY <1>1, <1>2 DEF PartitionsInv

LEMMA PlanCovers ==
  ASSUME DatabaseTypeOK, NEW t \in Tables, NEW w \in Nat, today <= w,
         w < StartOf(t, today) + (Ahead(t) + 1) * Length(t)
  PROVE  [table |-> t, from |-> StartOf(t, w)] \in BuildFuturePartitionWindows(t, today)
<1>1. Ahead(t) \in Nat /\ today \in Nat
  BY DatabaseAssumption DEF Ahead, DatabaseTypeOK
<1> QED  BY <1>1, WindowsCover DEF BuildFuturePartitionWindows

LEMMA MigrationCovers ==
  ASSUME DatabaseTypeOK, NEW t \in Tables, NEW w \in Nat, today <= w, w < BootstrapEnd[t]
  PROVE  [table |-> t, from |-> StartOf(t, w)] \in BootstrapWindows
<1> DEFINE n == IF t = "audit_logs" THEN MonthsMigrated ELSE WeeksMigrated
<1>1. n \in Nat /\ today \in Nat
  BY DatabaseAssumption DEF DatabaseTypeOK
<1>2. BootstrapEnd[t] = StartOf(t, today) + Length(t) * (1 + n)
  BY DEF BootstrapEnd
<1> HIDE DEF n
<1>3. StartOf(t, today) \in Nat /\ Length(t) \in Nat
  BY <1>1, Period, LengthPositive
<1>4. Length(t) * (1 + n) = (n + 1) * Length(t)
  BY <1>1, <1>3
<1>5. w < StartOf(t, today) + (n + 1) * Length(t)
  BY <1>2, <1>4
<1>6. [table |-> t, from |-> StartOf(t, w)] \in Windows(t, today, -1, n)
  BY <1>1, <1>5, WindowsCover
<1> QED  BY <1>6 DEF BootstrapWindows, Tables, n

\* Retention takes only what is past.
LEMMA CutoffPast ==
  ASSUME DatabaseTypeOK, NEW p \in Partition, EligibleForDrop(p, Cutoff(p.table, today))
  PROVE  EndOf(p) < today /\ EndOf(p) <= today - Kept(p.table)
<1>1. p.table \in Tables /\ p.from \in Int /\ today \in Nat
  BY DEF Partition, DatabaseTypeOK
<1>2. /\ Length(p.table) \in Nat /\ StartOf(p.table, today) \in Nat
      /\ StartOf(p.table, today) <= today
  BY <1>1, Period, LengthPositive
<1>3. MonthsKept * MonthWeeks \in Nat /\ WeeksKept \in Nat
  BY DatabaseAssumption
<1>4. EndOf(p) \in Int
  BY <1>1, <1>2 DEF EndOf
<1>5. CASE p.table = "audit_logs"
  BY <1>1, <1>2, <1>3, <1>4, <1>5 DEF EligibleForDrop, Cutoff, Kept
<1>6. CASE p.table # "audit_logs"
  BY <1>1, <1>2, <1>3, <1>4, <1>6 DEF EligibleForDrop, Cutoff, Kept
<1> QED  BY <1>5, <1>6

\* What ended before today holds no week from today on.
LEMMA PastHoldsNothing ==
  ASSUME DatabaseTypeOK, NEW p, EndOf(p) < today, NEW t \in Tables, NEW w \in Nat, today <= w
  PROVE  p # [table |-> t, from |-> StartOf(t, w)]
<1> SUFFICES ASSUME p = [table |-> t, from |-> StartOf(t, w)] PROVE FALSE
  OBVIOUS
<1>1. EndOf(p) = StartOf(t, w) + Length(t)
  BY DEF EndOf
<1>2. w < StartOf(t, w) + Length(t) /\ StartOf(t, w) \in Nat /\ Length(t) \in Nat /\ today \in Nat
  BY Period, LengthPositive DEF DatabaseTypeOK
<1> QED  BY <1>1, <1>2

LEMMA MaintenanceKeepsPartitions ==
  ASSUME DatabaseTypeOK, PartitionsInv, NEW o \in Operator,
         \/ StartMaintenance(o) \/ PlanPartitions(o) \/ CreatePartition(o) \/ TableDone(o)
         \/ PlanRetention(o) \/ DropPartition(o) \/ MaintenanceDone(o)
  PROVE  PartitionsInv'
<1>1. CASE StartMaintenance(o)
  <2>1. PICK m : cmd'[o] = Maintenance(m) /\ \A x \in Operator \ {o} : cmd'[x] = cmd[x]
    BY <1>1, GoesTo DEF StartMaintenance, Starts
  <2>2. cmd'[o].end = 0 /\ cmd'[o].kind = "maintain"
    BY <2>1 DEF Maintenance
  <2> QED  BY <1>1, <2>1, <2>2, OtherCommand DEF StartMaintenance, Planned, Retained
<1>2. CASE PlanPartitions(o)
  <2>1. cmd[o] \in Maintaining
    BY <1>2, Kinds DEF PlanPartitions, NoParent, Maintains
  <2>2. CASE pg.applied < 2
    <3>1. cmd'[o].kind = "idle" /\ \A x \in Operator \ {o} : cmd'[x] = cmd[x]
      BY <1>2, <2>2, EndsIn, Kinds DEF PlanPartitions, NoParent
    <3> QED  BY <1>2, <2>2, <3>1, OtherCommand DEF PlanPartitions, NoParent, Planned, Retained
  <2>3. CASE ~(pg.applied < 2)
    <3> DEFINE t == IF "audit_logs" \in cmd[o].tables THEN "audit_logs" ELSE "queue_metrics"
               w == BuildFuturePartitionWindows(t, today)
               end == StartOf(t, today) + (Ahead(t) + 1) * Length(t)
               c == [kind |-> "maintain", do |-> cmd[o].do, tables |-> cmd[o].tables \ {t},
                     table |-> t, todo |-> w \ partitions, end |-> end]
    <3>1. t \in Tables
      BY DEF Tables
    <3>2. Goes(o, c) /\ UNCHANGED <<today, pg, partitions, until, mongo, facts>>
      BY <1>2, <2>3 DEF PlanPartitions, NoParent
    <3>3. \A v \in Nat : today <= v /\ v < end => [table |-> t, from |-> StartOf(t, v)] \in w
      BY <3>1, PlanCovers
    <3> HIDE DEF t, w, end
    <3>4. c.kind = "maintain" /\ c.table = t /\ c.end = end /\ c.todo = w \ partitions
      BY <2>1 DEF Maintaining
    <3> HIDE DEF c
    <3>5. cmd'[o] = c /\ \A x \in Operator \ {o} : cmd'[x] = cmd[x]
      BY <3>2, GoesTo
    <3>6. Planned(cmd[o])' /\ Retained(cmd[o])'
      BY <3>1, <3>2, <3>3, <3>4, <3>5 DEF Planned, Retained
    <3> QED  BY <3>2, <3>5, <3>6, OtherCommand
  <2> QED  BY <2>2, <2>3
<1>3. CASE CreatePartition(o)
  <2>1. cmd[o] \in Maintaining /\ Planned(cmd[o])
    BY <1>3, Kinds DEF CreatePartition, Maintains, PartitionsInv
  <2>2. PICK p \in cmd[o].todo :
          partitions' = partitions \cup {p} /\ Goes(o, [cmd[o] EXCEPT !.todo = @ \ {p}])
    BY <1>3 DEF CreatePartition
  <2>3. cmd'[o] = [cmd[o] EXCEPT !.todo = @ \ {p}] /\ \A x \in Operator \ {o} : cmd'[x] = cmd[x]
    BY <2>2, GoesTo
  <2>4. cmd'[o].kind = "maintain" /\ cmd'[o].end = cmd[o].end /\ cmd'[o].table = cmd[o].table
        /\ cmd'[o].todo = cmd[o].todo \ {p}
    BY <2>1, <2>3 DEF Maintaining
  <2>5. Planned(cmd[o])' /\ Retained(cmd[o])'
    BY <1>3, <2>1, <2>2, <2>4 DEF CreatePartition, Planned, Retained, Maintaining
  <2> QED  BY <1>3, <2>2, <2>3, <2>5, OtherCommand DEF CreatePartition
<1>4. CASE TableDone(o)
  <2>1. cmd[o] \in Maintaining /\ Planned(cmd[o]) /\ cmd[o].todo = {} /\ cmd[o].end > 0
    BY <1>4, Kinds DEF TableDone, Maintains, PartitionsInv
  <2>2. UNCHANGED <<today, partitions>> /\ until' = [until EXCEPT ![cmd[o].table] = Later(@, cmd[o].end)]
    BY <1>4 DEF TableDone
  <2>3. Covered'
    <3> SUFFICES ASSUME NEW t \in Tables, NEW w \in Nat, today <= w, w < until'[t]
                 PROVE  HasPartition(t, w)
      BY <2>2 DEF Covered, HasPartition
    <3>1. CASE w < until[t]
      BY <3>1 DEF PartitionsInv, Covered
    <3>2. CASE ~(w < until[t])
      <4>1. t = cmd[o].table /\ w < cmd[o].end
        BY <2>2, <3>2 DEF DatabaseTypeOK, Later
      <4> QED  BY <2>1, <4>1 DEF Planned, Maintaining, HasPartition
    <3> QED  BY <3>1, <3>2
  <2>4. cmd'[o].kind = "maintain" /\ cmd'[o].end = 0
    <3>1. CASE cmd[o].tables # {}
      BY <1>4, <3>1, GoesTo DEF TableDone, Maintenance
    <3>2. CASE cmd[o].tables = {}
      BY <1>4, <3>2, GoesTo DEF TableDone, Maintenance
    <3> QED  BY <3>1, <3>2
  <2>5. \A x \in Operator \ {o} : cmd'[x] = cmd[x]
    BY <1>4, GoesTo DEF TableDone
  <2>6. ASSUME NEW x \in Operator PROVE Planned(cmd[x])' /\ Retained(cmd[x])'
    <3>1. CASE x = o
      BY <2>4, <3>1 DEF Planned, Retained
    <3>2. CASE x # o
      <4>1. cmd'[x] = cmd[x] /\ Planned(cmd[x]) /\ Retained(cmd[x])
        BY <2>5, <3>2 DEF PartitionsInv
      <4> QED  BY <2>2, <4>1 DEF Planned, Retained
    <3> QED  BY <3>1, <3>2
  <2> QED  BY <2>3, <2>6 DEF PartitionsInv
<1>5. CASE PlanRetention(o)
  <2> DEFINE gone == {p \in partitions : Destructive /\ EligibleForDrop(p, Cutoff(p.table, today))}
  <2>1. cmd'[o] = [kind |-> "retain", todo |-> gone] /\ \A x \in Operator \ {o} : cmd'[x] = cmd[x]
    BY <1>5, GoesTo DEF PlanRetention
  <2>2. \A p \in gone : EndOf(p) < today /\ EndOf(p) <= today - Kept(p.table)
    BY CutoffPast DEF DatabaseTypeOK
  <2> HIDE DEF gone
  <2>3. cmd'[o].kind = "retain" /\ cmd'[o].todo = gone
    BY <2>1
  <2>4. today' = today
    BY <1>5 DEF PlanRetention
  <2>5. Planned(cmd[o])' /\ Retained(cmd[o])'
    BY <2>2, <2>3, <2>4 DEF Planned, Retained
  <2> QED  BY <1>5, <2>1, <2>5, OtherCommand DEF PlanRetention
<1>6. CASE DropPartition(o)
  <2>1. cmd[o] \in Retaining /\ Retained(cmd[o]) /\ cmd[o].kind = "retain"
    BY <1>6, Kinds DEF DropPartition, PartitionsInv
  <2>2. PICK p \in cmd[o].todo :
          partitions' = partitions \ {p} /\ Goes(o, [cmd[o] EXCEPT !.todo = @ \ {p}])
    BY <1>6 DEF DropPartition
  <2>3. UNCHANGED <<today, until>>
    BY <1>6 DEF DropPartition
  <2>4. cmd'[o].kind = "retain" /\ cmd'[o].todo = cmd[o].todo \ {p}
        /\ \A x \in Operator \ {o} : cmd'[x] = cmd[x]
    BY <2>1, <2>2, GoesTo DEF Retaining
  <2>5. EndOf(p) < today
    BY <2>1 DEF Retained
  <2>6. \A t \in Tables, w \in Nat : today <= w => p # [table |-> t, from |-> StartOf(t, w)]
    BY <2>5, PastHoldsNothing
  <2>7. Covered'
    BY <2>2, <2>3, <2>6 DEF PartitionsInv, Covered, HasPartition
  <2>8. ASSUME NEW x \in Operator PROVE Planned(cmd[x])' /\ Retained(cmd[x])'
    <3>1. CASE x = o
      BY <2>1, <2>3, <2>4, <3>1 DEF Planned, Retained
    <3>2. CASE x # o
      <4>1. cmd'[x] = cmd[x] /\ Planned(cmd[x]) /\ Retained(cmd[x])
        BY <2>4, <3>2 DEF PartitionsInv
      <4>2. cmd[x].kind = "maintain" /\ cmd[x].end > 0 => cmd[x].table \in Tables
        BY <4>1 DEF Planned
      <4> QED  BY <2>2, <2>3, <2>6, <4>1, <4>2 DEF Planned, Retained
    <3> QED  BY <3>1, <3>2
  <2> QED  BY <2>7, <2>8 DEF PartitionsInv
<1>7. CASE MaintenanceDone(o)
  <2>1. cmd'[o].kind = "idle" /\ \A x \in Operator \ {o} : cmd'[x] = cmd[x]
    BY <1>7, EndsIn, Kinds DEF MaintenanceDone
  <2> QED  BY <1>7, <2>1, OtherCommand DEF MaintenanceDone, Planned, Retained
<1> QED  BY <1>1, <1>2, <1>3, <1>4, <1>5, <1>6, <1>7

\* The commands that know nothing of partitions.
Stays(o, kind) ==
  /\ cmd'[o].kind \in {kind, "idle"}
  /\ \A x \in Operator \ {o} : cmd'[x] = cmd[x]

LEMMA MigrateStays ==
  ASSUME DatabaseTypeOK, NEW o \in Operator,
         \/ StartMigrate(o) \/ Migrate(o) \/ MigratePartitions(o) \/ MigrateIndexes(o) \/ MigrateDone(o)
  PROVE  cmd' = cmd \/ Stays(o, "migrate")
<1>1. \A b : [kind |-> "migrate", building |-> b].kind = "migrate"
  OBVIOUS
<1>2. CASE StartMigrate(o)
  BY <1>1, <1>2, GoesTo DEF StartMigrate, Starts, Stays
<1>3. CASE Migrate(o) \/ MigratePartitions(o)
  BY <1>3 DEF Migrate, MigratePartitions
<1>4. CASE MigrateIndexes(o)
  <2>1. cmd[o] \in Migrating
    BY <1>4, Kinds DEF MigrateIndexes, Pending
  <2>2. \A b : [cmd[o] EXCEPT !.building = b].kind = "migrate"
    BY <2>1 DEF Migrating
  <2> QED  BY <1>4, <2>2, GoesTo DEF MigrateIndexes, Stays
<1>5. CASE MigrateDone(o)
  BY <1>5, EndsIn, Kinds DEF MigrateDone, Stays
<1> QED  BY <1>2, <1>3, <1>4, <1>5

LEMMA SeedStays ==
  ASSUME DatabaseTypeOK, NEW o \in Operator,
         StartSeed(o) \/ RunStep(o) \/ CommitSeed(o) \/ SeedMongo(o)
  PROVE  cmd' = cmd \/ Stays(o, "seed")
<1>1. \A profile, step, own : Seed(profile, step, own).kind = "seed"
  BY DEF Seed
<1>2. ASSUME NEW profile, NEW step, NEW own, Goes(o, Seed(profile, step, own)) PROVE Stays(o, "seed")
  BY <1>1, <1>2, GoesTo DEF Stays
<1>3. ASSUME NEW reason, Ends(o, reason) PROVE Stays(o, "seed")
  BY <1>3, EndsIn, Kinds DEF Stays
<1> QED  BY <1>2, <1>3, StepRuns DEF StartSeed, Starts, CommitSeed, SeedMongo

LEMMA BootstrapStays ==
  ASSUME DatabaseTypeOK, NEW o \in Operator,
         \/ StartBootstrap(o) \/ ReadCollectionInfo(o) \/ EnsureCollection(o) \/ EnsureIndexes(o)
         \/ BootstrapDone(o)
  PROVE  Stays(o, "bootstrap")
<1>1. CASE StartBootstrap(o)
  BY <1>1, GoesTo DEF StartBootstrap, Starts, Stays
<1>2. CASE ReadCollectionInfo(o)
  <2>1. PICK c \in cmd[o].todo :
          Goes(o, [kind |-> "bootstrap", stage |-> "collection", todo |-> cmd[o].todo \ {c},
                   at |-> c, existed |-> Exists(c)])
    BY <1>2, BootstrapSteps
  <2>2. cmd'[o].kind = "bootstrap" /\ \A x \in Operator \ {o} : cmd'[x] = cmd[x]
    BY <2>1, GoesTo
  <2> QED  BY <2>2 DEF Stays
<1>3. CASE EnsureCollection(o)
  <2>1. CASE ~cmd[o].existed /\ Exists(cmd[o].at)
    <3>1. Ends(o, "collection exists")
      BY <1>3, <2>1 DEF EnsureCollection
    <3> QED  BY <3>1, EndsIn, Kinds DEF Stays
  <2>2. CASE ~(~cmd[o].existed /\ Exists(cmd[o].at))
    <3>1. Goes(o, [kind |-> "bootstrap", stage |-> "indexes", todo |-> cmd[o].todo,
                   at |-> cmd[o].at, create |-> IndexesToCreate(cmd[o].at, cmd[o].existed)])
      BY <1>3, <2>2 DEF EnsureCollection
    <3>2. cmd'[o].kind = "bootstrap" /\ \A x \in Operator \ {o} : cmd'[x] = cmd[x]
      BY <3>1, GoesTo
    <3> QED  BY <3>2 DEF Stays
  <2> QED  BY <2>1, <2>2
<1>4. CASE EnsureIndexes(o)
  <2>1. cmd[o] \in [kind : {"bootstrap"}, stage : {"indexes"}, todo : SUBSET Collections,
                    at : Collections, create : SUBSET Index]
    BY <1>4, Kinds DEF EnsureIndexes, Bootstraps, Bootstrapping
  <2>2. CASE cmd[o].create = {}
    BY <1>4, <2>2, GoesTo DEF EnsureIndexes, Stays
  <2>3. CASE cmd[o].create # {}
    <3>1. PICK i \in cmd[o].create : Goes(o, [cmd[o] EXCEPT !.create = @ \ {i}])
      BY <1>4, <2>3, BootstrapSteps
    <3>2. cmd'[o] = [cmd[o] EXCEPT !.create = @ \ {i}] /\ \A x \in Operator \ {o} : cmd'[x] = cmd[x]
      BY <3>1, GoesTo
    <3>3. [cmd[o] EXCEPT !.create = @ \ {i}].kind = "bootstrap"
      BY <2>1
    <3> QED  BY <3>2, <3>3 DEF Stays
  <2> QED  BY <2>2, <2>3
<1>5. CASE BootstrapDone(o)
  <2>1. \E fact : Ends(o, fact)
    BY <1>5 DEF BootstrapDone
  <2> QED  BY <2>1, EndsIn, Kinds DEF Stays
<1> QED  BY <1>1, <1>2, <1>3, <1>4, <1>5

LEMMA OthersKeepPartitions ==
  ASSUME DatabaseTypeOK, PartitionsInv, NEW o \in Operator,
         cmd' = cmd \/ Stays(o, "migrate") \/ Stays(o, "seed") \/ Stays(o, "bootstrap"),
         UNCHANGED <<today, until>>, partitions \subseteq partitions'
  PROVE  PartitionsInv'
<1>1. Covered'
  BY DEF PartitionsInv, Covered, HasPartition
<1>2. CASE cmd' = cmd
  BY <1>1, <1>2 DEF PartitionsInv, Planned, Retained
<1>3. CASE Stays(o, "migrate") \/ Stays(o, "seed") \/ Stays(o, "bootstrap")
  <2>1. Planned(cmd[o])' /\ Retained(cmd[o])'
    BY <1>3 DEF Stays, Planned, Retained
  <2> QED  BY <1>3, <2>1, OtherCommand DEF Stays
<1> QED  BY <1>2, <1>3

LEMMA MigrationPlansPartitions ==
  ASSUME DatabaseTypeOK, PartitionsInv, NEW o \in Operator, MigratePartitions(o)
  PROVE  PartitionsInv'
<1>1. partitions' = partitions \cup BootstrapWindows /\ until' = BootstrapEnd /\ UNCHANGED <<today, cmd>>
  BY DEF MigratePartitions
<1>2. Covered'
  BY <1>1, MigrationCovers DEF Covered, HasPartition
<1>3. \A x \in Operator : Planned(cmd[x])' /\ Retained(cmd[x])'
  BY <1>1 DEF PartitionsInv, Planned, Retained
<1> QED  BY <1>2, <1>3 DEF PartitionsInv

LEMMA WeekKeepsPartitions ==
  ASSUME DatabaseTypeOK, PartitionsInv, WeekPasses
  PROVE  PartitionsInv'
<1>1. today' = today + 1 /\ today \in Nat /\ UNCHANGED <<partitions, until, cmd>>
  BY DEF WeekPasses, DatabaseTypeOK
<1>2. Covered'
  BY <1>1 DEF PartitionsInv, Covered, HasPartition
<1>3. ASSUME NEW x \in Operator PROVE Planned(cmd[x])'
  BY <1>1 DEF PartitionsInv, Planned
<1>4. ASSUME NEW x \in Operator PROVE Retained(cmd[x])'
  <2>1. SUFFICES ASSUME cmd[x].kind = "retain", NEW p \in cmd[x].todo
                 PROVE  EndOf(p) < today' /\ EndOf(p) <= today' - Kept(p.table)
    BY <1>1 DEF Retained
  <2>2. EndOf(p) < today /\ EndOf(p) <= today - Kept(p.table) /\ p \in Partition
    BY <2>1, Kinds DEF PartitionsInv, Retained, Retaining
  <2>3. EndOf(p) \in Int /\ Kept(p.table) \in Int
    BY <2>2, LengthPositive, DatabaseAssumption DEF EndOf, Kept, Partition
  <2> QED  BY <1>1, <2>2, <2>3
<1> QED  BY <1>2, <1>3, <1>4 DEF PartitionsInv
-----------------------------------------------------------------------------
(* Seeds.                                                                  *)

LEMMA MaintenanceStays ==
  ASSUME DatabaseTypeOK, NEW o \in Operator,
         \/ StartMaintenance(o) \/ PlanPartitions(o) \/ CreatePartition(o) \/ TableDone(o)
         \/ PlanRetention(o) \/ DropPartition(o) \/ MaintenanceDone(o)
  PROVE  Stays(o, "maintain") \/ Stays(o, "retain")
<1>1. \A m : Maintenance(m).kind = "maintain"
  BY DEF Maintenance
<1>2. ASSUME NEW c, Goes(o, c), c.kind \in {"maintain", "retain"}
      PROVE  Stays(o, "maintain") \/ Stays(o, "retain")
  BY <1>2, GoesTo DEF Stays
<1>3. ASSUME NEW reason, Ends(o, reason) PROVE Stays(o, "maintain")
  BY <1>3, EndsIn, Kinds DEF Stays
<1>4. cmd[o].kind = "maintain" =>
        \A d : [cmd[o] EXCEPT !.todo = d].kind = "maintain"
  BY Kinds DEF Maintaining
<1>5. cmd[o].kind = "retain" => \A d : [cmd[o] EXCEPT !.todo = d].kind = "retain"
  BY Kinds DEF Retaining
<1>6. \A a, b : [Maintenance(a) EXCEPT !.tables = b].kind = "maintain"
  BY DEF Maintenance
<1>7. CASE StartMaintenance(o)
  BY <1>1, <1>2, <1>7 DEF StartMaintenance, Starts
<1>8. CASE PlanPartitions(o)
  <2>1. cmd[o].kind = "maintain"
    BY <1>8 DEF PlanPartitions, NoParent, Maintains
  <2>2. CASE pg.applied < 2
    BY <1>3, <1>8, <2>2 DEF PlanPartitions, NoParent
  <2>3. CASE ~(pg.applied < 2)
    <3>1. \E d, a, t, w, e : Goes(o, [kind |-> "maintain", do |-> d, tables |-> a, table |-> t, todo |-> w, end |-> e])
      BY <1>8, <2>3 DEF PlanPartitions, NoParent
    <3> QED  BY <1>2, <3>1
  <2> QED  BY <2>2, <2>3
<1>9. CASE CreatePartition(o)
  <2>1. PICK p \in cmd[o].todo : Goes(o, [cmd[o] EXCEPT !.todo = @ \ {p}])
    BY <1>9 DEF CreatePartition
  <2>2. cmd[o].kind = "maintain"
    BY <1>9 DEF CreatePartition, Maintains
  <2> QED  BY <1>2, <1>4, <2>1, <2>2
<1>10. CASE TableDone(o)
  <2>1. CASE cmd[o].tables # {}
    BY <1>2, <1>6, <1>10, <2>1 DEF TableDone
  <2>2. CASE cmd[o].tables = {}
    BY <1>1, <1>2, <1>10, <2>2 DEF TableDone
  <2> QED  BY <2>1, <2>2
<1>11. CASE PlanRetention(o)
  BY <1>2, <1>11 DEF PlanRetention
<1>12. CASE DropPartition(o)
  <2>1. PICK p \in cmd[o].todo : Goes(o, [cmd[o] EXCEPT !.todo = @ \ {p}])
    BY <1>12 DEF DropPartition
  <2>2. cmd[o].kind = "retain"
    BY <1>12 DEF DropPartition
  <2> QED  BY <1>2, <1>5, <2>1, <2>2
<1>13. CASE MaintenanceDone(o)
  BY <1>3, <1>13 DEF MaintenanceDone
<1> QED  BY <1>7, <1>8, <1>9, <1>10, <1>11, <1>12, <1>13

\* A command that is not in a seed leaves what is known of the others'.
LEMMA OthersKeepSeeds ==
  ASSUME SeedInv, NEW o \in Operator, pg'.rows = pg.rows,
         \/ cmd' = cmd
         \/ cmd'[o].kind # "seed" /\ \A x \in Operator \ {o} : cmd'[x] = cmd[x]
  PROVE  SeedInv'
<1>1. ASSUME NEW x \in Operator, InSeed(x)' PROVE InSeed(x) /\ cmd'[x] = cmd[x]
  BY <1>1 DEF InSeed
<1>2. \A x \in Operator : InSeed(x)' => Seeded(cmd[x])' /\ DemoAsSeeded(cmd'[x].own)
  BY <1>1 DEF SeedInv, Seeded, Has
<1>3. DemoAsSeeded(pg'.rows)
  BY DEF SeedInv
<1> QED  BY <1>1, <1>2, <1>3 DEF SeedInv

\* The rows a step adds to the command's.
LEMMA StepAdds ==
  ASSUME NEW name \in Names, NEW own, NEW rows, DemoAsSeeded(rows), Agree(own, rows)
  PROVE  LET new == Over(Missing(KeysOf(name), Over(own, Visible(rows)), ValueOf(name)), own) IN
         /\ Agree(new, rows)
         /\ DemoAsSeeded(own) => DemoAsSeeded(new)
         /\ DOMAIN own \subseteq DOMAIN new
         /\ KeysOf(name) \subseteq DOMAIN new \cup DOMAIN rows
<1> DEFINE seen == Over(own, Visible(rows))
           new == Over(Missing(KeysOf(name), seen, ValueOf(name)), own)
<1>1. DOMAIN seen = DOMAIN own \cup DOMAIN Visible(rows)
  BY DEF Over
<1>2. DOMAIN Visible(rows) \subseteq DOMAIN rows /\ DOMAIN rows \subseteq DOMAIN Visible(rows) \cup Demo
  BY DEF Visible
<1> HIDE DEF seen
<1>3. DOMAIN new = (KeysOf(name) \ DOMAIN seen) \cup DOMAIN own
  BY DEF Over, Missing
<1>4. \A k \in DOMAIN own : new[k] = own[k]
  BY <1>1 DEF Over, Missing
<1>5. \A k \in KeysOf(name) \ DOMAIN seen : new[k] = ValueOf(name)
  BY DEF Over, Missing
<1>6. \A k \in KeysOf(name) \cap Demo : ValueOf(name) = "demo"
  BY DEF Names, KeysOf, ValueOf, Demo, Config
<1> HIDE DEF new
<1>7. Agree(new, rows)
  <2> SUFFICES ASSUME NEW k \in DOMAIN new \cap DOMAIN rows PROVE new[k] = rows[k]
    BY DEF Agree
  <2>1. CASE k \in DOMAIN own
    BY <1>4, <2>1 DEF Agree
  <2>2. CASE k \notin DOMAIN own
    <3>1. k \in KeysOf(name) \ DOMAIN seen
      BY <1>3, <2>2
    <3>2. k \in Demo
      BY <1>1, <1>2, <3>1
    <3>3. rows[k] = "demo"
      BY <3>2 DEF DemoAsSeeded
    <3> QED  BY <1>5, <1>6, <3>1, <3>2, <3>3
  <2> QED  BY <2>1, <2>2
<1>8. DemoAsSeeded(own) => DemoAsSeeded(new)
  BY <1>3, <1>4, <1>5, <1>6 DEF DemoAsSeeded
<1>9. DOMAIN own \subseteq DOMAIN new /\ KeysOf(name) \subseteq DOMAIN new \cup DOMAIN rows
  BY <1>1, <1>2, <1>3
<1> QED  BY <1>7, <1>8, <1>9 DEF new, seen

LEMMA SeedKeepsSeeds ==
  ASSUME DatabaseTypeOK, SeedInv, NEW o \in Operator,
         StartSeed(o) \/ RunStep(o) \/ CommitSeed(o) \/ SeedMongo(o)
  PROVE  SeedInv'
<1>1. ASSUME cmd'[o].kind # "seed", \A x \in Operator \ {o} : cmd'[x] = cmd[x], pg'.rows = pg.rows
      PROVE  SeedInv'
  BY <1>1, OthersKeepSeeds
<1>2. \A profile, step, own : /\ Seed(profile, step, own).kind = "seed" /\ Seed(profile, step, own).step = step
                              /\ Seed(profile, step, own).profile = profile /\ Seed(profile, step, own).own = own
  BY DEF Seed
\* The one that is in the seed after the step, and what it must be.
<1>3. ASSUME \A x \in Operator \ {o} : cmd'[x] = cmd[x] /\ ~InSeed(x), pg'.rows = pg.rows,
             Seeded(cmd[o])', DemoAsSeeded(cmd'[o].own)
      PROVE  SeedInv'
  <2>1. \A x \in Operator : InSeed(x)' => x = o
    BY <1>3 DEF InSeed
  <2> QED  BY <1>3, <2>1 DEF SeedInv
<1>4. CASE StartSeed(o)
  <2>1. pg' = pg
    BY <1>4 DEF StartSeed
  <2>2. CASE cmd' = cmd
    BY <2>1, <2>2, OthersKeepSeeds
  <2>3. CASE cmd' # cmd
    <3>1. PICK profile : Goes(o, Seed(profile, 1, <<>>)) /\ \A x \in Operator : ~InSeed(x)
      BY <1>4, <2>3 DEF StartSeed, Starts
    <3>2. cmd'[o].step = 1 /\ cmd'[o].own = <<>> /\ \A x \in Operator \ {o} : cmd'[x] = cmd[x]
      BY <1>2, <3>1, GoesTo
    <3>3. DOMAIN cmd'[o].own = {}
      BY <3>2
    <3>4. Seeded(cmd[o])' /\ DemoAsSeeded(cmd'[o].own)
      BY <3>2, <3>3 DEF Seeded, Agree, DemoAsSeeded
    <3> QED  BY <1>3, <2>1, <3>1, <3>2, <3>4
  <2> QED  BY <2>2, <2>3
<1>5. CASE RunStep(o)
  <2>1. cmd[o] \in Seeding /\ cmd[o].step <= Len(SeedSteps(cmd[o].profile)) /\ pg' = pg
        /\ cmd[o].kind = "seed"
    BY <1>5, StepRuns DEF RunStep
  <2>2. CASE \E reason \in Reasons : Ends(o, reason)
    BY <1>1, <2>1, <2>2, EndsIn, Kinds
  <2>3. CASE \E name \in Names :
               /\ name = SeedSteps(cmd[o].profile)[cmd[o].step]
               /\ Goes(o, Seed(cmd[o].profile, cmd[o].step + 1,
                    Over(Missing(KeysOf(name), Over(cmd[o].own, Visible(pg.rows)), ValueOf(name)), cmd[o].own)))
    <3>1. PICK name \in Names :
               /\ name = SeedSteps(cmd[o].profile)[cmd[o].step]
               /\ Goes(o, Seed(cmd[o].profile, cmd[o].step + 1,
                    Over(Missing(KeysOf(name), Over(cmd[o].own, Visible(pg.rows)), ValueOf(name)), cmd[o].own)))
      BY <2>3
    <3> DEFINE new == Over(Missing(KeysOf(name), Over(cmd[o].own, Visible(pg.rows)), ValueOf(name)), cmd[o].own)
    <3>2. /\ cmd[o].step \in Nat \ {0} /\ cmd[o].profile \in {"core", "development"}
          /\ Len(SeedSteps(cmd[o].profile)) \in Nat
      BY <2>1, SeedSizes
    <3>3. InSeed(o) /\ Seeded(cmd[o]) /\ DemoAsSeeded(cmd[o].own) /\ DemoAsSeeded(pg.rows)
          /\ \A x \in Operator \ {o} : ~InSeed(x)
      BY <2>1, <3>2 DEF SeedInv, InSeed
    <3>4. /\ Agree(new, pg.rows) /\ DemoAsSeeded(new) /\ DOMAIN cmd[o].own \subseteq DOMAIN new
          /\ KeysOf(name) \subseteq DOMAIN new \cup DOMAIN pg.rows
      BY <3>3, StepAdds DEF Seeded
    <3> HIDE DEF new
    <3>5. cmd'[o].step = cmd[o].step + 1 /\ cmd'[o].own = new /\ \A x \in Operator \ {o} : cmd'[x] = cmd[x]
      BY <1>2, <3>1, GoesTo DEF new
    <3>6. /\ cmd[o].step = 1 => KeysOf(name) = {"admin"}
          /\ cmd[o].step = 2 => KeysOf(name) = Config
          /\ cmd[o].step = 3 => KeysOf(name) = {"rule"}
      BY <3>1, <3>2, SeedOrder DEF KeysOf
    <3>7. Seeded(cmd[o])'
      <4>1. cmd[o].step = 1 \/ cmd[o].step = 2 \/ cmd[o].step = 3 \/ cmd[o].step > 3
        BY <3>2
      <4>2. \A k : Has(cmd[o], k) => Has(cmd[o], k)'
        BY <2>1, <3>4, <3>5 DEF Has
      <4>3. \A k \in KeysOf(name) : Has(cmd[o], k)'
        BY <2>1, <3>4, <3>5 DEF Has
      <4>4. Agree(cmd'[o].own, pg'.rows) /\ cmd'[o].step # 1
        BY <2>1, <3>2, <3>4, <3>5
      <4>5. CASE cmd[o].step = 1
        <5>1. cmd'[o].step = 2
          BY <3>5, <4>5
        <5> QED  BY <3>6, <4>3, <4>4, <4>5, <5>1 DEF Seeded
      <4>6. CASE cmd[o].step = 2
        <5>1. cmd'[o].step = 3
          BY <3>5, <4>6
        <5> QED  BY <3>3, <3>6, <4>2, <4>3, <4>4, <4>6, <5>1 DEF Seeded
      <4>7. CASE cmd[o].step = 3
        BY <3>3, <3>6, <4>2, <4>3, <4>4, <4>7 DEF Seeded
      <4>8. CASE cmd[o].step > 3
        <5>1. cmd[o].step > 1 /\ cmd[o].step > 2
          BY <3>2, <4>8
        <5> QED  BY <3>3, <4>2, <4>4, <4>8, <5>1 DEF Seeded
      <4> QED  BY <4>1, <4>5, <4>6, <4>7, <4>8
    <3> QED  BY <1>3, <2>1, <3>3, <3>4, <3>5, <3>7
  <2> QED  BY <1>5, <2>2, <2>3, StepRuns
<1>6. CASE CommitSeed(o)
  <2>1. cmd[o] \in Seeding /\ cmd[o].kind = "seed" /\ cmd[o].step = Len(SeedSteps(cmd[o].profile)) + 1
    BY <1>6, Kinds DEF CommitSeed
  <2>2. cmd[o].step \in Nat /\ Len(SeedSteps(cmd[o].profile)) \in Nat
    BY <2>1, SeedSizes
  <2>3. InSeed(o) /\ Seeded(cmd[o]) /\ DemoAsSeeded(cmd[o].own) /\ DemoAsSeeded(pg.rows)
        /\ \A x \in Operator \ {o} : ~InSeed(x)
    BY <2>1, <2>2 DEF SeedInv, InSeed
  <2>4. pg'.rows = Over(cmd[o].own, pg.rows)
    BY <1>6 DEF CommitSeed, CommittedRows, DatabaseTypeOK
  <2>5. DemoAsSeeded(pg'.rows)
    BY <2>3, <2>4 DEF DemoAsSeeded, Over
  <2>6. (\A x \in Operator \ {o} : cmd'[x] = cmd[x]) /\ ~InSeed(o)'
    <3>1. CASE cmd[o].profile = "core"
      BY <1>6, <3>1, EndsIn, Kinds DEF CommitSeed, InSeed
    <3>2. CASE cmd[o].profile # "core"
      <4>1. Goes(o, Seed(cmd[o].profile, cmd[o].step + 1, <<>>))
        BY <1>6, <3>2 DEF CommitSeed
      <4>2. cmd'[o].step = cmd[o].step + 1 /\ cmd'[o].profile = cmd[o].profile
            /\ \A x \in Operator \ {o} : cmd'[x] = cmd[x]
        BY <1>2, <4>1, GoesTo
      <4> QED  BY <2>1, <2>2, <4>2 DEF InSeed
    <3> QED  BY <3>1, <3>2
  <2>7. \A x \in Operator : ~InSeed(x)'
    BY <2>3, <2>6 DEF InSeed
  <2> QED  BY <2>5, <2>7 DEF SeedInv
<1>7. CASE SeedMongo(o)
  <2>1. pg' = pg
    BY <1>7 DEF SeedMongo
  <2>2. cmd' = cmd \/ Ends(o, "demo complete")
    BY <1>7 DEF SeedMongo
  <2> QED  BY <1>1, <2>1, <2>2, EndsIn, Kinds, OthersKeepSeeds
<1> QED  BY <1>4, <1>5, <1>6, <1>7

LEMMA AdministerKeepsSeeds ==
  ASSUME DatabaseTypeOK, SeedInv, Administer
  PROVE  SeedInv'
<1>1. PICK k \in {"admin", "k1", "rule"} \ Reserved, value \in Value :
        pg' = [pg EXCEPT !.rows = Over([x \in {k} |-> value], @)]
  BY ZenonT(30) DEF Administer, Value
<1>2. pg'.rows = Over([x \in {k} |-> value], pg.rows) /\ cmd' = cmd
  BY <1>1 DEF Administer, DatabaseTypeOK
<1>3. DOMAIN pg'.rows = DOMAIN pg.rows \cup {k} /\ \A x \in DOMAIN pg.rows \ {k} : pg'.rows[x] = pg.rows[x]
  BY <1>2 DEF Over
<1>4. k \notin Demo
  BY DEF Demo
<1>5. DemoAsSeeded(pg'.rows)
  BY <1>3, <1>4 DEF SeedInv, DemoAsSeeded
<1>6. \A o \in Operator : InSeed(o)' <=> InSeed(o)
  BY <1>2 DEF InSeed
<1>7. ASSUME NEW o \in Operator, InSeed(o) PROVE Seeded(cmd[o])'
  <2>1. k \notin DOMAIN cmd[o].own
    BY <1>7 DEF Reserved
  <2>2. Agree(cmd[o].own, pg'.rows)
    BY <1>3, <1>7, <2>1 DEF SeedInv, Seeded, Agree
  <2>3. \A x : Has(cmd[o], x) => Has(cmd[o], x)'
    BY <1>2, <1>3 DEF Has
  <2> QED  BY <1>2, <1>7, <2>2, <2>3 DEF SeedInv, Seeded
<1> QED  BY <1>2, <1>5, <1>6, <1>7 DEF SeedInv
-----------------------------------------------------------------------------
(* The bootstrap.                                                          *)

Grown ==
  \A c \in DOMAIN mongo.collections :
    c \in DOMAIN mongo'.collections /\ mongo.collections[c] \subseteq mongo'.collections[c]

LEMMA GrownKeeps ==
  ASSUME Grown, NEW c, Bootstrapped(c)
  PROVE  Bootstrapped(c)'
<1>1. \A x : Exists(x) => Exists(x)' /\ mongo.collections[x] \subseteq mongo'.collections[x]
  BY DEF Grown, Exists
<1>2. \A x : Ready(x) => Ready(x)'
  BY <1>1 DEF Ready
<1> QED  BY <1>1, <1>2 DEF Bootstrapped

LEMMA OthersKeepBootstrap ==
  ASSUME BootstrapInv, Grown, NEW o \in Operator,
         \/ cmd' = cmd
         \/ Bootstrapped(cmd[o])' /\ \A x \in Operator \ {o} : cmd'[x] = cmd[x]
  PROVE  BootstrapInv'
<1>1. ASSUME NEW x \in Operator, cmd'[x] = cmd[x] PROVE Bootstrapped(cmd[x])'
  <2>1. Bootstrapped(cmd[x])
    BY DEF BootstrapInv
  <2> DEFINE c == cmd[x]
  <2>2. Bootstrapped(c)
    BY <2>1
  <2> QED  BY <1>1, <2>2, GrownKeeps DEF Bootstrapped
<1> QED  BY <1>1 DEF BootstrapInv

LEMMA BootstrapKeepsBootstrap ==
  ASSUME DatabaseTypeOK, BootstrapInv, NEW o \in Operator,
         \/ StartBootstrap(o) \/ ReadCollectionInfo(o) \/ EnsureCollection(o) \/ EnsureIndexes(o)
         \/ BootstrapDone(o)
  PROVE  BootstrapInv' /\ Grown
<1>0. mongo \in [collections : Catalogs, demo : Nat] /\ Bootstrapped(cmd[o])
  BY DEF DatabaseTypeOK, BootstrapInv
<1>1. UNCHANGED mongo => Grown
  BY DEF Grown
<1>2. ASSUME NEW fact, Ends(o, fact), Grown PROVE BootstrapInv'
  <2>1. Bootstrapped(cmd[o])'
    BY <1>2, EndsIn, Kinds DEF Bootstrapped
  <2> QED  BY <1>2, <2>1, EndsIn, OthersKeepBootstrap
<1>3. CASE StartBootstrap(o)
  <2>1. cmd'[o] = [kind |-> "bootstrap", stage |-> "next", todo |-> Collections]
        /\ \A x \in Operator \ {o} : cmd'[x] = cmd[x]
    BY <1>3, GoesTo DEF StartBootstrap, Starts
  <2>2. cmd'[o].stage = "next" /\ cmd'[o].todo = Collections
    BY <2>1
  <2>3. Bootstrapped(cmd[o])'
    BY <2>2 DEF Bootstrapped
  <2> QED  BY <1>1, <1>3, <2>1, <2>3, OthersKeepBootstrap DEF StartBootstrap
<1>4. CASE ReadCollectionInfo(o)
  <2>1. UNCHANGED mongo /\ cmd[o].kind = "bootstrap" /\ cmd[o].stage = "next"
    BY <1>4 DEF ReadCollectionInfo, Bootstraps
  <2>2. PICK c \in cmd[o].todo :
          Goes(o, [kind |-> "bootstrap", stage |-> "collection", todo |-> cmd[o].todo \ {c},
                   at |-> c, existed |-> Exists(c)])
    BY <1>4, BootstrapSteps
  <2>3. /\ cmd'[o].stage = "collection" /\ cmd'[o].todo = cmd[o].todo \ {c} /\ cmd'[o].at = c
        /\ cmd'[o].existed = Exists(c) /\ \A x \in Operator \ {o} : cmd'[x] = cmd[x]
    BY <2>2, GoesTo
  <2>4. Bootstrapped(cmd[o])'
    BY <1>0, <2>1, <2>3 DEF Bootstrapped, Ready, Exists
  <2> QED  BY <1>1, <2>1, <2>3, <2>4, OthersKeepBootstrap
<1>5. CASE EnsureCollection(o)
  <2> DEFINE c == cmd[o].at
  <2>1. cmd[o].kind = "bootstrap" /\ cmd[o].stage = "collection"
    BY <1>5 DEF EnsureCollection, Bootstraps
  <2>2. CASE ~cmd[o].existed /\ Exists(c)
    BY <1>1, <1>2, <1>5, <2>2 DEF EnsureCollection
  <2>3. CASE ~(~cmd[o].existed /\ Exists(c))
    <3>1. mongo' = IF cmd[o].existed THEN mongo
                   ELSE [mongo EXCEPT !.collections = Over([x \in {c} |-> {}], @)]
      BY <1>5, <2>3 DEF EnsureCollection
    <3>2. cmd[o].existed => Exists(c)
      BY <1>0, <2>1 DEF Bootstrapped
    <3>3. Grown /\ c \in DOMAIN mongo'.collections
      <4>1. CASE cmd[o].existed
        BY <1>1, <3>1, <3>2, <4>1 DEF Exists
      <4>2. CASE ~cmd[o].existed
        <5>1. mongo'.collections = Over([x \in {c} |-> {}], mongo.collections) /\ c \notin DOMAIN mongo.collections
          BY <1>0, <2>3, <3>1, <4>2 DEF Exists
        <5> QED  BY <5>1 DEF Over, Grown, Exists
      <4> QED  BY <4>1, <4>2
    <3>4. Expected[c] \subseteq mongo'.collections[c] \cup IndexesToCreate(c, cmd[o].existed)
      <4>1. CASE cmd[o].existed
        BY <3>1, <4>1 DEF IndexesToCreate
      <4>2. CASE ~cmd[o].existed
        BY <4>2 DEF IndexesToCreate
      <4> QED  BY <4>1, <4>2
    <3>5. Goes(o, [kind |-> "bootstrap", stage |-> "indexes", todo |-> cmd[o].todo,
                   at |-> c, create |-> IndexesToCreate(c, cmd[o].existed)])
      BY <1>5, <2>3 DEF EnsureCollection
    <3> HIDE DEF c
    <3>6. /\ cmd'[o].stage = "indexes" /\ cmd'[o].todo = cmd[o].todo /\ cmd'[o].at = c
          /\ cmd'[o].create = IndexesToCreate(c, cmd[o].existed)
          /\ \A x \in Operator \ {o} : cmd'[x] = cmd[x]
      BY <3>5, GoesTo
    <3>7. \A x \in Collections \ cmd[o].todo : Ready(x)' \/ x = c
      <4>1. \A x \in Collections \ cmd[o].todo : Ready(x) \/ x = c
        BY <1>0, <2>1 DEF Bootstrapped, c
      <4> QED  BY <3>3, <4>1 DEF Grown, Ready, Exists
    <3>8. Bootstrapped(cmd[o])'
      BY <3>3, <3>4, <3>6, <3>7 DEF Bootstrapped, Exists
    <3> QED  BY <3>3, <3>6, <3>8, OthersKeepBootstrap
  <2> QED  BY <2>2, <2>3
<1>6. CASE EnsureIndexes(o)
  <2>1. /\ cmd[o] \in [kind : {"bootstrap"}, stage : {"indexes"}, todo : SUBSET Collections,
                       at : Collections, create : SUBSET Index]
        /\ cmd[o].kind = "bootstrap" /\ cmd[o].stage = "indexes"
    BY <1>6, Kinds DEF EnsureIndexes, Bootstraps, Bootstrapping
  <2>2. /\ Exists(cmd[o].at) /\ Expected[cmd[o].at] \subseteq mongo.collections[cmd[o].at] \cup cmd[o].create
        /\ \A x \in Collections \ cmd[o].todo : Ready(x) \/ x = cmd[o].at
    BY <1>0, <2>1 DEF Bootstrapped
  <2>3. CASE cmd[o].create = {}
    <3>1. UNCHANGED mongo /\ Goes(o, [kind |-> "bootstrap", stage |-> "next", todo |-> cmd[o].todo])
      BY <1>6, <2>3 DEF EnsureIndexes
    <3>2. cmd'[o].stage = "next" /\ cmd'[o].todo = cmd[o].todo /\ \A x \in Operator \ {o} : cmd'[x] = cmd[x]
      BY <3>1, GoesTo
    <3>3. \A x \in Collections \ cmd[o].todo : Ready(x)
      BY <2>2, <2>3 DEF Ready
    <3>4. Bootstrapped(cmd[o])'
      BY <3>1, <3>2, <3>3 DEF Bootstrapped, Ready, Exists
    <3> QED  BY <1>1, <3>1, <3>2, <3>4, OthersKeepBootstrap
  <2>4. CASE cmd[o].create # {}
    <3>1. PICK i \in cmd[o].create :
            /\ mongo' = [mongo EXCEPT !.collections[cmd[o].at] = @ \cup {i}]
            /\ Goes(o, [cmd[o] EXCEPT !.create = @ \ {i}])
      BY <1>6, <2>4, BootstrapSteps
    <3> DEFINE c == cmd[o].at
    <3>2. mongo'.collections = [mongo.collections EXCEPT ![c] = @ \cup {i}]
      BY <1>0, <3>1
    <3>3. c \in DOMAIN mongo.collections
      BY <2>2 DEF Exists
    <3>4. /\ DOMAIN mongo'.collections = DOMAIN mongo.collections
          /\ mongo'.collections[c] = mongo.collections[c] \cup {i}
          /\ \A x \in DOMAIN mongo.collections \ {c} : mongo'.collections[x] = mongo.collections[x]
      BY <3>2, <3>3
    <3>5. cmd'[o] = [cmd[o] EXCEPT !.create = @ \ {i}] /\ \A x \in Operator \ {o} : cmd'[x] = cmd[x]
      BY <3>1, GoesTo
    <3>6. cmd'[o].stage = "indexes" /\ cmd'[o].todo = cmd[o].todo /\ cmd'[o].at = c
          /\ cmd'[o].create = cmd[o].create \ {i}
      BY <2>1, <3>5
    <3> HIDE DEF c
    <3>7. Grown
      BY <3>3, <3>4 DEF Grown
    <3>8. c \in DOMAIN mongo'.collections /\ Expected[c] \subseteq mongo'.collections[c] \cup cmd'[o].create
      BY <2>2, <3>3, <3>4, <3>6 DEF Exists, c
    <3>9. \A x \in Collections \ cmd[o].todo : Ready(x)' \/ x = c
      BY <2>2, <3>4 DEF Ready, Exists, c
    <3>10. Bootstrapped(cmd[o])'
      BY <3>6, <3>8, <3>9 DEF Bootstrapped, Exists
    <3> QED  BY <3>5, <3>7, <3>10, OthersKeepBootstrap
  <2> QED  BY <2>3, <2>4
<1>7. CASE BootstrapDone(o)
  BY <1>1, <1>2, <1>7 DEF BootstrapDone
<1> QED  BY <1>3, <1>4, <1>5, <1>6, <1>7
-----------------------------------------------------------------------------
(* What has succeeded.                                                     *)

\* PostgreSQL goes on, too.
Advanced ==
  /\ pg.applied <= pg'.applied
  /\ pg'.applied = Migrated => pg'.index # Absent
  /\ \A k \in DOMAIN pg.rows : k \in DOMAIN pg'.rows

Successes == {"incomplete", "migrated", "seeded", "bootstrapped"}

LEMMA CompleteStays ==
  ASSUME DatabaseTypeOK', Grown, MongoComplete
  PROVE  MongoComplete'
<1>1. mongo'.collections \in Catalogs
  BY DEF DatabaseTypeOK
<1>2. DOMAIN mongo'.collections \subseteq Collections
  BY <1>1 DEF Catalogs
<1> QED  BY <1>2 DEF Grown, MongoComplete

LEMMA FactsStay ==
  ASSUME DatabaseTypeOK, DatabaseTypeOK', FactsInv, Grown, Advanced,
         "incomplete" \notin facts',
         "migrated" \in facts' => "migrated" \in facts \/ pg'.applied = Migrated,
         "seeded" \in facts' => "seeded" \in facts \/ {"admin", "rule"} \cup Config \subseteq DOMAIN pg'.rows,
         "bootstrapped" \in facts' => "bootstrapped" \in facts \/ MongoComplete
  PROVE  FactsInv'
<1>1. pg.applied \in 0..Migrated /\ pg'.applied \in 0..Migrated /\ Migrated \in Nat
  BY DEF DatabaseTypeOK, Migrated, Migrations
<1>2. "migrated" \in facts' => pg'.applied = Migrated
  BY <1>1 DEF FactsInv, Advanced
<1>3. "seeded" \in facts' => {"admin", "rule"} \cup Config \subseteq DOMAIN pg'.rows
  BY DEF FactsInv, Advanced
<1>4. "bootstrapped" \in facts' => MongoComplete'
  BY CompleteStays DEF FactsInv
<1> QED  BY <1>2, <1>3, <1>4 DEF FactsInv, Advanced

LEMMA SameStays ==
  ASSUME FactsInv, DatabaseTypeOK
  PROVE  /\ UNCHANGED mongo => Grown
         /\ pg'.applied = pg.applied /\ pg'.index = pg.index /\ DOMAIN pg.rows \subseteq DOMAIN pg'.rows
              => Advanced
<1>1. pg.applied \in 0..Migrated /\ Migrated \in Nat
  BY DEF DatabaseTypeOK, Migrated, Migrations
<1> QED  BY <1>1 DEF FactsInv, Advanced, Grown

LEMMA EndsWithout ==
  ASSUME DatabaseTypeOK, NEW o \in Operator, NEW fact, Ends(o, fact), fact \notin Successes
  PROVE  facts' \cap Successes = facts \cap Successes
BY EndsIn DEF Successes

LEMMA MaintenanceKeepsFacts ==
  ASSUME DatabaseTypeOK, DatabaseTypeOK', FactsInv, NEW o \in Operator,
         \/ StartMaintenance(o) \/ PlanPartitions(o) \/ CreatePartition(o) \/ TableDone(o)
         \/ PlanRetention(o) \/ DropPartition(o) \/ MaintenanceDone(o)
  PROVE  FactsInv'
<1>1. UNCHANGED <<pg, mongo>>
  BY DEF StartMaintenance, PlanPartitions, CreatePartition, TableDone, PlanRetention, DropPartition, MaintenanceDone
<1>2. facts' = facts \/ Ends(o, "no parent") \/ Ends(o, "maintained")
  BY DEF StartMaintenance, PlanPartitions, CreatePartition, TableDone, PlanRetention, DropPartition, MaintenanceDone
<1>3. facts' \cap Successes = facts \cap Successes
  BY <1>2, EndsWithout DEF Successes
<1> QED  BY <1>1, <1>3, SameStays, FactsStay DEF Successes, FactsInv

LEMMA MigrationKeepsFacts ==
  ASSUME DatabaseTypeOK, DatabaseTypeOK', FactsInv, NEW o \in Operator,
         \/ StartMigrate(o) \/ Migrate(o) \/ MigratePartitions(o) \/ MigrateIndexes(o) \/ MigrateDone(o)
  PROVE  FactsInv'
<1>1. UNCHANGED mongo
  BY DEF StartMigrate, Migrate, MigratePartitions, MigrateIndexes, MigrateDone
<1>2. pg.applied \in 0..Migrated /\ Migrated = 5
      /\ pg \in [applied : 0..Migrated, locked : BOOLEAN, index : {Absent, "invalid", "valid"}, rows : Rows]
  BY DEF DatabaseTypeOK, Migrated, Migrations
<1>3. CASE StartMigrate(o)
  <2>1. pg'.applied = pg.applied /\ pg'.index = pg.index /\ pg'.rows = pg.rows /\ facts' = facts
    BY <1>2, <1>3 DEF StartMigrate
  <2> QED  BY <1>1, <2>1, SameStays, FactsStay DEF FactsInv
<1>4. CASE Migrate(o) \/ MigratePartitions(o)
  <2>1. pg'.applied = pg.applied + 1 /\ pg'.index = pg.index /\ pg'.rows = pg.rows /\ facts' = facts
        /\ Pending(o) /\ NextMigration # "indexes"
    BY <1>2, <1>4 DEF Migrate, MigratePartitions
  <2>2. pg'.applied # Migrated
    <3> SUFFICES ASSUME pg'.applied = Migrated PROVE FALSE
      OBVIOUS
    <3>1. pg.applied + 1 = 5
      BY <1>2, <2>1
    <3>2. NextMigration = "indexes"
      BY <3>1 DEF NextMigration, Migrations
    <3> QED  BY <2>1, <3>2
  <2>3. Advanced
    BY <1>2, <2>1, <2>2 DEF Advanced
  <2> QED  BY <1>1, <2>1, <2>3, SameStays, FactsStay DEF FactsInv
<1>5. CASE MigrateIndexes(o)
  <2>1. pg'.rows = pg.rows /\ facts' = facts /\ Pending(o)
    BY <1>2, <1>5 DEF MigrateIndexes
  <2>2. Advanced
    <3>1. CASE pg.index = Absent
      <4>1. pg'.applied = pg.applied /\ pg'.index = "invalid"
        BY <1>2, <1>5, <3>1 DEF MigrateIndexes
      <4> QED  BY <1>2, <2>1, <4>1 DEF Advanced, Absent
    <3>2. CASE pg.index # Absent
      <4>1. pg'.applied = pg.applied + 1 /\ (pg'.index = "valid" \/ pg'.index = pg.index)
        BY <1>2, <1>5, <3>2 DEF MigrateIndexes
      <4> QED  BY <1>2, <2>1, <3>2, <4>1 DEF Advanced, Absent
    <3> QED  BY <3>1, <3>2
  <2> QED  BY <1>1, <2>1, <2>2, SameStays, FactsStay DEF FactsInv
<1>6. CASE MigrateDone(o)
  <2>1. pg'.applied = pg.applied /\ pg'.index = pg.index /\ pg'.rows = pg.rows /\ pg.applied = Migrated
    BY <1>2, <1>6 DEF MigrateDone
  <2>2. facts' \subseteq facts \cup {"migrated"}
    BY <1>6, EndsIn DEF MigrateDone
  <2> QED  BY <1>1, <2>1, <2>2, SameStays, FactsStay DEF FactsInv
<1> QED  BY <1>3, <1>4, <1>5, <1>6

LEMMA SeedKeepsFacts ==
  ASSUME DatabaseTypeOK, DatabaseTypeOK', FactsInv, SeedInv, NEW o \in Operator,
         StartSeed(o) \/ RunStep(o) \/ CommitSeed(o) \/ SeedMongo(o)
  PROVE  FactsInv'
<1>1. CASE StartSeed(o)
  <2>1. UNCHANGED <<pg, mongo, facts>>
    BY <1>1 DEF StartSeed
  <2> QED  BY <2>1, SameStays, FactsStay DEF FactsInv
<1>2. CASE RunStep(o)
  <2>1. UNCHANGED <<pg, mongo>>
    BY <1>2 DEF RunStep
  <2>2. facts' \cap Successes = facts \cap Successes
    <3>1. CASE \E reason \in Reasons : Ends(o, reason)
      BY <3>1, EndsWithout DEF Successes, Reasons
    <3> QED  BY <1>2, <3>1, StepRuns
  <2> QED  BY <2>1, <2>2, SameStays, FactsStay DEF FactsInv, Successes
<1>3. CASE CommitSeed(o)
  <2>1. cmd[o] \in Seeding /\ cmd[o].kind = "seed" /\ cmd[o].step = Len(SeedSteps(cmd[o].profile)) + 1
    BY <1>3, Kinds DEF CommitSeed
  <2>2. cmd[o].step > 1 /\ cmd[o].step > 2 /\ cmd[o].step > 3 /\ InSeed(o)
    <3>1. Len(SeedSteps(cmd[o].profile)) = IF cmd[o].profile = "development" THEN 4 ELSE 3
      BY <2>1, SeedSizes
    <3> QED  BY <2>1, <3>1 DEF InSeed
  <2>3. Seeded(cmd[o])
    BY <2>2 DEF SeedInv
  <2>4. pg' = [pg EXCEPT !.rows = Over(cmd[o].own, pg.rows)] /\ UNCHANGED mongo
    BY <1>3 DEF CommitSeed, CommittedRows
  <2>5. pg'.rows = Over(cmd[o].own, pg.rows) /\ pg'.applied = pg.applied /\ pg'.index = pg.index
    BY <2>4 DEF DatabaseTypeOK
  <2>6. DOMAIN pg'.rows = DOMAIN cmd[o].own \cup DOMAIN pg.rows
    BY <2>5 DEF Over
  <2>7. {"admin", "rule"} \cup Config \subseteq DOMAIN pg'.rows
    BY <2>2, <2>3, <2>6 DEF Seeded, Has
  <2>8. facts' \subseteq facts \cup {"seeded", "demo"}
    <3>1. CASE cmd[o].profile = "core"
      BY <1>3, <3>1, EndsIn DEF CommitSeed
    <3>2. CASE cmd[o].profile # "core"
      BY <1>3, <3>2 DEF CommitSeed
    <3> QED  BY <3>1, <3>2
  <2> QED  BY <2>4, <2>5, <2>6, <2>7, <2>8, SameStays, FactsStay DEF FactsInv
<1>4. CASE SeedMongo(o)
  <2>1. pg' = pg /\ (mongo' = mongo \/ mongo' = [mongo EXCEPT !.demo = @ + 1])
    BY <1>4 DEF SeedMongo
  <2>2. mongo'.collections = mongo.collections
    BY <2>1 DEF DatabaseTypeOK
  <2>3. facts' = facts \/ Ends(o, "demo complete")
    BY <1>4 DEF SeedMongo
  <2>4. facts' \cap Successes = facts \cap Successes
    BY <2>3, EndsWithout DEF Successes
  <2>5. Grown
    BY <2>2 DEF Grown
  <2> QED  BY <2>1, <2>4, <2>5, SameStays, FactsStay DEF FactsInv, Successes
<1> QED  BY <1>1, <1>2, <1>3, <1>4

LEMMA BootstrapKeepsFacts ==
  ASSUME DatabaseTypeOK, DatabaseTypeOK', FactsInv, BootstrapInv, NEW o \in Operator,
         \/ StartBootstrap(o) \/ ReadCollectionInfo(o) \/ EnsureCollection(o) \/ EnsureIndexes(o)
         \/ BootstrapDone(o)
  PROVE  FactsInv'
<1>1. pg' = pg
  BY DEF StartBootstrap, ReadCollectionInfo, EnsureCollection, EnsureIndexes, BootstrapDone
<1>2. Grown /\ Advanced
  BY <1>1, BootstrapKeepsBootstrap, SameStays
<1>3. CASE BootstrapDone(o)
  <2>1. MongoComplete
    <3>1. cmd[o].kind = "bootstrap" /\ cmd[o].stage = "next" /\ cmd[o].todo = {}
      BY <1>3 DEF BootstrapDone, Bootstraps
    <3>2. \A c \in Collections : Ready(c)
      BY <3>1 DEF BootstrapInv, Bootstrapped
    <3>3. mongo.collections \in Catalogs
      BY DEF DatabaseTypeOK
    <3>4. DOMAIN mongo.collections \subseteq Collections
      BY <3>3 DEF Catalogs
    <3> QED  BY <3>2, <3>4 DEF Ready, Exists, MongoComplete
  <2>2. Ends(o, "bootstrapped")
    BY <1>3, <2>1 DEF BootstrapDone
  <2>3. facts' \subseteq facts \cup {"bootstrapped"}
    BY <2>2, EndsIn
  <2> QED  BY <1>1, <1>2, <2>1, <2>3, FactsStay DEF FactsInv
<1>4. CASE ~BootstrapDone(o)
  <2>1. facts' = facts \/ Ends(o, "collection exists")
    BY <1>4 DEF StartBootstrap, ReadCollectionInfo, EnsureCollection, EnsureIndexes
  <2>2. facts' \cap Successes = facts \cap Successes
    BY <2>1, EndsWithout DEF Successes
  <2> QED  BY <1>2, <2>2, FactsStay DEF FactsInv, Successes
<1> QED  BY <1>3, <1>4
-----------------------------------------------------------------------------
(* Every step keeps the invariant.                                         *)

LEMMA DatabaseInitially ==
  ASSUME DatabaseInit
  PROVE  DatabaseInv
<1>1. today = FirstWeek /\ today \in Nat /\ cmd = [o \in Operator |-> Idle] /\ pg.rows = <<>> /\ pg.locked = FALSE
  BY DatabaseAssumption DEF DatabaseInit
<1>2. \A o \in Operator : cmd[o] = Idle /\ cmd[o].kind = "idle"
  BY <1>1 DEF Idle
<1>3. \/ /\ pg = [applied |-> 0, locked |-> FALSE, index |-> Absent, rows |-> <<>>]
         /\ partitions = {} /\ until = [t \in Tables |-> 0]
         /\ mongo = [collections |-> <<>>, demo |-> 0] /\ facts = {}
      \/ /\ pg = [applied |-> Migrated, locked |-> FALSE, index |-> "valid", rows |-> <<>>]
         /\ partitions = BootstrapWindows /\ until = BootstrapEnd
         /\ \E c \in Collections : mongo = [collections |-> [x \in {c} |-> {}], demo |-> 0]
         /\ facts = {"migrated"}
  BY DEF DatabaseInit
<1>4. Migrated \in Nat \ {0}
  BY DEF Migrated, Migrations
<1>5. DatabaseTypeOK
  <2>1. pg \in [applied : 0..Migrated, locked : BOOLEAN, index : {Absent, "invalid", "valid"}, rows : Rows]
    <3>1. 0 \in 0..Migrated /\ Migrated \in 0..Migrated
      BY <1>4
    <3>2. CASE pg = [applied |-> 0, locked |-> FALSE, index |-> Absent, rows |-> <<>>]
      BY <3>1, <3>2, NoRows
    <3>3. CASE pg = [applied |-> Migrated, locked |-> FALSE, index |-> "valid", rows |-> <<>>]
      BY <3>1, <3>3, NoRows
    <3> QED  BY <1>3, <3>2, <3>3
  <2>2. partitions \subseteq Partition /\ until \in [Tables -> Int]
    BY <1>1, <1>3, BootstrapTyped
  <2>3. mongo \in [collections : Catalogs, demo : Nat]
    <3>1. <<>> \in [{} -> SUBSET Index]
      BY DOMAIN <<>> = {}
    <3>2. <<>> \in Catalogs
      BY <3>1 DEF Catalogs
    <3>3. ASSUME NEW c \in Collections PROVE [x \in {c} |-> {}] \in [{c} -> SUBSET Index]
      <4> DEFINE f == [x \in {c} |-> {}]
      <4>1. DOMAIN f = {c} /\ \A x \in {c} : f[x] \in SUBSET Index
        OBVIOUS
      <4> QED  BY <4>1, Zenon
    <3>4. ASSUME NEW c \in Collections PROVE [x \in {c} |-> {}] \in Catalogs
      <4> DEFINE f == [x \in {c} |-> {}]
                 fs == [{c} -> SUBSET Index]
      <4>1. f \in fs
        BY <3>3
      <4>2. fs \in {[C -> SUBSET Index] : C \in SUBSET Collections}
        OBVIOUS
      <4> HIDE DEF f, fs
      <4>3. f \in Catalogs
        BY <4>1, <4>2 DEF Catalogs
      <4> QED  BY <4>3 DEF f
    <3>5. CASE mongo = [collections |-> <<>>, demo |-> 0]
      BY <3>2, <3>5
    <3>6. ASSUME NEW c \in Collections, mongo = [collections |-> [x \in {c} |-> {}], demo |-> 0]
          PROVE  mongo \in [collections : Catalogs, demo : Nat]
      <4> DEFINE f == [x \in {c} |-> {}]
      <4>1. f \in Catalogs
        BY <3>4
      <4> HIDE DEF f
      <4>2. mongo = [collections |-> f, demo |-> 0]
        BY <3>6 DEF f
      <4> QED  BY <4>1, <4>2
    <3> QED  BY <1>3, <3>5, <3>6
  <2>4. cmd \in [Operator -> Commands] /\ facts \subseteq Recorded
    BY <1>1, <1>3 DEF Commands, Recorded
  <2> QED  BY <1>1, <2>1, <2>2, <2>3, <2>4 DEF DatabaseTypeOK
<1>6. PartitionsInv
  <2>1. Covered
    <3>1. CASE until = [t \in Tables |-> 0]
      BY <1>1, <3>1 DEF Covered
    <3>2. CASE until = BootstrapEnd /\ partitions = BootstrapWindows
      BY <1>5, <3>2, MigrationCovers DEF Covered, HasPartition
    <3> QED  BY <1>3, <3>1, <3>2
  <2> QED  BY <1>2, <2>1 DEF PartitionsInv, Planned, Retained
<1>7. SeedInv
  <2>1. DOMAIN pg.rows = {}
    BY <1>1
  <2> QED  BY <1>2, <2>1 DEF SeedInv, InSeed, DemoAsSeeded
<1>8. BootstrapInv
  BY <1>2 DEF BootstrapInv, Bootstrapped
<1>9. FactsInv
  BY <1>3, <1>4 DEF FactsInv, Absent
<1> QED  BY <1>5, <1>6, <1>7, <1>8, <1>9 DEF DatabaseInv

LEMMA DatabaseSteps ==
  ASSUME DatabaseInv, [DatabaseNext]_databaseVars
  PROVE  DatabaseInv'
<1> USE DEF DatabaseInv
<1>1. ASSUME NEW o \in Operator,
             \/ StartMaintenance(o) \/ PlanPartitions(o) \/ CreatePartition(o) \/ TableDone(o)
             \/ PlanRetention(o) \/ DropPartition(o) \/ MaintenanceDone(o)
      PROVE  DatabaseInv'
  <2>1. UNCHANGED <<pg, mongo>>
    BY <1>1 DEF StartMaintenance, PlanPartitions, CreatePartition, TableDone, PlanRetention, DropPartition, MaintenanceDone
  <2>2. Stays(o, "maintain") \/ Stays(o, "retain")
    BY <1>1, MaintenanceStays
  <2>3. BootstrapInv'
    <3>1. Bootstrapped(cmd[o])' /\ Grown
      BY <2>1, <2>2, SameStays DEF Stays, Bootstrapped
    <3> QED  BY <2>2, <3>1, OthersKeepBootstrap DEF Stays
  <2>4. SeedInv'
    BY <2>1, <2>2, OthersKeepSeeds DEF Stays
  <2>5. DatabaseTypeOK' /\ PartitionsInv'
    BY <1>1, MaintenanceKeepsTypes, MaintenanceKeepsPartitions
  <2> QED  BY <1>1, <2>3, <2>4, <2>5, MaintenanceKeepsFacts
<1>2. ASSUME NEW o \in Operator,
             \/ StartMigrate(o) \/ Migrate(o) \/ MigratePartitions(o) \/ MigrateIndexes(o) \/ MigrateDone(o)
      PROVE  DatabaseInv'
  <2>1. UNCHANGED mongo /\ today' = today
    BY <1>2 DEF StartMigrate, Migrate, MigratePartitions, MigrateIndexes, MigrateDone
  <2>2. cmd' = cmd \/ Stays(o, "migrate")
    BY <1>2, MigrateStays
  <2>3. pg'.rows = pg.rows
    BY <1>2 DEF StartMigrate, Migrate, MigratePartitions, MigrateIndexes, MigrateDone, DatabaseTypeOK
  <2>4. BootstrapInv'
    <3>1. Grown
      BY <2>1, SameStays
    <3>2. \/ cmd' = cmd
          \/ Bootstrapped(cmd[o])' /\ \A x \in Operator \ {o} : cmd'[x] = cmd[x]
      BY <2>2 DEF Stays, Bootstrapped
    <3> QED  BY <3>1, <3>2, OthersKeepBootstrap
  <2>5. SeedInv'
    BY <2>2, <2>3, OthersKeepSeeds DEF Stays
  <2>6. PartitionsInv'
    <3>1. CASE MigratePartitions(o)
      BY <3>1, MigrationPlansPartitions
    <3>2. CASE ~MigratePartitions(o)
      <4>1. UNCHANGED <<until, partitions>>
        BY <1>2, <3>2 DEF StartMigrate, Migrate, MigrateIndexes, MigrateDone
      <4> QED  BY <2>1, <2>2, <4>1, OthersKeepPartitions
    <3> QED  BY <3>1, <3>2
  <2>7. DatabaseTypeOK'
    BY <1>2, MigrationKeepsTypes
  <2> QED  BY <1>2, <2>4, <2>5, <2>6, <2>7, MigrationKeepsFacts
<1>3. ASSUME NEW o \in Operator, StartSeed(o) \/ RunStep(o) \/ CommitSeed(o) \/ SeedMongo(o)
      PROVE  DatabaseInv'
  <2>1. UNCHANGED <<today, until, partitions>>
    BY <1>3 DEF StartSeed, RunStep, CommitSeed, SeedMongo
  <2>2. cmd' = cmd \/ Stays(o, "seed")
    BY <1>3, SeedStays
  <2>3. mongo'.collections = mongo.collections
    BY <1>3 DEF StartSeed, RunStep, CommitSeed, SeedMongo, DatabaseTypeOK
  <2>4. BootstrapInv'
    <3>1. Grown
      BY <2>3 DEF Grown
    <3>2. \/ cmd' = cmd
          \/ Bootstrapped(cmd[o])' /\ \A x \in Operator \ {o} : cmd'[x] = cmd[x]
      BY <2>2 DEF Stays, Bootstrapped
    <3> QED  BY <3>1, <3>2, OthersKeepBootstrap
  <2>5. PartitionsInv'
    BY <2>1, <2>2, OthersKeepPartitions
  <2>6. DatabaseTypeOK' /\ SeedInv'
    BY <1>3, SeedKeepsTypes, SeedKeepsSeeds
  <2> QED  BY <1>3, <2>4, <2>5, <2>6, SeedKeepsFacts
<1>4. ASSUME NEW o \in Operator,
             \/ StartBootstrap(o) \/ ReadCollectionInfo(o) \/ EnsureCollection(o) \/ EnsureIndexes(o)
             \/ BootstrapDone(o)
      PROVE  DatabaseInv'
  <2>1. UNCHANGED <<today, pg, until, partitions>>
    BY <1>4 DEF StartBootstrap, ReadCollectionInfo, EnsureCollection, EnsureIndexes, BootstrapDone
  <2>2. Stays(o, "bootstrap")
    BY <1>4, BootstrapStays
  <2>3. PartitionsInv' /\ SeedInv'
    BY <2>1, <2>2, OthersKeepPartitions, OthersKeepSeeds DEF Stays
  <2>4. DatabaseTypeOK' /\ BootstrapInv'
    BY <1>4, BootstrapKeepsTypes, BootstrapKeepsBootstrap
  <2> QED  BY <1>4, <2>3, <2>4, BootstrapKeepsFacts
<1>5. ASSUME NEW o \in Operator, Crash(o) PROVE DatabaseInv'
  <2>1. UNCHANGED <<today, pg, until, partitions, mongo, facts>> /\ Goes(o, Idle)
    BY <1>5 DEF Crash
  <2>2. cmd'[o] = Idle /\ cmd'[o].kind = "idle" /\ cmd' \in [Operator -> Commands]
        /\ \A x \in Operator \ {o} : cmd'[x] = cmd[x]
    BY <2>1, GoesTo, Kinds DEF Commands
  <2>3. Stays(o, "seed") /\ Bootstrapped(cmd[o])' /\ Grown /\ Advanced
    BY <2>1, <2>2, SameStays DEF Stays, Bootstrapped
  <2>4. DatabaseTypeOK'
    BY <2>1, <2>2 DEF DatabaseTypeOK
  <2>5. PartitionsInv' /\ SeedInv' /\ BootstrapInv'
    BY <2>1, <2>2, <2>3, OthersKeepPartitions, OthersKeepSeeds, OthersKeepBootstrap
  <2> QED  BY <2>1, <2>3, <2>4, <2>5, FactsStay DEF FactsInv
<1>6. CASE Administer
  <2>1. UNCHANGED <<today, until, partitions, mongo, cmd, facts>>
    BY <1>6 DEF Administer
  <2>2. DatabaseTypeOK' /\ SeedInv'
    BY <1>6, AdministerKeepsTypes, AdministerKeepsSeeds
  <2>3. PartitionsInv' /\ BootstrapInv' /\ Grown
    BY <2>1 DEF PartitionsInv, Covered, HasPartition, Planned, Retained, BootstrapInv, Bootstrapped,
                Ready, Exists, Grown
  <2>4. Advanced
    <3>1. PICK k \in {"admin", "k1", "rule"} \ Reserved, value \in Value :
            pg' = [pg EXCEPT !.rows = Over([x \in {k} |-> value], @)]
      BY <1>6, ZenonT(30) DEF Administer, Value
    <3>2. pg'.applied = pg.applied /\ pg'.index = pg.index /\ pg'.rows = Over([x \in {k} |-> value], pg.rows)
      BY <3>1 DEF DatabaseTypeOK
    <3>3. DOMAIN pg.rows \subseteq DOMAIN pg'.rows
      BY <3>2 DEF Over
    <3> QED  BY <3>2, <3>3, SameStays
  <2> QED  BY <2>1, <2>2, <2>3, <2>4, FactsStay DEF FactsInv
<1>7. CASE WeekPasses \/ UNCHANGED databaseVars
  <2>1. UNCHANGED <<pg, partitions, until, mongo, cmd, facts>> /\ today' \in Nat
    BY <1>7 DEF WeekPasses, databaseVars, DatabaseTypeOK
  <2>2. DatabaseTypeOK' /\ BootstrapInv' /\ FactsInv'
    BY <2>1 DEF DatabaseTypeOK, BootstrapInv, Bootstrapped, Ready, Exists, FactsInv, MongoComplete
  <2>3. SeedInv'
    BY <2>1 DEF SeedInv, InSeed, Seeded, Has
  <2>4. CASE WeekPasses
    BY <2>2, <2>3, <2>4, WeekKeepsPartitions
  <2>5. CASE UNCHANGED databaseVars
    BY <2>2, <2>3, <2>5 DEF databaseVars, PartitionsInv, Covered, HasPartition, Planned, Retained
  <2> QED  BY <1>7, <2>4, <2>5
<1> QED  BY <1>1, <1>2, <1>3, <1>4, <1>5, <1>6, <1>7 DEF DatabaseNext

\* However the commands of several operators interleave, die and are run again, each
\* stays in the relation to the databases that its statements rely on.
THEOREM DatabaseSound == DatabaseSpec => []DatabaseInv
<1> QED  BY DatabaseInitially, DatabaseSteps, PTL DEF DatabaseSpec

\* The migrations, runPostgresMaintenance and retention: a row dated today, or any
\* week from today to the end of what they created, has its partition.
THEOREM PartitionsAlwaysCover == DatabaseSpec => []PartitionsCover
<1>1. DatabaseInv => PartitionsCover
  BY DEF DatabaseInv, DatabaseTypeOK, PartitionsInv, Covered, PartitionsCover
<1> QED  BY <1>1, DatabaseSound, PTL

\* Once migrations, seeds and runMongoDbBootstrap have each succeeded, verification
\* accepts the databases, whatever was half done before them or ran beside them.
THEOREM SetupAlwaysAccepted == DatabaseSpec => []SetupAccepted
<1>1. VerifyRedis <=> Server.answers
  BY DEF VerifyRedis, ServerVersion, RuntimeConfig, Probes
<1>2. ASSUME DatabaseInv, {"migrated", "seeded", "bootstrapped"} \subseteq facts, pg.rows["admin"] = "active"
      PROVE  VerifyPostgres /\ MongoComplete
  BY <1>2 DEF DatabaseInv, FactsInv, VerifyPostgres, SchemaVerified, IndexesVerified, SeedsVerified, Holds
<1>3. DatabaseInv => SetupAccepted
  BY <1>1, <1>2 DEF SetupAccepted, Verified, VerifyMongo, DatabaseInv, FactsInv
<1> QED  BY <1>3, DatabaseSound, PTL

LEMMA StepsTakeNothing ==
  ASSUME DatabaseInv, [DatabaseNext]_databaseVars
  PROVE  /\ \A p \in partitions \ partitions' :
              EndOf(p) <= today - (IF p.table = "audit_logs" THEN MonthsKept * MonthWeeks ELSE WeeksKept)
         /\ cmd' # cmd => \A k \in DOMAIN pg.rows : pg'.rows[k] = pg.rows[k]
<1>1. ASSUME NEW p \in partitions \ partitions'
      PROVE  EndOf(p) <= today - (IF p.table = "audit_logs" THEN MonthsKept * MonthWeeks ELSE WeeksKept)
  <2>1. PICK o \in Operator : DropPartition(o)
    BY <1>1, ZenonT(30) DEF DatabaseNext, databaseVars, WeekPasses, Administer, StartMaintenance, PlanPartitions,
                CreatePartition, TableDone, PlanRetention, MaintenanceDone, StartMigrate, Migrate,
                MigratePartitions, MigrateIndexes, MigrateDone, StartSeed, RunStep, CommitSeed,
                SeedMongo, StartBootstrap, ReadCollectionInfo, EnsureCollection, EnsureIndexes,
                BootstrapDone, Crash
  <2>2. PICK q \in cmd[o].todo : partitions' = partitions \ {q}
    BY <2>1 DEF DropPartition
  <2>3. p = q /\ cmd[o].kind = "retain"
    BY <1>1, <2>1, <2>2 DEF DropPartition
  <2> QED  BY <2>2, <2>3 DEF DatabaseInv, PartitionsInv, Retained, Kept
<1>2. ASSUME cmd' # cmd, NEW k \in DOMAIN pg.rows PROVE pg'.rows[k] = pg.rows[k]
  <2>1. CASE \E o \in Operator : CommitSeed(o)
    <3>1. PICK o \in Operator : CommitSeed(o)
      BY <2>1
    <3>2. cmd[o] \in Seeding /\ cmd[o].kind = "seed" /\ cmd[o].step = Len(SeedSteps(cmd[o].profile)) + 1
      BY <3>1, Kinds DEF CommitSeed, DatabaseInv
    <3>3. InSeed(o)
      BY <3>2, SeedSizes DEF InSeed
    <3>4. Agree(cmd[o].own, pg.rows)
      BY <3>3 DEF DatabaseInv, SeedInv, Seeded
    <3>5. pg'.rows = Over(cmd[o].own, pg.rows)
      BY <3>1 DEF CommitSeed, CommittedRows, DatabaseInv, DatabaseTypeOK
    <3> QED  BY <3>4, <3>5 DEF Over, Agree
  <2>2. CASE ~(\E o \in Operator : CommitSeed(o))
    <3>1. pg \in [applied : 0..Migrated, locked : BOOLEAN, index : {Absent, "invalid", "valid"}, rows : Rows]
      BY DEF DatabaseInv, DatabaseTypeOK
    <3>2. pg' = pg \/ \E o \in Operator : StartMigrate(o) \/ Migrate(o) \/ MigratePartitions(o)
                                           \/ MigrateIndexes(o) \/ MigrateDone(o)
      <4>1. CASE \E o \in Operator : StartMigrate(o) \/ Migrate(o) \/ MigratePartitions(o)
                                       \/ MigrateIndexes(o) \/ MigrateDone(o)
        BY <4>1, Zenon
      <4>2. CASE \E o \in Operator :
                   \/ StartMaintenance(o) \/ PlanPartitions(o) \/ CreatePartition(o) \/ TableDone(o)
                   \/ PlanRetention(o) \/ DropPartition(o) \/ MaintenanceDone(o)
        <5>1. pg' = pg
          BY <4>2, Zenon DEF StartMaintenance, PlanPartitions, CreatePartition, TableDone, PlanRetention,
                             DropPartition, MaintenanceDone
        <5> QED  BY <5>1, Zenon
      <4>3. CASE \E o \in Operator : StartSeed(o) \/ RunStep(o) \/ SeedMongo(o)
        <5>1. pg' = pg
          BY <4>3, Zenon DEF StartSeed, RunStep, SeedMongo
        <5> QED  BY <5>1, Zenon
      <4>4. CASE \E o \in Operator :
                   \/ StartBootstrap(o) \/ ReadCollectionInfo(o) \/ EnsureCollection(o) \/ EnsureIndexes(o)
                   \/ BootstrapDone(o) \/ Crash(o)
        <5>1. pg' = pg
          BY <4>4, Zenon DEF StartBootstrap, ReadCollectionInfo, EnsureCollection, EnsureIndexes,
                             BootstrapDone, Crash
        <5> QED  BY <5>1, Zenon
      <4>5. WeekPasses \/ Administer \/ UNCHANGED databaseVars => cmd' = cmd
        BY Zenon DEF WeekPasses, Administer, databaseVars
      <4> QED  BY <1>2, <2>2, <4>1, <4>2, <4>3, <4>4, <4>5, Zenon DEF DatabaseNext
    <3>3. pg'.rows = pg.rows
      BY <3>1, <3>2 DEF StartMigrate, Migrate, MigratePartitions, MigrateIndexes, MigrateDone
    <3> QED  BY <3>3
  <2> QED  BY <2>1, <2>2
<1> QED  BY <1>1, <1>2

\* dropPartition takes only what is past its retention period, and no seed that
\* commits changes a row that an administrator, or an earlier seed, has left there.
THEOREM NothingEverTakenAway == DatabaseSpec => NothingTakenAway
<1>1. DatabaseInv /\ [DatabaseNext]_databaseVars =>
        [/\ \A p \in partitions \ partitions' :
              EndOf(p) <= today - (IF p.table = "audit_logs" THEN MonthsKept * MonthWeeks ELSE WeeksKept)
         /\ cmd' # cmd => \A k \in DOMAIN pg.rows : pg'.rows[k] = pg.rows[k]]_databaseVars
  BY StepsTakeNothing
<1> QED  BY <1>1, DatabaseSound, PTL DEF DatabaseSpec, NothingTakenAway
-----------------------------------------------------------------------------
(* Incidents: what a consistent database of them is.                       *)

Entity == UNION {Entities[a] : a \in Alert}
Kind == {"INCIDENT_CREATED", "INCIDENT_UPDATED", "INCIDENT_STATUS_CHANGED"}
Owner == User \cup {None}
Incident ==
  [status : Status, primary : Entity, entities : SUBSET Entity, alerts : Nat, events : Nat,
   first : Int, last : Int, created : Int, assignee : Owner, resolvedAt : BOOLEAN, closedAt : BOOLEAN]
Journals ==
  [alerts : Seq(Nat \X Nat), status : Seq(Status \X Status), assignee : Seq(Owner \X Owner), notes : Nat]
Databases ==
  [inc : [Alert -> Incident \cup {NoIncident}], in : [Alert -> Alert \cup {None}],
   links : SUBSET (Alert \X Event), rows : SUBSET (Alert \X Kind \X Alert), journal : [Alert -> Journals]]

\* What an existing incident of the database d says of itself is so, and its
\* audit log is a chain.
Counts(d, i) ==
  /\ d.inc[i].alerts = Cardinality(Attached(d, i))
  /\ d.inc[i].events = Cardinality(LinkedTo(d, i))
  /\ LinkedTo(d, i) = UNION {EventsOf[a] : a \in Attached(d, i)}
  /\ d.inc[i].entities = UNION {Entities[a] : a \in Attached(d, i)}
  /\ d.inc[i].first = Min({TimeOf[e] : e \in LinkedTo(d, i)})
  /\ d.inc[i].last = Max({TimeOf[e] : e \in LinkedTo(d, i)})
Audits(d, i) ==
  /\ Chained(d.journal[i].alerts, 0, d.inc[i].alerts)
  /\ Chained(d.journal[i].status, "open", d.inc[i].status)
  /\ Chained(d.journal[i].assignee, None, d.inc[i].assignee)

\* The rows that tell clients of an alert's incident.
Told(d, a) == {r \in d.rows : r[3] = a /\ r[2] # "INCIDENT_STATUS_CHANGED"}
Notified(d, a) ==
  {<<r[1], r[2]>> : r \in Told(d, a)} =
    IF d.in[a] = None THEN {}
    ELSE {<<d.in[a], IF d.in[a] = a THEN "INCIDENT_CREATED" ELSE "INCIDENT_UPDATED">>}

\* An incident is there when the alert it is named after is attached to it.
Consistent(d) ==
  /\ d \in Databases
  /\ \A i \in Alert :
       IF d.in[i] = i THEN d.inc[i] \in Incident /\ Counts(d, i) /\ Audits(d, i)
       ELSE d.inc[i] = NoIncident /\ d.journal[i] = Journal
            /\ Attached(d, i) = {} /\ LinkedTo(d, i) = {}
  /\ \A a \in Alert : Notified(d, a)

\* What d has said of alerts and events stays so in r.
Grows(d, r) ==
  /\ \A a \in Alert : d.in[a] # None => r.in[a] = d.in[a]
  /\ d.links \subseteq r.links

\* The correlation of a batch: it adds to the journals, but names no assignee.
Extends(s, u) == Len(s) <= Len(u) /\ \A k \in 1..Len(s) : u[k] = s[k]
Continues(d, r) ==
  /\ Grows(d, r)
  /\ \A i \in Alert :
       /\ Extends(d.journal[i].alerts, r.journal[i].alerts)
       /\ Extends(d.journal[i].status, r.journal[i].status)
       /\ r.in[i] = i => r.inc[i].assignee = IF d.in[i] = i THEN d.inc[i].assignee ELSE None

Transaction == [snapshot : Databases, others : SUBSET Job, result : Databases]

Transacting(j) ==
  pc[j] = "running" =>
    /\ tx[j] \in Transaction
    /\ Consistent(tx[j].snapshot) /\ Grows(tx[j].snapshot, db)
    /\ Consistent(tx[j].result) /\ Continues(tx[j].snapshot, tx[j].result)

IncidentInv ==
  /\ Consistent(db)
  /\ now \in Int /\ at \in [Job -> Int] /\ raised \in [Job -> Int]
  /\ pc \in [Job -> {"waiting", "running", "done"}]
  /\ DOMAIN tx = Job
  /\ \A j \in Job : Transacting(j)
-----------------------------------------------------------------------------
(* Finite sets.                                                            *)

LEMMA NatOrder == IsWellFoundedOn({ss \in Nat \X Nat : ss[1] < ss[2]}, Nat)
  BY NatLessThanWellFounded DEF OpToRel

LEMMA LeastNumber ==
  ASSUME NEW T, T \subseteq Nat, T # {}
  PROVE  \E x \in T : \A y \in T : x <= y
<1> DEFINE R == {ss \in Nat \X Nat : ss[1] < ss[2]}
<1>1. \E x \in T : \A y \in T : <<y, x>> \notin R
  <2>1. IsWellFoundedOn(R, Nat)
    BY NatOrder
  <2> HIDE DEF R
  <2> QED  BY <2>1, WFMin
<1>2. \A x, y \in Nat : <<y, x>> \in R <=> y < x
  OBVIOUS
<1> HIDE DEF R
<1>3. PICK x \in T : \A y \in T : <<y, x>> \notin R
  BY <1>1
<1>4. \A y \in T : x \in Nat /\ y \in Nat /\ ~(y < x)
  BY <1>2, <1>3
<1> QED  BY <1>4

\* A finite set has an element where f is largest.
LEMMA LargestElement ==
  ASSUME NEW S, IsFiniteSet(S), S # {}, NEW f, \A x \in S : f[x] \in Int
  PROVE  \E x \in S : \A y \in S : f[x] >= f[y]
<1> DEFINE Fails(T) == IsFiniteSet(T) /\ T # {} /\ ~(\E x \in T : \A y \in T : f[x] >= f[y])
           N == {n \in Nat : \E T \in SUBSET S : Fails(T) /\ n = Cardinality(T)}
<1>1. SUFFICES ASSUME Fails(S) PROVE FALSE
  OBVIOUS
<1>2. Cardinality(S) \in N
  BY <1>1, FS_CardinalityType
<1>3. PICK n \in N : \A m \in N : n <= m
  <2>1. N \subseteq Nat /\ N # {}
    BY <1>2
  <2> HIDE DEF N
  <2> QED  BY <2>1, LeastNumber
<1>4. PICK T \in SUBSET S : Fails(T) /\ n = Cardinality(T)
  BY <1>3
<1>5. PICK x \in T : TRUE
  BY <1>4
<1> DEFINE U == T \ {x}
<1>6. IsFiniteSet(U) /\ Cardinality(U) = Cardinality(T) - 1 /\ Cardinality(U) \in Nat
  BY <1>4, <1>5, FS_RemoveElement, FS_CardinalityType
<1>7. CASE U = {}
  <2>1. \A y \in T : y = x
    BY <1>7
  <2>2. f[x] \in Int
    BY <1>5
  <2> QED  BY <1>4, <1>5, <2>1, <2>2
<1>8. CASE U # {}
  <2>1. ~Fails(U)
    <3>1. SUFFICES ASSUME Fails(U) PROVE FALSE
      OBVIOUS
    <3>2. Cardinality(U) \in N
      BY <1>6, <3>1
    <3>3. n <= Cardinality(U)
      BY <1>3, <3>2
    <3>4. n \in Nat
      BY <1>3
    <3> HIDE DEF N, U, Fails
    <3> QED  BY <1>4, <1>6, <3>3, <3>4
  <2>2. PICK y \in U : \A z \in U : f[y] >= f[z]
    BY <1>6, <1>8, <2>1
  <2>3. \A z \in T : z = x \/ z \in U
    OBVIOUS
  <2>4. \A z \in T : f[z] \in Int
    OBVIOUS
  <2>5. \/ \A z \in T : f[x] >= f[z]
        \/ \A z \in T : f[y] >= f[z]
    <3>1. CASE f[x] >= f[y]
      BY <1>5, <2>2, <2>3, <2>4, <3>1
    <3>2. CASE f[y] >= f[x]
      BY <1>5, <2>2, <2>3, <2>4, <3>2
    <3> QED  BY <1>5, <2>2, <2>4, <3>1, <3>2
  <2> QED  BY <1>4, <1>5, <2>2, <2>5
<1> QED  BY <1>7, <1>8

LEMMA Extremes ==
  ASSUME NEW T, IsFiniteSet(T), T # {}, T \subseteq Int
  PROVE  Min(T) \in Int /\ Max(T) \in Int
<1>1. Max(T) \in T
  <2> DEFINE f == [x \in T |-> x]
  <2>1. \A x \in T : f[x] = x /\ f[x] \in Int
    OBVIOUS
  <2> HIDE DEF f
  <2>2. \E x \in T : \A y \in T : f[x] >= f[y]
    BY <2>1, LargestElement
  <2>3. \E x \in T : \A y \in T : x >= y
    BY <2>1, <2>2
  <2> QED  BY <2>3 DEF Max
<1>2. Min(T) \in T
  <2> DEFINE f == [x \in T |-> -x]
  <2>1. \A x \in T : f[x] = -x /\ f[x] \in Int
    OBVIOUS
  <2> HIDE DEF f
  <2>2. \E x \in T : \A y \in T : f[x] >= f[y]
    BY <2>1, LargestElement
  <2>3. \E x \in T : \A y \in T : x <= y
    BY <2>1, <2>2
  <2> QED  BY <2>3 DEF Min
<1> QED  BY <1>1, <1>2

LEMMA SameSize ==
  ASSUME NEW S, NEW T, IsFiniteSet(T), S \subseteq T, Cardinality(S) = Cardinality(T)
  PROVE  S = T
BY FS_Subset

LEMMA FiniteImage ==
  ASSUME NEW S, IsFiniteSet(S), NEW f
  PROVE  IsFiniteSet({f[x] : x \in S})
<1> DEFINE T == {f[x] : x \in S}
           g == [x \in S |-> f[x]]
<1>1. g \in Surjection(S, T)
  BY DEF Surjection
<1> QED  BY <1>1, FS_Surjection

LEMMA FiniteData == IsFiniteSet(Alert) /\ IsFiniteSet(Event) /\ IsFiniteSet(Entity)
<1>1. \A j \in Job : IsFiniteSet(Range(AlertsOf[j]))
  <2> TAKE j \in Job
  <2>1. AlertsOf[j] \in Seq(Range(AlertsOf[j]))
    BY IncidentAssumption
  <2> DEFINE n == Len(AlertsOf[j])
  <2>2. n \in Nat /\ DOMAIN AlertsOf[j] = 1..n
    BY <2>1
  <2>3. IsFiniteSet(1..n)
    BY <2>2, FS_Interval
  <2>4. Range(AlertsOf[j]) = {AlertsOf[j][x] : x \in 1..n}
    BY <2>2 DEF Range
  <2> QED  BY <2>3, <2>4, FiniteImage
<1>2. IsFiniteSet({Range(AlertsOf[j]) : j \in Job})
  <2> DEFINE f == [j \in Job |-> Range(AlertsOf[j])]
  <2>1. IsFiniteSet({f[j] : j \in Job})
    BY IncidentAssumption, FiniteImage
  <2> QED  BY <2>1
<1>3. IsFiniteSet(Alert)
  BY <1>1, <1>2, FS_UNION DEF Alert
<1>4. IsFiniteSet({EventsOf[a] : a \in Alert}) /\ IsFiniteSet({Entities[a] : a \in Alert})
  BY <1>3, FiniteImage
<1>5. \A a \in Alert : IsFiniteSet(EventsOf[a]) /\ IsFiniteSet(Entities[a])
  BY IncidentAssumption
<1> QED  BY <1>3, <1>4, <1>5, FS_UNION DEF Event, Entity
-----------------------------------------------------------------------------
(* Chains.                                                                 *)

LEMMA ChainAppend ==
  ASSUME NEW X, NEW s \in Seq(X \X X), NEW first, NEW old \in X, NEW new \in X, Chained(s, first, old)
  PROVE  /\ Append(s, <<old, new>>) \in Seq(X \X X)
         /\ Chained(Append(s, <<old, new>>), first, new)
         /\ Extends(s, Append(s, <<old, new>>))
<1> DEFINE u == Append(s, <<old, new>>)
<1>1. u \in Seq(X \X X) /\ Len(u) = Len(s) + 1 /\ Len(s) \in Nat
  OBVIOUS
<1>2. \A k \in 1..Len(s) : u[k] = s[k]
  OBVIOUS
<1>3. u[Len(s) + 1] = <<old, new>> /\ u # <<>>
  <2>1. u[Len(s) + 1] = <<old, new>>
    OBVIOUS
  <2>2. Len(u) # 0
    BY <1>1
  <2>3. u # <<>>
    <3>1. Len(<<>>) = 0
      OBVIOUS
    <3> HIDE DEF u
    <3> QED  BY <2>2, <3>1
  <2> QED  BY <2>1, <2>3
<1>4. s = <<>> <=> Len(s) = 0
  OBVIOUS
<1> HIDE DEF u
<1>5. Extends(s, u)
  BY <1>1, <1>2 DEF Extends
<1>6. ASSUME NEW k \in 1..Len(u) PROVE u[k][1] = IF k = 1 THEN first ELSE u[k-1][2]
  <2>1. CASE k = Len(s) + 1
    <3>1. u[k][1] = old
      BY <1>3, <2>1
    <3>2. CASE k = 1
      BY <1>1, <1>4, <2>1, <3>1, <3>2 DEF Chained
    <3>3. CASE k # 1
      <4>1. Len(s) \in 1..Len(s) /\ k - 1 = Len(s)
        BY <1>1, <2>1, <3>3
      <4> QED  BY <1>1, <1>2, <1>4, <3>1, <3>3, <4>1 DEF Chained
    <3> QED  BY <3>2, <3>3
  <2>2. CASE k # Len(s) + 1
    <3>1. k \in 1..Len(s) /\ (k # 1 => k - 1 \in 1..Len(s))
      BY <1>1, <2>2
    <3> QED  BY <1>2, <3>1 DEF Chained
  <2> QED  BY <2>1, <2>2
<1>7. u[Len(u)][2] = new
  BY <1>1, <1>3
<1> QED  BY <1>1, <1>3, <1>5, <1>6, <1>7 DEF Chained, u

\* A change of status or of assignee lengthens the chain of those before it.
LEMMA StatusChain ==
  \A s \in Seq(Status \X Status), old \in Status, new \in Status :
    Chained(s, "open", old) =>
      \A t : t = Append(s, <<old, new>>) => Chained(t, "open", new) /\ Extends(s, t)
<1> TAKE s \in Seq(Status \X Status), old \in Status, new \in Status
<1> HAVE Chained(s, "open", old)
<1>1. Chained(Append(s, <<old, new>>), "open", new) /\ Extends(s, Append(s, <<old, new>>))
  BY ChainAppend
<1> QED  BY <1>1, Zenon

LEMMA OwnerChain ==
  \A s \in Seq(Owner \X Owner), old \in Owner, new \in Owner :
    Chained(s, None, old) =>
      \A t : t = Append(s, <<old, new>>) => Chained(t, None, new) /\ Extends(s, t)
<1> TAKE s \in Seq(Owner \X Owner), old \in Owner, new \in Owner
<1> HAVE Chained(s, None, old)
<1>1. Chained(Append(s, <<old, new>>), None, new) /\ Extends(s, Append(s, <<old, new>>))
  BY ChainAppend
<1> QED  BY <1>1, Zenon

\* What was added to a journal since it was read can be added to any other
\* that ends where the one that was read did.
LEMMA ChainJoin ==
  ASSUME NEW X, NEW s \in Seq(X \X X), NEW u \in Seq(X \X X), NEW w \in Seq(X \X X),
         NEW first, NEW v, NEW z,
         Extends(s, u), Chained(s, first, v), Chained(u, first, z), Chained(w, first, v)
  PROVE  /\ w \o SubSeq(u, Len(s) + 1, Len(u)) \in Seq(X \X X)
         /\ Chained(w \o SubSeq(u, Len(s) + 1, Len(u)), first, z)
<1> DEFINE n == Len(s)
           y == SubSeq(u, n + 1, Len(u))
           r == w \o y
<1>1. n \in Nat /\ Len(u) \in Nat /\ Len(w) \in Nat /\ n <= Len(u)
  BY DEF Extends
<1>2. y \in Seq(X \X X) /\ Len(y) = Len(u) - n /\ \A k \in 1..(Len(u) - n) : y[k] = u[n + k]
  <2>1. \A k \in n+1..Len(u) : u[k] \in X \X X
    BY <1>1
  <2> QED  BY <1>1, <2>1, SubSeqProperties
<1> HIDE DEF y
<1>3. r \in Seq(X \X X) /\ Len(r) = Len(w) + Len(u) - n
  <2>1. r \in Seq(X \X X) /\ Len(r) = Len(w) + Len(y)
    BY <1>2, ConcatProperties
  <2> HIDE DEF r
  <2> QED  BY <1>1, <1>2, <2>1
<1>4. /\ \A k \in 1..Len(w) : r[k] = w[k]
      /\ \A k \in 1..(Len(u) - n) : r[Len(w) + k] = u[n + k]
  BY <1>1, <1>2
<1>5. \A x \in Seq(X \X X) : x = <<>> <=> Len(x) = 0
  OBVIOUS
<1> HIDE DEF r
<1>6. n > 0 => v = u[n][2]
  <2>1. SUFFICES ASSUME n > 0 PROVE v = u[n][2]
    OBVIOUS
  <2>2. n \in 1..n /\ s # <<>>
    BY <1>1, <1>5, <2>1
  <2> QED  BY <2>2 DEF Chained, Extends
<1>7. n = 0 => v = first
  BY <1>5 DEF Chained
<1>8. Len(w) > 0 => w[Len(w)][2] = v
  BY <1>1, <1>5 DEF Chained
<1>9. Len(w) = 0 => v = first
  BY <1>5 DEF Chained
<1>10. ASSUME NEW k \in 1..Len(r) PROVE r[k][1] = IF k = 1 THEN first ELSE r[k-1][2]
  <2>1. CASE k <= Len(w)
    <3>1. k \in 1..Len(w) /\ (k # 1 => k - 1 \in 1..Len(w))
      BY <1>1, <2>1
    <3> QED  BY <1>4, <3>1 DEF Chained
  <2>2. CASE k = Len(w) + 1
    <3>1. 1 \in 1..(Len(u) - n) /\ n + 1 \in 1..Len(u)
      BY <1>1, <1>3, <2>2
    <3>2. r[k] = u[n + 1]
      BY <1>4, <2>2, <3>1
    <3>3. u[n + 1][1] = v
      BY <1>1, <1>6, <1>7, <3>1 DEF Chained
    <3>4. CASE Len(w) = 0
      BY <1>9, <2>2, <3>2, <3>3, <3>4
    <3>5. CASE Len(w) # 0
      <4>1. k # 1 /\ k - 1 = Len(w) /\ Len(w) \in 1..Len(w)
        BY <1>1, <2>2, <3>5
      <4>2. r[k - 1] = w[Len(w)]
        BY <1>4, <4>1
      <4>3. w[Len(w)][2] = v
        BY <1>1, <1>8, <3>5
      <4> QED  BY <3>2, <3>3, <4>1, <4>2, <4>3, Zenon
    <3> QED  BY <3>4, <3>5
  <2>3. CASE k > Len(w) + 1
    <3> DEFINE l == k - Len(w)
    <3>1. l \in 1..(Len(u) - n) /\ l - 1 \in 1..(Len(u) - n) /\ n + l \in 1..Len(u) /\ n + l # 1 /\ k # 1
      BY <1>1, <1>3, <2>3
    <3>2. r[k] = u[n + l] /\ r[k - 1] = u[n + l - 1]
      <4>1. k = Len(w) + l /\ k - 1 = Len(w) + (l - 1) /\ n + (l - 1) = n + l - 1
        BY <1>1
      <4> QED  BY <1>4, <3>1, <4>1
    <3>3. u[n + l][1] = u[n + l - 1][2]
      <4> HIDE DEF l
      <4> QED  BY <3>1 DEF Chained
    <3> QED  BY <3>1, <3>2, <3>3
  <2> QED  BY <1>1, <1>3, <2>1, <2>2, <2>3
<1>11. z = IF r = <<>> THEN first ELSE r[Len(r)][2]
  <2>1. CASE Len(u) = n
    <3>1. z = v
      BY <1>1, <1>5, <1>6, <1>7, <2>1 DEF Chained
    <3>2. Len(r) = Len(w)
      BY <1>1, <1>3, <2>1
    <3>3. CASE Len(w) = 0
      BY <1>3, <1>5, <1>9, <3>1, <3>2, <3>3
    <3>4. CASE Len(w) # 0
      <4>1. Len(w) \in 1..Len(w) /\ r # <<>>
        BY <1>1, <1>3, <1>5, <3>2, <3>4
      <4> QED  BY <1>1, <1>4, <1>8, <3>1, <3>2, <3>4, <4>1
    <3> QED  BY <3>3, <3>4
  <2>2. CASE Len(u) # n
    <3>1. Len(u) - n \in 1..(Len(u) - n) /\ Len(u) > 0 /\ Len(r) = Len(w) + (Len(u) - n) /\ n + (Len(u) - n) = Len(u)
      BY <1>1, <1>3, <2>2
    <3>2. r[Len(r)] = u[Len(u)]
      BY <1>4, <3>1
    <3>3. r # <<>> /\ u # <<>>
      BY <1>1, <1>3, <1>5, <3>1
    <3> QED  BY <3>2, <3>3 DEF Chained
  <2> QED  BY <2>1, <2>2
<1> QED  BY <1>3, <1>10, <1>11 DEF Chained, r, y
-----------------------------------------------------------------------------
(* What the repositories change.                                           *)

LEMMA DatabaseShape ==
  ASSUME NEW d \in Databases
  PROVE  /\ DOMAIN d = {"inc", "in", "links", "rows", "journal"}
         /\ DOMAIN d.inc = Alert /\ DOMAIN d.in = Alert /\ DOMAIN d.journal = Alert
BY DEF Databases

\* A journal with one more entry, an incident that was closed.
Enters(x, y, field, old, new) == y = [x EXCEPT ![field] = Append(@, <<old, new>>)]
Closes(x, y) == y = [x EXCEPT !.status = "closed", !.resolvedAt = TRUE, !.closedAt = TRUE]
Table(f) == f = [i \in Alert |-> f[i]]

LEMMA AuditedFields ==
  ASSUME NEW d, DOMAIN d = {"inc", "in", "links", "rows", "journal"}, DOMAIN d.journal = Alert, NEW i \in Alert,
         NEW field, NEW old, NEW new, NEW r, r = Audited(d, i, field, old, new)
  PROVE  /\ r.inc = d.inc /\ r.in = d.in /\ r.links = d.links /\ r.rows = d.rows
         /\ DOMAIN r = DOMAIN d /\ r = [x \in DOMAIN d |-> r[x]]
         /\ Table(r.journal)
         /\ \A k \in Alert : IF k = i THEN Enters(d.journal[k], r.journal[k], field, old, new)
                            ELSE r.journal[k] = d.journal[k]
<1>1. /\ r.inc = d.inc /\ r.in = d.in /\ r.links = d.links /\ r.rows = d.rows
      /\ DOMAIN r = DOMAIN d
  BY Zenon DEF Audited
<1>2. r = [x \in DOMAIN d |-> r[x]]
  BY Zenon DEF Audited
<1>3. Table(r.journal)
  BY Zenon DEF Audited, Table
<1>4. \A k \in Alert : IF k = i THEN Enters(d.journal[k], r.journal[k], field, old, new)
                       ELSE r.journal[k] = d.journal[k]
  BY Zenon DEF Audited, Enters
<1> QED  BY <1>1, <1>2, <1>3, <1>4

Entered(x, y, field, old, new) ==
  /\ y \in Journals
  /\ y.alerts = (IF field = "alerts" THEN Append(x.alerts, <<old, new>>) ELSE x.alerts)
  /\ y.status = (IF field = "status" THEN Append(x.status, <<old, new>>) ELSE x.status)
  /\ y.assignee = (IF field = "assignee" THEN Append(x.assignee, <<old, new>>) ELSE x.assignee)

LEMMA EntryFields ==
  ASSUME NEW x \in Journals, NEW old, NEW new, NEW field \in {"alerts", "status", "assignee"},
         field = "alerts" => <<old, new>> \in Nat \X Nat,
         field = "status" => <<old, new>> \in Status \X Status,
         field = "assignee" => <<old, new>> \in Owner \X Owner,
         NEW y, Enters(x, y, field, old, new)
  PROVE  Entered(x, y, field, old, new)
<1>1. CASE field = "alerts"
  <2>1. Append(x.alerts, <<old, new>>) \in Seq(Nat \X Nat)
    BY <1>1 DEF Journals
  <2> QED  BY <1>1, <2>1 DEF Journals, Entered, Enters
<1>2. CASE field = "status"
  <2>1. Append(x.status, <<old, new>>) \in Seq(Status \X Status)
    BY <1>2 DEF Journals
  <2> QED  BY <1>2, <2>1 DEF Journals, Entered, Enters
<1>3. CASE field = "assignee"
  <2>1. Append(x.assignee, <<old, new>>) \in Seq(Owner \X Owner)
    BY <1>3 DEF Journals
  <2> QED  BY <1>3, <2>1 DEF Journals, Entered, Enters
<1> QED  BY <1>1, <1>2, <1>3

LEMMA ClosedFields ==
  ASSUME NEW d \in Databases, NEW i \in Alert, NEW a, NEW c, c = CloseExpired(d, i, a)
  PROVE  /\ Closes(d.inc[i], c.inc[i])
         /\ Enters(d.journal[i], c.journal[i], "status", d.inc[i].status, "closed")
         /\ c.rows = d.rows \cup {<<i, "INCIDENT_STATUS_CHANGED", a>>}
<1> DEFINE r == Audited(d, i, "status", d.inc[i].status, "closed")
<1>1. DOMAIN d = {"inc", "in", "links", "rows", "journal"} /\ DOMAIN d.inc = Alert /\ DOMAIN d.journal = Alert
  BY DatabaseShape
<1>2. c = [r EXCEPT !.inc[i].status = "closed", !.inc[i].resolvedAt = TRUE, !.inc[i].closedAt = TRUE,
                    !.rows = @ \cup {<<i, "INCIDENT_STATUS_CHANGED", a>>}]
  BY DEF CloseExpired
<1>3. /\ r.inc = d.inc /\ r.rows = d.rows /\ DOMAIN r = DOMAIN d
      /\ Enters(d.journal[i], r.journal[i], "status", d.inc[i].status, "closed")
  BY <1>1, AuditedFields
<1> HIDE DEF r
<1>5. DOMAIN r = {"inc", "in", "links", "rows", "journal"} /\ i \in DOMAIN r.inc
  BY <1>1, <1>3
<1>4. c.inc[i] = [r.inc[i] EXCEPT !.status = "closed", !.resolvedAt = TRUE, !.closedAt = TRUE]
  BY <1>2, <1>5
<1>6. c.journal = r.journal
  BY <1>2, <1>5, Zenon
<1>7. c.rows = r.rows \cup {<<i, "INCIDENT_STATUS_CHANGED", a>>}
  BY <1>2, <1>5, Zenon
<1> QED  BY <1>3, <1>4, <1>6, <1>7, Zenon DEF Closes
-----------------------------------------------------------------------------
Record(r) == r = [x \in {"inc", "in", "links", "rows", "journal"} |-> r[x]]

LEMMA IsDatabase ==
  ASSUME NEW r, Record(r), r.inc \in [Alert -> Incident \cup {NoIncident}], r.in \in [Alert -> Alert \cup {None}],
         r.links \subseteq Alert \X Event, r.rows \subseteq Alert \X Kind \X Alert, r.journal \in [Alert -> Journals]
  PROVE  r \in Databases
BY Zenon DEF Record, Databases

\* Only S is closed: what Expire says, field by field.
Expires(d, S, a, r) ==
  /\ Record(r) /\ r.in = d.in /\ r.links = d.links /\ Table(r.inc) /\ Table(r.journal)
  /\ \A i \in S : /\ Closes(d.inc[i], r.inc[i])
                  /\ Enters(d.journal[i], r.journal[i], "status", d.inc[i].status, "closed")
  /\ \A i \in Alert \ S : r.inc[i] = d.inc[i] /\ r.journal[i] = d.journal[i]
  /\ d.rows \subseteq r.rows /\ \A x \in r.rows \ d.rows : \E i \in S : x = <<i, "INCIDENT_STATUS_CHANGED", a>>

LEMMA ExpireFields ==
  ASSUME NEW d \in Databases, NEW S \in SUBSET Alert, NEW a, NEW r, r = Expire(d, S, a)
  PROVE  Expires(d, S, a, r)
<1> DEFINE A == [i \in Alert |-> IF i \in S THEN CloseExpired(d, i, a).inc[i] ELSE d.inc[i]]
           B == [i \in Alert |-> IF i \in S THEN CloseExpired(d, i, a).journal[i] ELSE d.journal[i]]
           R == d.rows \cup UNION {CloseExpired(d, i, a).rows : i \in S}
<1>1. r = [d EXCEPT !.inc = A, !.journal = B, !.rows = R]
  BY Zenon DEF Expire
<1>2. DOMAIN d = {"inc", "in", "links", "rows", "journal"}
  BY DatabaseShape
<1> HIDE DEF A, B, R
<1>3. DOMAIN r = DOMAIN d /\ r = [x \in DOMAIN d |-> r[x]]
  BY <1>1, Zenon
<1>4. r.in = d.in /\ r.links = d.links /\ r.inc = A /\ r.rows = R /\ r.journal = B
  BY <1>1, <1>2
<1>5. \A i \in S : CloseExpired(d, i, a).rows = d.rows \cup {<<i, "INCIDENT_STATUS_CHANGED", a>>}
  BY ClosedFields
<1>6. d.rows \subseteq R /\ \A x \in R \ d.rows : \E i \in S : x = <<i, "INCIDENT_STATUS_CHANGED", a>>
  BY <1>5 DEF R
<1>7. Table(A) /\ Table(B)
  BY DEF A, B, Table
<1>8. \A i \in Alert : /\ A[i] = IF i \in S THEN CloseExpired(d, i, a).inc[i] ELSE d.inc[i]
                      /\ B[i] = IF i \in S THEN CloseExpired(d, i, a).journal[i] ELSE d.journal[i]
  BY DEF A, B
<1>9. \A i \in S : /\ Closes(d.inc[i], r.inc[i])
                  /\ Enters(d.journal[i], r.journal[i], "status", d.inc[i].status, "closed")
  BY <1>4, <1>8, ClosedFields
<1> QED  BY <1>2, <1>3, <1>4, <1>6, <1>7, <1>8, <1>9 DEF Record, Expires

LEMMA ClosedIncident ==
  ASSUME NEW x \in Incident, NEW y, Closes(x, y)
  PROVE  /\ y \in Incident /\ y.status = "closed" /\ y.alerts = x.alerts /\ y.events = x.events
         /\ y.entities = x.entities /\ y.first = x.first /\ y.last = x.last /\ y.assignee = x.assignee
BY DEF Incident, Status, Closes
-----------------------------------------------------------------------------
\* Nothing is attached or linked, and the journals are as they were but for the
\* entry that an incident was closed.
LEMMA ExpireKeeps ==
  ASSUME NEW d, Consistent(d), NEW S \in SUBSET Alert, \A i \in S : d.in[i] = i, NEW a \in Alert,
         NEW r, r = Expire(d, S, a)
  PROVE  /\ Consistent(r) /\ Continues(d, r) /\ r.in = d.in
         /\ \A i \in Alert \ S : r.inc[i] = d.inc[i]
<1>1. d \in Databases
  BY DEF Consistent
<1>2. /\ Record(r) /\ r.in = d.in /\ r.links = d.links /\ Table(r.inc) /\ Table(r.journal)
      /\ \A i \in S : /\ Closes(d.inc[i], r.inc[i])
                      /\ Enters(d.journal[i], r.journal[i], "status", d.inc[i].status, "closed")
      /\ \A i \in Alert \ S : r.inc[i] = d.inc[i] /\ r.journal[i] = d.journal[i]
      /\ d.rows \subseteq r.rows /\ \A x \in r.rows \ d.rows : \E i \in S : x = <<i, "INCIDENT_STATUS_CHANGED", a>>
  <2>1. Expires(d, S, a, r)
    BY <1>1, ExpireFields
  <2> QED  BY <2>1 DEF Expires
<1>3. \A i \in Alert \ S : r.inc[i] = d.inc[i] /\ r.journal[i] = d.journal[i]
  BY <1>2
<1>4. \A i \in Alert : Attached(r, i) = Attached(d, i) /\ LinkedTo(r, i) = LinkedTo(d, i)
  BY <1>2 DEF Attached, LinkedTo
<1>5. ASSUME NEW i \in S
      PROVE  /\ r.inc[i] \in Incident /\ r.inc[i].assignee = d.inc[i].assignee
             /\ r.journal[i] \in Journals
             /\ Counts(r, i) /\ Audits(r, i)
             /\ Extends(d.journal[i].status, r.journal[i].status)
             /\ r.journal[i].alerts = d.journal[i].alerts
  <2>1. i \in Alert /\ d.inc[i] \in Incident /\ Counts(d, i) /\ Audits(d, i) /\ d.journal[i] \in Journals
    BY <1>1 DEF Consistent, Databases
  <2>2. Closes(d.inc[i], r.inc[i]) /\ Enters(d.journal[i], r.journal[i], "status", d.inc[i].status, "closed")
    BY <1>2
  <2> DEFINE x == d.inc[i]
             y == r.inc[i]
  <2>3. /\ y \in Incident /\ y.status = "closed" /\ y.alerts = x.alerts /\ y.events = x.events
        /\ y.entities = x.entities /\ y.first = x.first /\ y.last = x.last /\ y.assignee = x.assignee
    BY <2>1, <2>2, ClosedIncident
  <2>4. x.status \in Status /\ "closed" \in Status
    BY <2>1 DEF Incident, Status
  <2>5. Entered(d.journal[i], r.journal[i], "status", x.status, "closed")
    BY <2>1, <2>2, <2>4, EntryFields
  <2>6. /\ r.journal[i].alerts = d.journal[i].alerts /\ r.journal[i].assignee = d.journal[i].assignee
        /\ r.journal[i].status = Append(d.journal[i].status, <<x.status, "closed">>)
        /\ r.journal[i] \in Journals
    BY <2>5 DEF Entered
  <2>7. d.journal[i].status \in Seq(Status \X Status) /\ Chained(d.journal[i].status, "open", x.status)
    BY <2>1 DEF Journals, Audits
  <2>8. /\ Chained(r.journal[i].status, "open", "closed")
        /\ Extends(d.journal[i].status, r.journal[i].status)
    BY <2>4, <2>6, <2>7, StatusChain, Zenon
  <2>9. Counts(r, i)
    BY <1>4, <2>1, <2>3 DEF Counts
  <2>10. Audits(r, i)
    BY <2>1, <2>3, <2>6, <2>8 DEF Audits
  <2> QED  BY <2>3, <2>6, <2>8, <2>9, <2>10
<1>6. r \in Databases
  <2>1. r.inc \in [Alert -> Incident \cup {NoIncident}]
    <3>1. \A i \in Alert : r.inc[i] \in Incident \cup {NoIncident}
      BY <1>1, <1>3, <1>5 DEF Databases
    <3> QED  BY <1>2, <3>1 DEF Table
  <2>2. r.journal \in [Alert -> Journals]
    <3>1. \A i \in Alert : r.journal[i] \in Journals
      BY <1>1, <1>3, <1>5 DEF Databases
    <3> QED  BY <1>2, <3>1 DEF Table
  <2>3. r.rows \subseteq Alert \X Kind \X Alert
    <3>1. "INCIDENT_STATUS_CHANGED" \in Kind
      BY DEF Kind
    <3> QED  BY <1>1, <1>2, <3>1 DEF Databases
  <2> QED  BY <1>1, <1>2, <2>1, <2>2, <2>3, IsDatabase DEF Databases
<1>7. ASSUME NEW i \in Alert
      PROVE  IF r.in[i] = i THEN r.inc[i] \in Incident /\ Counts(r, i) /\ Audits(r, i)
             ELSE r.inc[i] = NoIncident /\ r.journal[i] = Journal /\ Attached(r, i) = {} /\ LinkedTo(r, i) = {}
  <2>1. CASE i \in S
    BY <1>2, <1>5, <2>1
  <2>2. CASE i \notin S
    <3>1. r.inc[i] = d.inc[i] /\ r.journal[i] = d.journal[i] /\ r.in = d.in
          /\ Attached(r, i) = Attached(d, i) /\ LinkedTo(r, i) = LinkedTo(d, i)
      BY <1>2, <1>3, <1>4, <2>2
    <3>2. (Counts(r, i) <=> Counts(d, i)) /\ (Audits(r, i) <=> Audits(d, i))
      BY <3>1, Zenon DEF Counts, Audits
    <3> QED  BY <3>1, <3>2, Zenon DEF Consistent
  <2> QED  BY <2>1, <2>2
<1>8. ASSUME NEW b \in Alert PROVE Notified(r, b)
  <2>1. Told(r, b) = Told(d, b)
    BY <1>2 DEF Told
  <2> QED  BY <1>2, <2>1 DEF Consistent, Notified
<1>9. Continues(d, r)
  <2>1. \A s \in Seq(Nat \X Nat) \cup Seq(Status \X Status) : Extends(s, s)
    BY DEF Extends
  <2>2. \A i \in Alert : d.journal[i].alerts \in Seq(Nat \X Nat) /\ d.journal[i].status \in Seq(Status \X Status)
    BY <1>1 DEF Databases, Journals
  <2>3. ASSUME NEW i \in Alert
        PROVE  /\ Extends(d.journal[i].alerts, r.journal[i].alerts)
               /\ Extends(d.journal[i].status, r.journal[i].status)
               /\ r.in[i] = i => r.inc[i].assignee = IF d.in[i] = i THEN d.inc[i].assignee ELSE None
    <3>1. CASE i \in S
      BY <1>5, <2>1, <2>2, <3>1
    <3>2. CASE i \notin S
      BY <1>2, <1>3, <2>1, <2>2, <3>2
    <3> QED  BY <3>1, <3>2
  <2> QED  BY <1>2, <2>3 DEF Continues, Grows
<1> QED  BY <1>2, <1>3, <1>6, <1>7, <1>8, <1>9 DEF Consistent
-----------------------------------------------------------------------------
\* Alert a joins incident i: what Attach says, field by field.
Joins(x, y, count, new, times, a) ==
  y = [x EXCEPT !.alerts = count, !.events = @ + Cardinality(new), !.entities = @ \cup Entities[a],
                !.first = Min(times), !.last = Max(times)]
TimesOf(d, i, a) == {TimeOf[x] : x \in EventsOf[a] \cup LinkedTo(d, i)}
NewEvents(d, i, a) == EventsOf[a] \ LinkedTo(d, i)

Attaches(d, i, a, r) ==
  /\ Record(r) /\ Table(r.inc) /\ Table(r.in) /\ Table(r.journal)
  /\ r.in[a] = i /\ \A b \in Alert \ {a} : r.in[b] = d.in[b]
  /\ r.links = d.links \cup {<<i, x>> : x \in NewEvents(d, i, a)}
  /\ r.rows = d.rows \cup {<<i, IF i = a THEN "INCIDENT_CREATED" ELSE "INCIDENT_UPDATED", a>>}
  /\ \A k \in Alert \ {i} : r.inc[k] = d.inc[k] /\ r.journal[k] = d.journal[k]
  /\ LET count == Cardinality(Attached(r, i))
     IN /\ Joins(d.inc[i], r.inc[i], count, NewEvents(d, i, a), TimesOf(d, i, a), a)
        /\ Enters(d.journal[i], r.journal[i], "alerts", d.inc[i].alerts, count)

LEMMA AttachFields ==
  ASSUME NEW d \in Databases, NEW i \in Alert, NEW a \in Alert, NEW r, r = Attach(d, i, a)
  PROVE  Attaches(d, i, a, r)
<1> DEFINE new == NewEvents(d, i, a)
           times == TimesOf(d, i, a)
           in == [d.in EXCEPT ![a] = i]
           count == Cardinality({b \in Alert : in[b] = i})
           old == d.inc[i].alerts
           kind == IF i = a THEN "INCIDENT_CREATED" ELSE "INCIDENT_UPDATED"
           L == {<<i, x>> : x \in new}
           x == [d EXCEPT
                   !.in = in,
                   !.links = @ \cup L,
                   !.inc[i].alerts = count,
                   !.inc[i].events = @ + Cardinality(new),
                   !.inc[i].entities = @ \cup Entities[a],
                   !.inc[i].first = Min(times), !.inc[i].last = Max(times),
                   !.rows = @ \cup {<<i, kind, a>>}]
<1>1. r = Audited(x, i, "alerts", old, count)
  BY DEF Attach, Notification, NewEvents, TimesOf
<1>2. DOMAIN d = {"inc", "in", "links", "rows", "journal"} /\ i \in DOMAIN d.inc /\ DOMAIN d.inc = Alert
      /\ DOMAIN d.in = Alert /\ DOMAIN d.journal = Alert /\ Table(d.inc) /\ Table(d.in) /\ Table(d.journal)
  BY DEF Databases, Table
<1>3. Table(in) /\ in[a] = i /\ \A b \in Alert \ {a} : in[b] = d.in[b]
  BY <1>2, Zenon DEF Table
<1> DEFINE y == x
<1>4. y = x
  OBVIOUS
<1> HIDE DEF new, times, in, count, old, kind, L, y
<1>5. DOMAIN y = DOMAIN d
  BY <1>4, Zenon
<1>6. y.in = in /\ y.journal = d.journal
  BY <1>2, <1>4
<1>7. y.links = d.links \cup L
  BY <1>2, <1>4
<1>8. y.rows = d.rows \cup {<<i, kind, a>>}
  BY <1>2, <1>4
<1> DEFINE f == [d.inc EXCEPT ![i].alerts = count,
                             ![i].events = @ + Cardinality(new),
                             ![i].entities = @ \cup Entities[a],
                             ![i].first = Min(times), ![i].last = Max(times)]
<1>9a. y.inc = f
  BY <1>2, <1>4
<1>9. y.inc[i] = [d.inc[i] EXCEPT !.alerts = count, !.events = @ + Cardinality(new), !.entities = @ \cup Entities[a],
                !.first = Min(times), !.last = Max(times)]
  BY <1>2, <1>9a
<1>10. \A k \in Alert \ {i} : y.inc[k] = d.inc[k]
  BY <1>2, <1>9a
<1>11. Table(y.inc)
  <2>1. Table(f)
    BY <1>2, Zenon DEF Table
  <2> QED  BY <1>9a, <2>1, Zenon DEF Table
<1>12. /\ r.inc = y.inc /\ r.in = y.in /\ r.links = y.links /\ r.rows = y.rows
       /\ DOMAIN r = DOMAIN y /\ r = [z \in DOMAIN y |-> r[z]]
       /\ Table(r.journal)
       /\ \A k \in Alert : IF k = i THEN Enters(y.journal[k], r.journal[k], "alerts", old, count)
                          ELSE r.journal[k] = y.journal[k]
  <2>1. r = Audited(y, i, "alerts", old, count)
    BY <1>1 DEF y
  <2>2. DOMAIN y = {"inc", "in", "links", "rows", "journal"} /\ DOMAIN y.journal = Alert
    BY <1>2, <1>5, <1>6
  <2> QED  BY <2>1, <2>2, AuditedFields
<1>13. count = Cardinality(Attached(r, i))
  BY <1>6, <1>12 DEF count, Attached
<1>14. Joins(d.inc[i], r.inc[i], count, new, times, a)
  BY <1>9, <1>12, Zenon DEF Joins
<1>15. Enters(d.journal[i], r.journal[i], "alerts", d.inc[i].alerts, count)
  BY <1>6, <1>12 DEF old
<1>16. Record(r)
  BY <1>2, <1>5, <1>12 DEF Record
<1> QED  BY <1>3, <1>6, <1>7, <1>8, <1>10, <1>11, <1>12, <1>13, <1>14, <1>15, <1>16
         DEF Attaches, new, times, kind, L
-----------------------------------------------------------------------------
LEMMA JoinedIncident ==
  ASSUME NEW x \in Incident, NEW y, NEW count \in Nat, NEW new, Cardinality(new) \in Nat, NEW times,
         Min(times) \in Int, Max(times) \in Int, NEW a \in Alert, Joins(x, y, count, new, times, a)
  PROVE  /\ y \in Incident /\ y.status = x.status /\ y.assignee = x.assignee /\ y.alerts = count
         /\ y.events = x.events + Cardinality(new) /\ y.entities = x.entities \cup Entities[a]
         /\ y.first = Min(times) /\ y.last = Max(times)
<1>1. Entities[a] \subseteq Entity
  BY DEF Entity
<1>2. DOMAIN x = {"status", "primary", "entities", "alerts", "events", "first", "last", "created", "assignee",
                  "resolvedAt", "closedAt"}
  BY DEF Incident
<1>3. y = [x EXCEPT !.alerts = count, !.events = x.events + Cardinality(new), !.entities = x.entities \cup Entities[a],
                    !.first = Min(times), !.last = Max(times)]
  BY Zenon DEF Joins
<1> DEFINE n == x.events + Cardinality(new)
           es == x.entities \cup Entities[a]
           f == Min(times)
           l == Max(times)
<1>4. n \in Nat /\ es \subseteq Entity /\ f \in Int /\ l \in Int
  BY <1>1 DEF Incident
<1>5. y = [x EXCEPT !.alerts = count, !.events = n, !.entities = es, !.first = f, !.last = l]
  BY <1>3
<1> HIDE DEF n, es, f, l
<1>6. /\ y.status = x.status /\ y.assignee = x.assignee /\ y.alerts = count
      /\ y.events = n /\ y.entities = es /\ y.first = f /\ y.last = l
      /\ y.primary = x.primary /\ y.created = x.created /\ y.resolvedAt = x.resolvedAt /\ y.closedAt = x.closedAt
  BY <1>2, <1>5
<1>7. y \in Incident
  BY <1>4, <1>5 DEF Incident
<1> QED  BY <1>6, <1>7 DEF n, es, f, l

LEMMA ExtendsItself ==
  ASSUME NEW X, NEW s \in Seq(X)
  PROVE  Extends(s, s)
BY DEF Extends

LEMMA AttachKeeps ==
  ASSUME NEW c, Consistent(c), NEW a \in Alert, c.in[a] = None, NEW i \in Alert, NEW e \in Int, Entities[a] # {},
         NEW b \in Databases, b.in = c.in, b.links = c.links, b.rows = c.rows, b.journal = c.journal,
         \A k \in Alert \ {i} : b.inc[k] = c.inc[k],
         \/ c.in[i] = i /\ b.inc[i] = c.inc[i]
         \/ i = a /\ b.inc[i] = NewIncident(a, e),
         NEW r, Attaches(b, i, a, r)
  PROVE  Consistent(r) /\ Continues(c, r)
<1>1. c \in Databases /\ None \notin Alert /\ EventsOf[a] \subseteq Event /\ EventsOf[a] # {}
      /\ \A x \in EventsOf[a] : TimeOf[x] \in Int
  BY IncidentAssumption DEF Consistent, Event
<1>2. \A k \in Alert : LinkedTo(b, k) = LinkedTo(c, k)
  BY DEF LinkedTo
<1>3. /\ Attached(r, i) = Attached(c, i) \cup {a}
      /\ \A k \in Alert \ {i} : Attached(r, k) = Attached(c, k)
  BY <1>1 DEF Attaches, Attached
<1>4. /\ LinkedTo(r, i) = LinkedTo(c, i) \cup EventsOf[a]
      /\ \A k \in Alert \ {i} : LinkedTo(r, k) = LinkedTo(c, k)
  <2>1. \A k \in Alert, z \in Event : <<k, z>> \in r.links <=> <<k, z>> \in c.links \/ (k = i /\ z \in NewEvents(b, i, a))
    BY DEF Attaches
  <2>2. \A k \in Alert \ {i} : LinkedTo(r, k) = LinkedTo(c, k)
    BY <2>1 DEF LinkedTo
  <2>3. \A z \in Event : z \in LinkedTo(r, i) <=> z \in LinkedTo(c, i) \/ z \in EventsOf[a]
    BY <1>2, <2>1 DEF LinkedTo, NewEvents
  <2>4. LinkedTo(r, i) \subseteq Event /\ LinkedTo(c, i) \subseteq Event
    BY DEF LinkedTo
  <2> QED  BY <1>1, <2>2, <2>3, <2>4
<1> DEFINE x == b.inc[i]
           y == r.inc[i]
           count == Cardinality(Attached(r, i))
           new == NewEvents(b, i, a)
           times == TimesOf(b, i, a)
<1>5. new = EventsOf[a] \ LinkedTo(c, i) /\ times = {TimeOf[z] : z \in LinkedTo(r, i)}
  BY <1>2, <1>4 DEF NewEvents, TimesOf
<1>6. /\ x \in Incident /\ x.alerts = Cardinality(Attached(c, i)) /\ x.events = Cardinality(LinkedTo(c, i))
      /\ LinkedTo(c, i) = UNION {EventsOf[z] : z \in Attached(c, i)}
      /\ x.entities \cup Entities[a] = (UNION {Entities[z] : z \in Attached(c, i)}) \cup Entities[a]
      /\ x.assignee = IF c.in[i] = i THEN c.inc[i].assignee ELSE None
      /\ Chained(c.journal[i].alerts, 0, x.alerts) /\ Chained(c.journal[i].status, "open", x.status)
      /\ Chained(c.journal[i].assignee, None, x.assignee)
  <2>1. CASE c.in[i] = i /\ b.inc[i] = c.inc[i]
    <3>1. x = c.inc[i] /\ c.inc[i] \in Incident /\ Counts(c, i) /\ Audits(c, i)
      BY <2>1 DEF Consistent
    <3> HIDE DEF x
    <3>2. /\ x.alerts = Cardinality(Attached(c, i)) /\ x.events = Cardinality(LinkedTo(c, i))
          /\ LinkedTo(c, i) = UNION {EventsOf[z] : z \in Attached(c, i)}
          /\ x.entities = UNION {Entities[z] : z \in Attached(c, i)}
      BY <3>1 DEF Counts
    <3>3. /\ Chained(c.journal[i].alerts, 0, x.alerts) /\ Chained(c.journal[i].status, "open", x.status)
          /\ Chained(c.journal[i].assignee, None, x.assignee)
      BY <3>1 DEF Audits
    <3> QED  BY <2>1, <3>1, <3>2, <3>3
  <2>2. CASE i = a /\ b.inc[i] = NewIncident(a, e)
    <3>1. c.in[i] # i
      BY <1>1, <2>2
    <3>2. Attached(c, i) = {} /\ LinkedTo(c, i) = {} /\ c.journal[i] = Journal
      BY <3>1 DEF Consistent
    <3>3. /\ x.status = "open" /\ x.alerts = 0 /\ x.events = 0 /\ x.entities = Entities[a] /\ x.assignee = None
      BY <2>2 DEF NewIncident
    <3>4. x \in Incident
      <4>1. Primary[a] \in Entity /\ Entities[a] \subseteq Entity
        BY IncidentAssumption DEF Entity
      <4> QED  BY <2>2, <4>1 DEF NewIncident, Incident, Status, Owner
    <3>5. /\ c.journal[i].alerts = <<>> /\ c.journal[i].status = <<>> /\ c.journal[i].assignee = <<>>
      BY <3>2 DEF Journal
    <3>6. \A v : Chained(<<>>, v, v)
      BY DEF Chained
    <3>7. Cardinality({}) = 0
      BY FS_EmptySet
    <3>8. UNION {EventsOf[z] : z \in Attached(c, i)} = {} /\ UNION {Entities[z] : z \in Attached(c, i)} = {}
      BY <3>2
    <3> HIDE DEF x
    <3>9. LinkedTo(c, i) = UNION {EventsOf[z] : z \in Attached(c, i)}
      BY <3>2, <3>8
    <3>10. x.entities \cup Entities[a] = (UNION {Entities[z] : z \in Attached(c, i)}) \cup Entities[a]
      BY <3>3, <3>8
    <3> QED  BY <3>1, <3>2, <3>3, <3>4, <3>5, <3>6, <3>7, <3>9, <3>10
  <2> QED  BY <2>1, <2>2
<1>7. /\ IsFiniteSet(Attached(r, i)) /\ IsFiniteSet(LinkedTo(r, i)) /\ IsFiniteSet(LinkedTo(c, i)) /\ IsFiniteSet(new)
      /\ count \in Nat /\ Cardinality(new) \in Nat /\ Cardinality(LinkedTo(c, i)) \in Nat
  <2>1. Attached(r, i) \in SUBSET Alert /\ LinkedTo(r, i) \in SUBSET Event /\ LinkedTo(c, i) \in SUBSET Event
        /\ new \in SUBSET Event
    BY <1>1, <1>5 DEF Attached, LinkedTo
  <2> HIDE DEF new
  <2> QED  BY <2>1, FiniteData, FS_Subset, FS_CardinalityType
<1>8. Cardinality(LinkedTo(r, i)) = Cardinality(LinkedTo(c, i)) + Cardinality(new)
  <2>1. LinkedTo(r, i) = LinkedTo(c, i) \cup new /\ LinkedTo(c, i) \cap new = {}
    BY <1>4, <1>5
  <2>2. Cardinality(LinkedTo(c, i) \cap new) = 0
    BY <2>1, FS_EmptySet
  <2> HIDE DEF new
  <2>3. Cardinality(LinkedTo(c, i) \cup new) =
          Cardinality(LinkedTo(c, i)) + Cardinality(new) - Cardinality(LinkedTo(c, i) \cap new)
    BY <1>7, FS_Union
  <2> QED  BY <1>7, <2>1, <2>2, <2>3
<1>9. Min(times) \in Int /\ Max(times) \in Int
  <2>1. times # {}
    <3>1. PICK z \in EventsOf[a] : z \in LinkedTo(r, i)
      BY <1>1, <1>4
    <3> QED  BY <1>5, <3>1
  <2>2. \A z \in LinkedTo(r, i) : TimeOf[z] \in Int
    BY IncidentAssumption DEF LinkedTo, Event
  <2>3. IsFiniteSet(times)
    BY <1>5, <1>7, FiniteImage
  <2>4. times \subseteq Int
    BY <1>5, <2>2
  <2> HIDE DEF times
  <2> QED  BY <2>1, <2>3, <2>4, Extremes
<1>10. /\ y \in Incident /\ y.status = x.status /\ y.assignee = x.assignee /\ y.alerts = count
       /\ y.events = x.events + Cardinality(new) /\ y.entities = x.entities \cup Entities[a]
       /\ y.first = Min(times) /\ y.last = Max(times)
  <2>1. Joins(x, y, count, new, times, a)
    BY DEF Attaches
  <2> HIDE DEF x, y, count, new, times
  <2> QED  BY <1>6, <1>7, <1>9, <2>1, JoinedIncident
<1>11. Counts(r, i)
  <2>1. LinkedTo(r, i) = UNION {EventsOf[z] : z \in Attached(r, i)}
    BY <1>3, <1>4, <1>6
  <2>2. y.entities = UNION {Entities[z] : z \in Attached(r, i)}
    <3>1. \A S : UNION {Entities[z] : z \in S \cup {a}} = (UNION {Entities[z] : z \in S}) \cup Entities[a]
      OBVIOUS
    <3>2. y.entities = (UNION {Entities[z] : z \in Attached(c, i)}) \cup Entities[a]
      BY <1>6, <1>10
    <3> HIDE DEF y
    <3> QED  BY <1>3, <3>1, <3>2
  <2>3. y.events = Cardinality(LinkedTo(r, i))
    BY <1>6, <1>8, <1>10
  <2> QED  BY <1>5, <1>10, <2>1, <2>2, <2>3 DEF Counts
<1>12. /\ Audits(r, i) /\ r.journal[i] \in Journals
       /\ Extends(c.journal[i].alerts, r.journal[i].alerts) /\ r.journal[i].status = c.journal[i].status
  <2> DEFINE p == c.journal[i]
             q == r.journal[i]
  <2>1. p \in Journals /\ b.journal[i] = p
    BY <1>1 DEF Databases
  <2>2. Enters(p, q, "alerts", x.alerts, count)
    BY <2>1 DEF Attaches
  <2>3. x.alerts \in Nat /\ count \in Nat
    BY <1>6, <1>7 DEF Incident
  <2> HIDE DEF p, q
  <2>4. Entered(p, q, "alerts", x.alerts, count)
    BY <2>1, <2>2, <2>3, EntryFields
  <2>5. /\ q \in Journals /\ q.alerts = Append(p.alerts, <<x.alerts, count>>)
        /\ q.status = p.status /\ q.assignee = p.assignee
    BY <2>4 DEF Entered
  <2>6. p.alerts \in Seq(Nat \X Nat) /\ Chained(p.alerts, 0, x.alerts)
    BY <1>6, <2>1 DEF Journals, p
  <2>7. Chained(q.alerts, 0, count) /\ Extends(p.alerts, q.alerts)
    <3> DEFINE s == p.alerts
               old == x.alerts
    <3>1. s \in Seq(Nat \X Nat) /\ Chained(s, 0, old) /\ old \in Nat
      BY <2>3, <2>6
    <3> HIDE DEF s, old, count
    <3>2. Chained(Append(s, <<old, count>>), 0, count) /\ Extends(s, Append(s, <<old, count>>))
      BY <2>3, <3>1, ChainAppend
    <3> QED  BY <2>5, <3>2 DEF s, old
  <2> QED  BY <1>6, <1>10, <2>5, <2>7 DEF Audits, p, q
<1>13. r \in Databases
  <2>1. r.inc \in [Alert -> Incident \cup {NoIncident}]
    <3>1. \A k \in Alert : r.inc[k] \in Incident \cup {NoIncident}
      BY <1>1, <1>10 DEF Attaches, Databases
    <3> QED  BY <3>1 DEF Attaches, Table
  <2>2. r.in \in [Alert -> Alert \cup {None}]
    <3>1. \A k \in Alert : r.in[k] \in Alert \cup {None}
      BY <1>1 DEF Attaches, Databases
    <3> QED  BY <3>1 DEF Attaches, Table
  <2>3. r.journal \in [Alert -> Journals]
    <3>1. \A k \in Alert : r.journal[k] \in Journals
      BY <1>1, <1>12 DEF Attaches, Databases
    <3> QED  BY <3>1 DEF Attaches, Table
  <2>4. r.links \subseteq Alert \X Event
    BY <1>1 DEF Attaches, Databases, NewEvents
  <2>5. r.rows \subseteq Alert \X Kind \X Alert
    BY <1>1 DEF Attaches, Databases, Kind
  <2> QED  BY <2>1, <2>2, <2>3, <2>4, <2>5, IsDatabase DEF Attaches
<1>14. r.in[i] = i /\ \A k \in Alert \ {i} : r.in[k] = k <=> c.in[k] = k
  BY <1>1 DEF Attaches
<1>15. ASSUME NEW k \in Alert
       PROVE  IF r.in[k] = k THEN r.inc[k] \in Incident /\ Counts(r, k) /\ Audits(r, k)
              ELSE r.inc[k] = NoIncident /\ r.journal[k] = Journal /\ Attached(r, k) = {} /\ LinkedTo(r, k) = {}
  <2>1. CASE k = i
    BY <1>10, <1>11, <1>12, <1>14, <2>1
  <2>2. CASE k # i
    <3>1. r.inc[k] = c.inc[k] /\ r.journal[k] = c.journal[k] /\ Attached(r, k) = Attached(c, k)
          /\ LinkedTo(r, k) = LinkedTo(c, k)
      BY <1>3, <1>4, <2>2 DEF Attaches
    <3> QED  BY <1>14, <2>2, <3>1, SMTT(30) DEF Consistent, Counts, Audits
  <2> QED  BY <2>1, <2>2
<1>16. ASSUME NEW k \in Alert PROVE Notified(r, k)
  <2> DEFINE row == <<i, IF i = a THEN "INCIDENT_CREATED" ELSE "INCIDENT_UPDATED", a>>
  <2>1. r.rows = c.rows \cup {row} /\ row[3] = a /\ row[1] = i
        /\ row[2] = (IF i = a THEN "INCIDENT_CREATED" ELSE "INCIDENT_UPDATED")
    BY DEF Attaches
  <2>2. row[2] # "INCIDENT_STATUS_CHANGED"
    BY <2>1
  <2> HIDE DEF row
  <2>3. CASE k # a
    <3>1. Told(r, k) = Told(c, k) /\ r.in[k] = c.in[k]
      BY <2>1, <2>3 DEF Told, Attaches
    <3> QED  BY <3>1 DEF Consistent, Notified
  <2>4. CASE k = a
    <3>1. Told(c, a) = {}
      <4>1. {<<z[1], z[2]>> : z \in Told(c, a)} = {}
        BY DEF Consistent, Notified
      <4> QED  BY <4>1
    <3>2. Told(r, a) = {row}
      BY <2>1, <2>2, <3>1 DEF Told
    <3>3. r.in[a] = i
      BY DEF Attaches
    <3>4. {<<z[1], z[2]>> : z \in Told(r, a)} = {<<row[1], row[2]>>}
      BY <3>2
    <3> QED  BY <1>1, <2>1, <2>4, <3>3, <3>4 DEF Notified
  <2> QED  BY <2>3, <2>4
<1>17. Grows(c, r)
  <2>1. \A k \in Alert : c.in[k] # None => r.in[k] = c.in[k]
    BY DEF Attaches
  <2> QED  BY <2>1 DEF Attaches, Grows
<1>18. ASSUME NEW k \in Alert
       PROVE  /\ Extends(c.journal[k].alerts, r.journal[k].alerts)
              /\ Extends(c.journal[k].status, r.journal[k].status)
              /\ r.in[k] = k => r.inc[k].assignee = IF c.in[k] = k THEN c.inc[k].assignee ELSE None
  <2>1. c.journal[k].alerts \in Seq(Nat \X Nat) /\ c.journal[k].status \in Seq(Status \X Status)
    BY <1>1 DEF Databases, Journals
  <2>2. Extends(c.journal[k].alerts, c.journal[k].alerts) /\ Extends(c.journal[k].status, c.journal[k].status)
    BY <2>1, ExtendsItself
  <2>3. CASE k = i
    BY <1>6, <1>10, <1>12, <2>2, <2>3
  <2>4. CASE k # i
    BY <1>14, <2>2, <2>4 DEF Attaches
  <2> QED  BY <2>3, <2>4
<1> QED  BY <1>13, <1>15, <1>16, <1>17, <1>18 DEF Consistent, Continues
-----------------------------------------------------------------------------
(* The candidate ranker's choice.                                          *)

LEMMA BeforeMeans ==
  ASSUME NEW x, NEW y, DOMAIN x = 1..4, Before(x, y)
  PROVE  \/ x[1] > y[1]
         \/ x[1] = y[1] /\ x[2] > y[2]
         \/ x[1] = y[1] /\ x[2] = y[2] /\ x[3] > y[3]
         \/ x[1] = y[1] /\ x[2] = y[2] /\ x[3] = y[3] /\ x[4] > y[4]
<1>1. PICK k \in 1..4 : x[k] > y[k] /\ \A l \in 1..k-1 : x[l] = y[l]
  BY DEF Before
<1>2. k = 1 \/ k = 2 \/ k = 3 \/ k = 4
  BY <1>1
<1>3. (k > 1 => x[1] = y[1]) /\ (k > 2 => x[2] = y[2]) /\ (k > 3 => x[3] = y[3])
  BY <1>1, <1>2
<1> QED  BY <1>1, <1>2, <1>3

LEMMA BestIsACandidate ==
  ASSUME NEW d \in Databases, NEW S \in SUBSET Alert, S # {}, \A i \in S : d.inc[i] \in Incident, NEW a \in Alert
  PROVE  Best(d, S, a) \in S
<1> DEFINE f1 == [i \in S |-> Cardinality(d.inc[i].entities \cap EligibleEntities(a))]
           f2 == [i \in S |-> d.inc[i].last]
           f3 == [i \in S |-> IF Source[a] \in SourcesOf(d, i) THEN 1 ELSE 0]
           f4 == [i \in S |-> -d.inc[i].created]
<1>1. ASSUME NEW i \in S PROVE f1[i] \in Int /\ f2[i] \in Int /\ f3[i] \in Int /\ f4[i] \in Int
  <2>1. IsFiniteSet(Entities[a])
    BY IncidentAssumption
  <2>2. IsFiniteSet(d.inc[i].entities \cap EligibleEntities(a))
    BY <2>1, FS_Subset DEF EligibleEntities
  <2>3. Cardinality(d.inc[i].entities \cap EligibleEntities(a)) \in Nat
    BY <2>2, FS_CardinalityType
  <2>4. d.inc[i].last \in Int /\ d.inc[i].created \in Int
    BY DEF Incident
  <2> QED  BY <2>3, <2>4
<1>2. ASSUME NEW i \in S
      PROVE  /\ DOMAIN Rank(d, i, a) = 1..4
             /\ Rank(d, i, a)[1] = f1[i] /\ Rank(d, i, a)[2] = f2[i]
             /\ Rank(d, i, a)[3] = f3[i] /\ Rank(d, i, a)[4] = f4[i]
  BY DEF Rank
<1> HIDE DEF f1, f2, f3, f4
<1>3. IsFiniteSet(S)
  BY FiniteData, FS_Subset
<1>4. PICK m1 \in S : \A k \in S : f1[m1] >= f1[k]
  BY <1>1, <1>3, LargestElement
<1> DEFINE S1 == {i \in S : f1[i] = f1[m1]}
<1>5. S1 # {} /\ IsFiniteSet(S1) /\ S1 \subseteq S
  BY <1>3, FS_Subset
<1>6. PICK m2 \in S1 : \A k \in S1 : f2[m2] >= f2[k]
  BY <1>1, <1>5, LargestElement
<1> DEFINE S2 == {i \in S1 : f2[i] = f2[m2]}
<1>7. S2 # {} /\ IsFiniteSet(S2) /\ S2 \subseteq S
  BY <1>5, FS_Subset
<1>8. PICK m3 \in S2 : \A k \in S2 : f3[m3] >= f3[k]
  BY <1>1, <1>7, LargestElement
<1> DEFINE S3 == {i \in S2 : f3[i] = f3[m3]}
<1>9. S3 # {} /\ IsFiniteSet(S3) /\ S3 \subseteq S
  BY <1>7, FS_Subset
<1>10. PICK m \in S3 : \A k \in S3 : f4[m] >= f4[k]
  BY <1>1, <1>9, LargestElement
<1>11. m \in S /\ f1[m] = f1[m1] /\ f2[m] = f2[m2] /\ f3[m] = f3[m3]
  OBVIOUS
<1>12. ASSUME NEW k \in S, Before(Rank(d, k, a), Rank(d, m, a)) PROVE FALSE
  <2>2. /\ f1[k] \in Int /\ f2[k] \in Int /\ f3[k] \in Int /\ f4[k] \in Int
        /\ f1[m] \in Int /\ f2[m] \in Int /\ f3[m] \in Int /\ f4[m] \in Int
    BY <1>1, <1>11
  <2>3. \/ f1[k] > f1[m]
        \/ f1[k] = f1[m] /\ f2[k] > f2[m]
        \/ f1[k] = f1[m] /\ f2[k] = f2[m] /\ f3[k] > f3[m]
        \/ f1[k] = f1[m] /\ f2[k] = f2[m] /\ f3[k] = f3[m] /\ f4[k] > f4[m]
    BY <1>2, <1>11, <1>12, BeforeMeans
  <2>4. f1[m] >= f1[k]
    BY <1>4, <1>11
  <2>5. f1[k] = f1[m] => f2[m] >= f2[k]
    BY <1>6, <1>11
  <2>6. f1[k] = f1[m] /\ f2[k] = f2[m] => f3[m] >= f3[k]
    BY <1>8, <1>11
  <2>7. f1[k] = f1[m] /\ f2[k] = f2[m] /\ f3[k] = f3[m] => f4[m] >= f4[k]
    BY <1>10, <1>11
  <2> QED  BY <2>2, <2>3, <2>4, <2>5, <2>6, <2>7
<1>13. \E i \in S : \A k \in S : ~Before(Rank(d, k, a), Rank(d, i, a))
  BY <1>11, <1>12
<1> QED  BY <1>13, Zenon DEF Best

(* correlateAlert.                                                         *)

LEMMA ContinuesOn ==
  ASSUME NEW d, NEW c, NEW r, Consistent(d), Consistent(c), Consistent(r), Continues(d, c), Continues(c, r)
  PROVE  Continues(d, r)
<1>1. None \notin Alert
  BY IncidentAssumption
<1>2. Grows(d, r)
  BY DEF Continues, Grows
<1>3. ASSUME NEW i \in Alert
      PROVE  /\ Extends(d.journal[i].alerts, r.journal[i].alerts)
             /\ Extends(d.journal[i].status, r.journal[i].status)
  <2>1. \A x \in {d, c, r} : x.journal[i].alerts \in Seq(Nat \X Nat) /\ x.journal[i].status \in Seq(Status \X Status)
    <3>1. \A x \in {d, c, r} : x \in Databases
      BY DEF Consistent
    <3>2. \A x \in Databases : x.journal[i] \in Journals
      BY DEF Databases
    <3>3. \A q \in Journals : q.alerts \in Seq(Nat \X Nat) /\ q.status \in Seq(Status \X Status)
      BY DEF Journals
    <3> QED  BY <3>1, <3>2, <3>3, Zenon
  <2>2. \A X : \A s, t, u \in Seq(X) : Extends(s, t) /\ Extends(t, u) => Extends(s, u)
    BY DEF Extends
  <2> QED  BY <2>1, <2>2 DEF Continues
<1>4. ASSUME NEW i \in Alert, r.in[i] = i
      PROVE  r.inc[i].assignee = IF d.in[i] = i THEN d.inc[i].assignee ELSE None
  BY <1>1, <1>4 DEF Continues, Grows
<1> QED  BY <1>2, <1>3, <1>4 DEF Continues

LEMMA ContinuesItself ==
  ASSUME NEW d, Consistent(d)
  PROVE  Continues(d, d)
<1>1. \A i \in Alert : d.journal[i].alerts \in Seq(Nat \X Nat) /\ d.journal[i].status \in Seq(Status \X Status)
  BY DEF Consistent, Databases, Journals
<1>2. \A i \in Alert : Extends(d.journal[i].alerts, d.journal[i].alerts) /\ Extends(d.journal[i].status, d.journal[i].status)
  BY <1>1, ExtendsItself
<1>3. \A i \in Alert : d.inc[i] = NoIncident \/ d.in[i] = i
  BY DEF Consistent
<1> QED  BY <1>2, <1>3 DEF Continues, Grows

LEMMA CorrelateAlertKeeps ==
  ASSUME NEW d, Consistent(d), NEW a \in Alert, NEW t \in Int, NEW e \in Int
  PROVE  Consistent(CorrelateAlert(d, a, t, e)) /\ Continues(d, CorrelateAlert(d, a, t, e))
<1>1. CASE d.in[a] # None \/ Entities[a] = {}
  BY <1>1, ContinuesItself DEF CorrelateAlert
<1>2. CASE d.in[a] = None /\ Entities[a] # {}
  <2> DEFINE S == Expired(d, a, t, e)
             c == Expire(d, S, a)
             i == Target(d, a, t, e)
             b == IF i = a THEN [c EXCEPT !.inc[i] = NewIncident(a, e)] ELSE c
  <2>1. CorrelateAlert(d, a, t, e) = Attach(b, i, a)
    BY <1>2 DEF CorrelateAlert
  <2>2. d \in Databases
    BY DEF Consistent
  <2>3. \A k \in Candidates(d, a, t) : k \in Alert /\ d.in[k] = k /\ d.inc[k] \in Incident
    <3>1. \A k \in Alert : d.in[k] # k => d.inc[k].status = None
      BY DEF Consistent, NoIncident
    <3>2. None \notin Active
      BY DEF None, Active
    <3> QED  BY <3>1, <3>2 DEF Candidates, Consistent
  <2>4. S \in SUBSET Alert /\ \A k \in S : d.in[k] = k
    BY <2>3 DEF Expired
  <2> HIDE DEF S
  <2>5. /\ Consistent(c) /\ Continues(d, c) /\ c.in = d.in
        /\ \A k \in Alert \ S : c.inc[k] = d.inc[k]
    BY <2>4, ExpireKeeps
  <2>6. i \in Alert /\ (i # a => d.in[i] = i /\ i \notin S)
    <3> DEFINE R == Ranked(d, a, t, e)
    <3>1. R \in SUBSET Alert /\ R \cap S = {} /\ \A k \in R : d.in[k] = k /\ d.inc[k] \in Incident
      BY <2>3 DEF Ranked, S
    <3> HIDE DEF R
    <3>2. R # {} => Best(d, R, a) \in R
      BY <2>2, <3>1, BestIsACandidate
    <3>3. i = a \/ (R # {} /\ i = Best(d, R, a))
      BY DEF Target, R
    <3> QED  BY <3>1, <3>2, <3>3
  <2> HIDE DEF c, i
  <2>7. /\ b \in Databases /\ b.in = c.in /\ b.links = c.links /\ b.rows = c.rows /\ b.journal = c.journal
        /\ \A k \in Alert \ {i} : b.inc[k] = c.inc[k]
        /\ \/ c.in[i] = i /\ b.inc[i] = c.inc[i]
           \/ i = a /\ b.inc[i] = NewIncident(a, e)
    <3>1. CASE i # a
      <4>1. b = c /\ c.in[i] = i
        BY <2>5, <2>6, <3>1
      <4> QED  BY <2>5, <4>1 DEF Consistent
    <3>2. CASE i = a
      <4> DEFINE x == NewIncident(a, e)
                 I == [c.inc EXCEPT ![i] = x]
      <4>1. x \in Incident
        <5>1. Primary[a] \in Entity /\ Entities[a] \subseteq Entity
          BY <1>2, IncidentAssumption DEF Entity
        <5> QED  BY <5>1 DEF NewIncident, Incident, Status, Owner
      <4> HIDE DEF x
      <4>2. c \in Databases
        BY <2>5 DEF Consistent
      <4>3. c.inc \in [Alert -> Incident \cup {NoIncident}]
        BY <4>2 DEF Databases
      <4>4. I \in [Alert -> Incident \cup {NoIncident}] /\ I[i] = x /\ \A k \in Alert \ {i} : I[k] = c.inc[k]
        BY <2>6, <4>1, <4>3
      <4>5. b = [c EXCEPT !.inc = I]
        BY <3>2 DEF x
      <4> HIDE DEF I
      <4>6. /\ b \in Databases /\ b.in = c.in /\ b.links = c.links /\ b.rows = c.rows /\ b.journal = c.journal
            /\ b.inc = I
        BY <4>2, <4>4, <4>5 DEF Databases
      <4> QED  BY <3>2, <4>4, <4>6 DEF x
    <3> QED  BY <3>1, <3>2
  <2> HIDE DEF b
  <2> DEFINE r == Attach(b, i, a)
  <2>8. Attaches(b, i, a, r)
    BY <2>6, <2>7, AttachFields
  <2> HIDE DEF r
  <2>9. c.in[a] = None
    BY <1>2, <2>5
  <2>10. Consistent(r) /\ Continues(c, r)
    BY <1>2, <2>5, <2>6, <2>7, <2>8, <2>9, AttachKeeps
  <2> QED  BY <2>1, <2>5, <2>10, ContinuesOn DEF r
<1> QED  BY <1>1, <1>2
-----------------------------------------------------------------------------
(* correlate: a batch of alerts.                                           *)

LEMMA CorrelateKeeps ==
  ASSUME NEW d, Consistent(d), NEW j \in Job, NEW t \in Int, NEW e \in Int
  PROVE  Consistent(Correlate(d, j, t, e)) /\ Continues(d, Correlate(d, j, t, e))
<1> DEFINE s == AlertsOf[j]
           L == Len(s)
           One(x, n) == CorrelateAlert(x, s[n], t, e)
           Upto(g, m) == [n \in 0..m |-> IF n = 0 THEN d ELSE One(g[n-1], n)]
           after == CHOOSE g : g = Upto(g, L)
<1>1. L \in Nat /\ \A n \in 1..L : s[n] \in Alert
  <2>1. s \in Seq(Range(s)) /\ Range(s) \subseteq Alert
    BY IncidentAssumption DEF Alert
  <2> QED  BY <2>1
<1>2. Correlate(d, j, t, e) = after[L]
  BY DEF Correlate
<1> HIDE DEF L, One
<1>3. \A m \in Nat : \E g : g = Upto(g, m)
  <2> DEFINE T == {m \in Nat : ~(\E g : g = Upto(g, m))}
  <2>1. SUFFICES ASSUME T # {} PROVE FALSE
    OBVIOUS
  <2>2. PICK m \in T : \A k \in T : m <= k
    <3>1. T \subseteq Nat
      OBVIOUS
    <3> HIDE DEF T
    <3> QED  BY <2>1, <3>1, LeastNumber
  <2>3. CASE m = 0
    <3> DEFINE h == [n \in 0..0 |-> d]
    <3>1. h = Upto(h, 0)
      OBVIOUS
    <3> QED  BY <2>2, <2>3, <3>1
  <2>4. CASE m # 0
    <3>1. m \in Nat /\ m - 1 \in Nat /\ m - 1 \notin T
      BY <2>2, <2>4
    <3>2. PICK g : g = Upto(g, m - 1)
      BY <3>1
    <3> DEFINE h == [n \in 0..m |-> IF n = m THEN One(g[m-1], m) ELSE g[n]]
    <3>3. \A n \in 0..m-1 : h[n] = g[n] /\ g[n] = IF n = 0 THEN d ELSE One(g[n-1], n)
      <4>1. \A n \in 0..m-1 : n \in 0..m /\ n # m
        BY <3>1
      <4>2. \A n \in 0..m-1 : h[n] = g[n]
        BY <4>1
      <4> HIDE DEF h
      <4> QED  BY <3>2, <4>2
    <3>4. h[m] = One(g[m-1], m)
      BY <3>1
    <3>5. \A n \in 0..m : h[n] = IF n = 0 THEN d ELSE One(h[n-1], n)
      <4> TAKE n \in 0..m
      <4> HIDE DEF h
      <4>1. CASE n = m
        <5>1. m - 1 \in 0..m-1
          BY <3>1
        <5> QED  BY <2>4, <3>3, <3>4, <4>1, <5>1
      <4>2. CASE n # m
        <5>1. n \in 0..m-1 /\ (n # 0 => n - 1 \in 0..m-1)
          BY <3>1, <4>2
        <5> QED  BY <3>3, <5>1
      <4> QED  BY <4>1, <4>2
    <3>6. h = [n \in 0..m |-> h[n]]
      OBVIOUS
    <3> HIDE DEF h
    <3>7. h = Upto(h, m)
      BY <3>5, <3>6
    <3> QED  BY <2>2, <3>7
  <2> QED  BY <2>3, <2>4
<1>4. after = Upto(after, L)
  <2>1. \E g : g = Upto(g, L)
    BY <1>1, <1>3
  <2> HIDE DEF Upto
  <2> QED  BY <2>1
<1> HIDE DEF after
<1>5. \A n \in 0..L : after[n] = IF n = 0 THEN d ELSE One(after[n-1], n)
  BY <1>4
<1>6. \A n \in 0..L : Consistent(after[n]) /\ Continues(d, after[n])
  <2> DEFINE T == {n \in 0..L : ~(Consistent(after[n]) /\ Continues(d, after[n]))}
  <2>1. SUFFICES ASSUME T # {} PROVE FALSE
    OBVIOUS
  <2>2. PICK n \in T : \A k \in T : n <= k
    <3>1. T \subseteq Nat
      BY <1>1
    <3> HIDE DEF T
    <3> QED  BY <2>1, <3>1, LeastNumber
  <2>3. n \in 0..L /\ ~(Consistent(after[n]) /\ Continues(d, after[n]))
    BY <2>2
  <2>4. n # 0
    BY <1>5, <2>3, ContinuesItself
  <2> DEFINE x == after[n-1]
  <2>5. n - 1 \in 0..L /\ n \in 1..L /\ n - 1 \notin T
    BY <1>1, <2>2, <2>3, <2>4
  <2>6. Consistent(x) /\ Continues(d, x)
    BY <2>5
  <2>7. after[n] = CorrelateAlert(x, s[n], t, e)
    BY <1>5, <2>3, <2>4 DEF One
  <2> HIDE DEF x, T, s
  <2>8. Consistent(after[n]) /\ Continues(x, after[n])
    BY <1>1, <2>5, <2>6, <2>7, CorrelateAlertKeeps
  <2> QED  BY <2>3, <2>6, <2>8, ContinuesOn
<1>7. L \in 0..L
  BY <1>1
<1> QED  BY <1>2, <1>6, <1>7

(* A transaction that PostgreSQL does not refuse.                          *)

Appends(x, A, B, y) == y = [x EXCEPT !.alerts = A, !.status = B]

LEMMA MergedJournal ==
  ASSUME NEW x \in Journals, NEW A \in Seq(Nat \X Nat), NEW B \in Seq(Status \X Status),
         NEW y, Appends(x, A, B, y)
  PROVE  y \in Journals /\ y.alerts = A /\ y.status = B /\ y.assignee = x.assignee
<1>1. DOMAIN x = {"alerts", "status", "assignee", "notes"}
  BY DEF Journals
<1>2. y.alerts = A /\ y.status = B /\ y.assignee = x.assignee
  BY <1>1 DEF Appends
<1>3. y \in Journals
  BY DEF Journals, Appends
<1> QED  BY <1>2, <1>3

LEMMA MergeKeeps ==
  ASSUME NEW j \in Job, Consistent(db), NEW s, NEW r, s = tx[j].snapshot, r = tx[j].result,
         Consistent(s), Grows(s, db), Consistent(r), Continues(s, r), ConflictFree(j)
  PROVE  Consistent(Merge(j)) /\ Grows(db, Merge(j))
<1> DEFINE m == Merge(j)
           C == Changed(j)
           A == AttachedBy(j)
<1>1. db \in Databases /\ s \in Databases /\ r \in Databases /\ None \notin Alert
  BY IncidentAssumption DEF Consistent
<1>2. /\ C = {i \in Alert : r.inc[i] # s.inc[i]} /\ A = {a \in Alert : r.in[a] # s.in[a]}
      /\ \A i \in C : db.inc[i] = s.inc[i]
      /\ \A a \in A : db.in[a] = s.in[a]
  BY DEF Changed, AttachedBy, Result, ConflictFree
<1>3. /\ m.inc = [i \in Alert |-> IF i \in C THEN r.inc[i] ELSE db.inc[i]]
      /\ m.in = [a \in Alert |-> IF a \in A THEN r.in[a] ELSE db.in[a]]
      /\ m.links = db.links \cup r.links /\ m.rows = db.rows \cup r.rows
      /\ DOMAIN m.journal = Alert
      /\ \A i \in Alert \ C : m.journal[i] = db.journal[i]
      /\ Record(m) /\ Table(m.journal)
  BY DEF Merge, Result, Record, Table
<1>4. ASSUME NEW i \in C
      PROVE  m.journal[i] =
               [db.journal[i] EXCEPT
                  !.alerts = @ \o SubSeq(r.journal[i].alerts, Len(s.journal[i].alerts) + 1, Len(r.journal[i].alerts)),
                  !.status = @ \o SubSeq(r.journal[i].status, Len(s.journal[i].status) + 1, Len(r.journal[i].status))]
  <2>1. i \in Alert
    BY <1>2
  <2> QED  BY <2>1, Zenon DEF Merge, Result
<1> HIDE DEF m, C, A
\* What was not there is not attached.
<1>5. \A d \in {db, s, r}, i \in Alert :
        /\ d.inc[i] = NoIncident <=> d.in[i] # i
        /\ d.in[i] # i => Attached(d, i) = {} /\ LinkedTo(d, i) = {} /\ d.journal[i] = Journal
        /\ d.in[i] = i => d.inc[i] \in Incident /\ Counts(d, i) /\ Audits(d, i)
  <2>1. NoIncident \notin Incident
    BY DEF NoIncident, Incident, Status, None
  <2> QED  BY <2>1 DEF Consistent
<1>6. \A d \in {db, s, r}, i \in Alert :
        IsFiniteSet(Attached(d, i)) /\ IsFiniteSet(LinkedTo(d, i))
  BY FiniteData, FS_Subset DEF Attached, LinkedTo
<1>7. /\ \A a \in Alert : s.in[a] # None => db.in[a] = s.in[a] /\ r.in[a] = s.in[a]
      /\ s.links \subseteq db.links /\ s.links \subseteq r.links
  BY DEF Continues, Grows
\* The counters tell whether anything joined an incident.
<1>8. ASSUME NEW i \in Alert, NEW d \in {db, r}, d.inc[i] = s.inc[i]
      PROVE  Attached(d, i) = Attached(s, i) /\ LinkedTo(d, i) = LinkedTo(s, i)
  <2>1. Attached(s, i) \subseteq Attached(d, i) /\ LinkedTo(s, i) \subseteq LinkedTo(d, i)
    BY <1>1, <1>7 DEF Attached, LinkedTo
  <2>2. CASE s.in[i] = i
    <3>1. d.in[i] = i
      BY <1>5, <1>8, <2>2
    <3>2. /\ Cardinality(Attached(d, i)) = Cardinality(Attached(s, i))
          /\ Cardinality(LinkedTo(d, i)) = Cardinality(LinkedTo(s, i))
      <4>1. Counts(d, i) /\ Counts(s, i)
        BY <1>5, <2>2, <3>1
      <4> QED  BY <1>8, <4>1 DEF Counts
    <3>3. Attached(d, i) = Attached(s, i)
      <4>1. IsFiniteSet(Attached(d, i))
        BY <1>6
      <4> QED  BY <2>1, <3>2, <4>1, SameSize
    <3>4. LinkedTo(d, i) = LinkedTo(s, i)
      <4>1. IsFiniteSet(LinkedTo(d, i))
        BY <1>6
      <4> QED  BY <2>1, <3>2, <4>1, SameSize
    <3> QED  BY <3>3, <3>4
  <2>3. CASE s.in[i] # i
    <3>1. d.in[i] # i
      BY <1>5, <1>8, <2>3
    <3>2. Attached(d, i) = {} /\ LinkedTo(d, i) = {}
      <4>1. d \in {db, s, r}
        OBVIOUS
      <4> QED  BY <1>5, <3>1, <4>1
    <3>3. Attached(s, i) = {} /\ LinkedTo(s, i) = {}
      BY <1>5, <2>3
    <3> QED  BY <3>2, <3>3
  <2> QED  BY <2>2, <2>3
<1>9. \A i \in C : Attached(db, i) = Attached(s, i) /\ LinkedTo(db, i) = LinkedTo(s, i)
  BY <1>2, <1>8
<1>10. \A i \in Alert \ C : Attached(r, i) = Attached(s, i) /\ LinkedTo(r, i) = LinkedTo(s, i)
  BY <1>2, <1>8
<1>11. \A a \in A : s.in[a] = None /\ db.in[a] = None /\ r.in[a] \in C
  <2> TAKE a \in A
  <2>1. a \in Alert /\ s.in[a] = None /\ r.in[a] # None /\ db.in[a] = None
    BY <1>2, <1>7
  <2>2. r.in[a] \in Alert
    BY <1>1, <2>1 DEF Databases
  <2>3. a \in Attached(r, r.in[a]) /\ a \notin Attached(s, r.in[a])
    BY <1>1, <2>1, <2>2 DEF Attached
  <2> QED  BY <1>10, <2>1, <2>2, <2>3
<1>12. \A i \in C : Attached(m, i) = Attached(r, i)
  <2> TAKE i \in C
  <2>1. \A a \in Alert : m.in[a] = i <=> r.in[a] = i
    <3> TAKE a \in Alert
    <3>1. CASE a \in A
      BY <1>3, <3>1
    <3>2. CASE a \notin A
      <4>1. m.in[a] = db.in[a]
        BY <1>3, <3>2
      <4>2. r.in[a] = s.in[a]
        BY <1>2, <3>2
      <4>3. db.in[a] = i <=> s.in[a] = i
        BY <1>9 DEF Attached
      <4> QED  BY <4>1, <4>2, <4>3
    <3> QED  BY <3>1, <3>2
  <2> QED  BY <2>1 DEF Attached
<1>13. \A i \in Alert \ C : Attached(m, i) = Attached(db, i)
  <2> TAKE i \in Alert \ C
  <2>1. \A a \in Alert : m.in[a] = i <=> db.in[a] = i
    <3> TAKE a \in Alert
    <3>1. CASE a \in A
      BY <1>1, <1>3, <1>11, <3>1
    <3>2. CASE a \notin A
      BY <1>3, <3>2
    <3> QED  BY <3>1, <3>2
  <2> QED  BY <2>1 DEF Attached
<1>14. \A i \in Alert : LinkedTo(m, i) = LinkedTo(db, i) \cup LinkedTo(r, i)
  BY <1>3 DEF LinkedTo
<1>15. \A i \in C : LinkedTo(m, i) = LinkedTo(r, i)
  <2> TAKE i \in C
  <2>1. LinkedTo(s, i) \subseteq LinkedTo(r, i)
    BY <1>7 DEF LinkedTo
  <2> QED  BY <1>2, <1>9, <1>14, <2>1, ZenonT(30)
<1>16. \A i \in Alert \ C : LinkedTo(m, i) = LinkedTo(db, i)
  <2> TAKE i \in Alert \ C
  <2>1. LinkedTo(s, i) \subseteq LinkedTo(db, i)
    BY <1>7 DEF LinkedTo
  <2> QED  BY <1>10, <1>14, <2>1
<1>17. \A i \in C : (m.in[i] = i) /\ r.in[i] = i /\ m.inc[i] = r.inc[i]
  <2> TAKE i \in C
  <2>1. i \in Alert /\ r.inc[i] # s.inc[i] /\ m.inc[i] = r.inc[i]
    BY <1>2, <1>3
  <2>2. r.in[i] = i
    <3>1. SUFFICES ASSUME r.in[i] # i PROVE FALSE
      OBVIOUS
    <3>2. r.inc[i] = NoIncident /\ s.in[i] = i
      BY <1>5, <2>1, <3>1
    <3> QED  BY <1>1, <1>7, <2>1, <3>1, <3>2
  <2>3. i \in Attached(m, i)
    BY <1>12, <2>1, <2>2 DEF Attached
  <2> QED  BY <2>1, <2>2, <2>3 DEF Attached
<1>18. ASSUME NEW i \in C PROVE Audits(m, i) /\ m.journal[i] \in Journals
  <2> DEFINE w == db.journal[i]
             p == s.journal[i]
             u == r.journal[i]
             x == s.inc[i]
             y == r.inc[i]
  <2>1. i \in Alert /\ db.inc[i] = x /\ (db.in[i] = i <=> s.in[i] = i)
    BY <1>2, <1>5
  <2>2. w \in Journals /\ p \in Journals /\ u \in Journals
    BY <1>1, <2>1 DEF Databases
  <2>3. /\ w.alerts \in Seq(Nat \X Nat) /\ p.alerts \in Seq(Nat \X Nat) /\ u.alerts \in Seq(Nat \X Nat)
        /\ w.status \in Seq(Status \X Status) /\ p.status \in Seq(Status \X Status) /\ u.status \in Seq(Status \X Status)
    BY <2>2 DEF Journals
  <2>4. Extends(p.alerts, u.alerts) /\ Extends(p.status, u.status)
    BY <2>1 DEF Continues
  <2>5. /\ Chained(u.alerts, 0, y.alerts) /\ Chained(u.status, "open", y.status) /\ Chained(u.assignee, None, y.assignee)
    BY <1>5, <1>17, <2>1 DEF Audits
  <2>6. y.assignee = IF s.in[i] = i THEN x.assignee ELSE None
    BY <1>17, <2>1 DEF Continues
  <2>7. \E v, z : /\ Chained(p.alerts, 0, v) /\ Chained(w.alerts, 0, v)
                  /\ Chained(p.status, "open", z) /\ Chained(w.status, "open", z)
    <3>1. CASE s.in[i] = i
      <4>1. Audits(s, i) /\ Audits(db, i)
        BY <1>5, <2>1, <3>1
      <4> QED  BY <2>1, <4>1 DEF Audits
    <3>2. CASE s.in[i] # i
      <4>1. p = Journal /\ w = Journal
        BY <1>5, <2>1, <3>2
      <4>2. p.alerts = <<>> /\ w.alerts = <<>> /\ p.status = <<>> /\ w.status = <<>>
        BY <4>1 DEF Journal
      <4>3. Chained(<<>>, 0, 0) /\ Chained(<<>>, "open", "open")
        BY DEF Chained
      <4> HIDE DEF p, w
      <4> QED  BY <4>2, <4>3
    <3> QED  BY <3>1, <3>2
  <2>8. Chained(w.assignee, None, y.assignee)
    <3>1. CASE s.in[i] = i
      <4>1. Audits(db, i)
        BY <1>5, <2>1, <3>1
      <4> QED  BY <2>1, <2>6, <3>1, <4>1 DEF Audits
    <3>2. CASE s.in[i] # i
      <4>1. w.assignee = <<>>
        BY <1>5, <2>1, <3>2 DEF Journal
      <4>2. Chained(<<>>, None, None)
        BY DEF Chained
      <4> QED  BY <2>6, <3>2, <4>1, <4>2
    <3> QED  BY <3>1, <3>2
  <2> DEFINE al == w.alerts \o SubSeq(u.alerts, Len(p.alerts) + 1, Len(u.alerts))
             st == w.status \o SubSeq(u.status, Len(p.status) + 1, Len(u.status))
  <2>9. Appends(w, al, st, m.journal[i])
    BY <1>4 DEF Appends
  <2> HIDE DEF w, p, u, x, y
  <2>10. al \in Seq(Nat \X Nat) /\ Chained(al, 0, y.alerts)
    BY <2>3, <2>4, <2>5, <2>7, ChainJoin
  <2>11. st \in Seq(Status \X Status) /\ Chained(st, "open", y.status)
    BY <2>3, <2>4, <2>5, <2>7, ChainJoin
  <2> DEFINE o == m.journal[i]
  <2> HIDE DEF al, st, o
  <2>12. o \in Journals /\ o.alerts = al /\ o.status = st /\ o.assignee = w.assignee
    <3>1. Appends(w, al, st, o)
      BY <2>9 DEF o
    <3>2. al \in Seq(Nat \X Nat) /\ st \in Seq(Status \X Status) /\ w \in Journals
      BY <2>2, <2>10, <2>11
    <3>3. \A f \in Journals, g \in Seq(Nat \X Nat), h \in Seq(Status \X Status) :
            \A q : Appends(f, g, h, q) => q \in Journals /\ q.alerts = g /\ q.status = h /\ q.assignee = f.assignee
      BY MergedJournal
    <3>4. w \in Journals
      BY <3>2, Zenon
    <3>5. \A g \in Seq(Nat \X Nat), h \in Seq(Status \X Status) :
            \A q : Appends(w, g, h, q) => q \in Journals /\ q.alerts = g /\ q.status = h /\ q.assignee = w.assignee
      BY <3>3, <3>4, Zenon
    <3>6. \A q : Appends(w, al, st, q) => q \in Journals /\ q.alerts = al /\ q.status = st /\ q.assignee = w.assignee
      BY <3>2, <3>5, Zenon
    <3> QED  BY <3>1, <3>6, Zenon
  <2>13. /\ m.journal[i] \in Journals /\ m.journal[i].alerts = al /\ m.journal[i].status = st
         /\ m.journal[i].assignee = w.assignee
    BY <2>12 DEF o
  <2>14. m.inc[i] = y
    BY <1>17 DEF y
  <2> QED  BY <2>8, <2>10, <2>11, <2>13, <2>14 DEF Audits
<1>19. m \in Databases
  <2>1. m.inc \in [Alert -> Incident \cup {NoIncident}]
    BY <1>1, <1>3 DEF Databases
  <2>2. m.in \in [Alert -> Alert \cup {None}]
    BY <1>1, <1>3 DEF Databases
  <2>3. m.links \subseteq Alert \X Event /\ m.rows \subseteq Alert \X Kind \X Alert
    BY <1>1, <1>3 DEF Databases
  <2>4. m.journal \in [Alert -> Journals]
    <3>1. \A i \in Alert : m.journal[i] \in Journals
      BY <1>1, <1>3, <1>18 DEF Databases
    <3> QED  BY <1>3, <3>1 DEF Table
  <2> QED  BY <1>3, <2>1, <2>2, <2>3, <2>4, IsDatabase
<1>20. ASSUME NEW i \in Alert
       PROVE  IF m.in[i] = i THEN m.inc[i] \in Incident /\ Counts(m, i) /\ Audits(m, i)
              ELSE m.inc[i] = NoIncident /\ m.journal[i] = Journal /\ Attached(m, i) = {} /\ LinkedTo(m, i) = {}
  <2>1. CASE i \in C
    <3>1. r.inc[i] \in Incident /\ Counts(r, i)
      BY <1>5, <1>17, <2>1
    <3>2. Counts(m, i)
      BY <1>12, <1>15, <1>17, <2>1, <3>1 DEF Counts
    <3> QED  BY <1>17, <1>18, <2>1, <3>1, <3>2
  <2>2. CASE i \notin C
    <3>1. m.inc[i] = db.inc[i] /\ m.journal[i] = db.journal[i] /\ Attached(m, i) = Attached(db, i)
          /\ LinkedTo(m, i) = LinkedTo(db, i)
      BY <1>3, <1>13, <1>16, <2>2
    <3>2. m.in[i] = i <=> db.in[i] = i
      BY <3>1 DEF Attached
    <3>3. CASE db.in[i] = i
      <4>1. db.inc[i] \in Incident /\ Counts(db, i) /\ Audits(db, i)
        BY <1>5, <3>3
      <4>2. Counts(m, i)
        BY <3>1, <4>1, Zenon DEF Counts
      <4>3. Audits(m, i)
        BY <3>1, <4>1, Zenon DEF Audits
      <4> QED  BY <3>1, <3>2, <3>3, <4>1, <4>2, <4>3, Zenon
    <3>4. CASE db.in[i] # i
      <4>1. db.inc[i] = NoIncident /\ db.journal[i] = Journal /\ Attached(db, i) = {} /\ LinkedTo(db, i) = {}
        BY <1>5, <3>4
      <4> QED  BY <3>1, <3>2, <3>4, <4>1, Zenon
    <3> QED  BY <3>3, <3>4, Zenon
  <2> QED  BY <2>1, <2>2
<1>21. ASSUME NEW a \in Alert PROVE Notified(m, a)
  <2>1. Told(m, a) = Told(db, a) \cup Told(r, a)
    BY <1>3 DEF Told
  <2>2. Notified(db, a) /\ Notified(r, a) /\ Notified(s, a)
    BY DEF Consistent
  <2> DEFINE Pairs(d) == {<<x[1], x[2]>> : x \in Told(d, a)}
  <2>3. Pairs(m) = Pairs(db) \cup Pairs(r)
    BY <2>1
  <2>4. CASE a \in A
    <3>1. Pairs(db) = {} /\ m.in[a] = r.in[a]
      BY <1>3, <1>11, <2>2, <2>4 DEF Notified
    <3> QED  BY <2>2, <2>3, <3>1 DEF Notified
  <2>5. CASE a \notin A
    <3>1. m.in[a] = db.in[a] /\ r.in[a] = s.in[a]
      BY <1>2, <1>3, <2>5
    <3>2. CASE s.in[a] = None
      <4>1. Pairs(r) = {}
        BY <2>2, <3>1, <3>2 DEF Notified
      <4> QED  BY <2>2, <2>3, <3>1, <4>1 DEF Notified
    <3>3. CASE s.in[a] # None
      <4>1. db.in[a] = r.in[a]
        BY <1>7, <3>1, <3>3
      <4>2. Pairs(r) = Pairs(db)
        BY <2>2, <4>1 DEF Notified
      <4> QED  BY <2>2, <2>3, <3>1, <4>2 DEF Notified
    <3> QED  BY <3>2, <3>3
  <2> QED  BY <2>4, <2>5
<1>22. Grows(db, m)
  BY <1>3, <1>11 DEF Grows
<1> QED  BY <1>19, <1>20, <1>21, <1>22 DEF Consistent, m
-----------------------------------------------------------------------------
(* The commands of analysts.                                               *)

\* A command writes one incident and its journal.
Touches(d, i, r) ==
  /\ Record(r) /\ Table(r.inc) /\ Table(r.journal)
  /\ r.in = d.in /\ r.links = d.links /\ r.rows = d.rows
  /\ \A k \in Alert \ {i} : r.inc[k] = d.inc[k] /\ r.journal[k] = d.journal[k]
SameMembers(x, y) ==
  /\ y \in Incident /\ y.alerts = x.alerts /\ y.events = x.events /\ y.entities = x.entities
  /\ y.first = x.first /\ y.last = x.last

LEMMA CommandKeeps ==
  ASSUME NEW d, Consistent(d), NEW i \in Alert, d.in[i] = i, NEW r, Touches(d, i, r),
         SameMembers(d.inc[i], r.inc[i]), r.journal[i] \in Journals, Audits(r, i)
  PROVE  Consistent(r) /\ Grows(d, r)
<1>1. d \in Databases
  BY DEF Consistent
<1>2. /\ Record(r) /\ Table(r.inc) /\ Table(r.journal)
      /\ r.in = d.in /\ r.links = d.links /\ r.rows = d.rows
      /\ \A k \in Alert \ {i} : r.inc[k] = d.inc[k] /\ r.journal[k] = d.journal[k]
  BY DEF Touches
<1>3. \A k \in Alert : Attached(r, k) = Attached(d, k) /\ LinkedTo(r, k) = LinkedTo(d, k)
  BY <1>2 DEF Attached, LinkedTo
<1>4. r \in Databases
  <2>1. r.inc \in [Alert -> Incident \cup {NoIncident}]
    <3>1. \A k \in Alert : r.inc[k] \in Incident \cup {NoIncident}
      BY <1>1, <1>2 DEF Databases, SameMembers
    <3> QED  BY <1>2, <3>1 DEF Table
  <2>2. r.journal \in [Alert -> Journals]
    <3>1. \A k \in Alert : r.journal[k] \in Journals
      BY <1>1, <1>2 DEF Databases
    <3> QED  BY <1>2, <3>1 DEF Table
  <2> QED  BY <1>1, <1>2, <2>1, <2>2, IsDatabase DEF Databases
<1>5. ASSUME NEW k \in Alert
      PROVE  IF r.in[k] = k THEN r.inc[k] \in Incident /\ Counts(r, k) /\ Audits(r, k)
             ELSE r.inc[k] = NoIncident /\ r.journal[k] = Journal /\ Attached(r, k) = {} /\ LinkedTo(r, k) = {}
  <2>1. CASE k = i
    <3>1. Counts(d, i)
      BY DEF Consistent
    <3>2. Counts(r, i)
      BY <1>3, <3>1 DEF Counts, SameMembers
    <3> QED  BY <1>2, <2>1, <3>2 DEF SameMembers
  <2>2. CASE k # i
    BY <1>2, <1>3, <2>2, ZenonT(30) DEF Consistent, Counts, Audits
  <2> QED  BY <2>1, <2>2
<1>6. ASSUME NEW a \in Alert PROVE Notified(r, a)
  <2>1. Told(r, a) = Told(d, a)
    BY <1>2 DEF Told
  <2> QED  BY <1>2, <2>1 DEF Consistent, Notified
<1>7. Grows(d, r)
  BY <1>2 DEF Grows
<1> QED  BY <1>4, <1>5, <1>6, <1>7 DEF Consistent

Notes(x, y, n) == y = [x EXCEPT !.notes = @ + n]
Noted(d, i, n) == [d EXCEPT !.journal[i].notes = @ + n]

LEMMA NotedJournal ==
  ASSUME NEW x \in Journals, NEW n \in Nat, NEW y, Notes(x, y, n)
  PROVE  y \in Journals /\ y.alerts = x.alerts /\ y.status = x.status /\ y.assignee = x.assignee
<1>1. x.notes + n \in Nat
  BY DEF Journals
<1> QED  BY <1>1 DEF Journals, Notes

LEMMA NotesKeep ==
  ASSUME NEW d, Consistent(d), NEW i \in Alert, d.in[i] = i, NEW n \in Nat,
         NEW r, r = Noted(d, i, n)
  PROVE  Consistent(r) /\ Grows(d, r)
<1>1. d \in Databases /\ d.inc[i] \in Incident /\ Audits(d, i) /\ d.journal[i] \in Journals
  BY DEF Consistent, Databases
<1>2. DOMAIN d = {"inc", "in", "links", "rows", "journal"} /\ DOMAIN d.inc = Alert /\ DOMAIN d.journal = Alert
      /\ Table(d.inc)
  BY <1>1, DatabaseShape DEF Databases, Table
<1>3. DOMAIN r = DOMAIN d /\ r = [x \in DOMAIN d |-> r[x]]
  BY Zenon DEF Noted
<1>4. r.inc = d.inc /\ r.in = d.in /\ r.links = d.links /\ r.rows = d.rows
  BY <1>2, Zenon DEF Noted
<1>5. Table(r.journal) /\ \A k \in Alert \ {i} : r.journal[k] = d.journal[k]
  BY <1>2, Zenon DEF Table, Noted
<1>6. Notes(d.journal[i], r.journal[i], n)
  BY <1>2, Zenon DEF Notes, Noted
<1>8. /\ r.journal[i] \in Journals /\ r.journal[i].alerts = d.journal[i].alerts
      /\ r.journal[i].status = d.journal[i].status /\ r.journal[i].assignee = d.journal[i].assignee
  BY <1>1, <1>6, NotedJournal
<1>9. Audits(r, i)
  BY <1>1, <1>4, <1>8 DEF Audits
<1>10. SameMembers(d.inc[i], r.inc[i])
  BY <1>1, <1>4 DEF SameMembers
<1>11. Touches(d, i, r)
  BY <1>2, <1>3, <1>4, <1>5 DEF Touches, Record
<1> QED  BY <1>8, <1>9, <1>10, <1>11, CommandKeeps

Moves(x, y, s) ==
  y = [x EXCEPT !.status = s, !.resolvedAt = (s = "resolved" \/ (s = "closed" /\ @)), !.closedAt = (s = "closed")]

LEMMA MovedIncident ==
  ASSUME NEW x \in Incident, NEW s \in Status, NEW y, Moves(x, y, s)
  PROVE  SameMembers(x, y) /\ y.status = s /\ y.assignee = x.assignee
<1> DEFINE b == (s = "resolved" \/ (s = "closed" /\ x.resolvedAt))
           c == (s = "closed")
<1>1. b \in BOOLEAN /\ c \in BOOLEAN
  BY Zenon
<1>2. y = [x EXCEPT !.status = s, !.resolvedAt = b, !.closedAt = c]
  BY Zenon DEF Moves
<1> HIDE DEF b, c
<1> QED  BY <1>1, <1>2 DEF Incident, SameMembers

LEMMA ToStatusKeeps ==
  ASSUME Consistent(db), NEW i \in Alert, db.in[i] = i, NEW s \in Status, NEW r, r = ToStatus(i, s)
  PROVE  Consistent(r) /\ Grows(db, r)
<1> DEFINE q == Audited(db, i, "status", db.inc[i].status, s)
<1>1. db \in Databases /\ db.inc[i] \in Incident /\ Audits(db, i) /\ db.journal[i] \in Journals
  BY DEF Consistent, Databases
<1>2. DOMAIN db = {"inc", "in", "links", "rows", "journal"} /\ DOMAIN db.inc = Alert /\ DOMAIN db.journal = Alert
      /\ Table(db.inc)
  BY <1>1, DatabaseShape DEF Databases, Table
<1>3. r = [q EXCEPT !.inc[i].status = s, !.inc[i].resolvedAt = (s = "resolved" \/ (s = "closed" /\ @)),
                    !.inc[i].closedAt = (s = "closed")]
  BY DEF ToStatus
<1>4. /\ q.inc = db.inc /\ q.in = db.in /\ q.links = db.links /\ q.rows = db.rows
      /\ DOMAIN q = DOMAIN db /\ Table(q.journal)
      /\ \A k \in Alert : IF k = i THEN Enters(db.journal[k], q.journal[k], "status", db.inc[i].status, s)
                         ELSE q.journal[k] = db.journal[k]
  BY <1>2, AuditedFields
<1> HIDE DEF q
<1>5. Table(q.inc) /\ i \in DOMAIN q.inc /\ DOMAIN q = {"inc", "in", "links", "rows", "journal"}
  BY <1>2, <1>4
<1>6. r.inc[i] = [q.inc[i] EXCEPT !.status = s, !.resolvedAt = (s = "resolved" \/ (s = "closed" /\ @)),
                                  !.closedAt = (s = "closed")]
  BY <1>3, <1>5
<1>7. DOMAIN r = DOMAIN q /\ r = [x \in DOMAIN q |-> r[x]]
  BY <1>3, Zenon
<1>8. r.in = q.in /\ r.links = q.links /\ r.rows = q.rows /\ r.journal = q.journal
  <2> DEFINE b == (s = "resolved" \/ (s = "closed" /\ q.inc[i].resolvedAt))
             c == (s = "closed")
  <2>1. r = [q EXCEPT !.inc[i].status = s, !.inc[i].resolvedAt = b, !.inc[i].closedAt = c]
    BY <1>3
  <2> HIDE DEF b, c
  <2> QED  BY <1>5, <2>1
<1>9. Table(r.inc)
  <2> DEFINE b == (s = "resolved" \/ (s = "closed" /\ q.inc[i].resolvedAt))
             c == (s = "closed")
  <2>1. r = [q EXCEPT !.inc[i].status = s, !.inc[i].resolvedAt = b, !.inc[i].closedAt = c]
    BY <1>3
  <2> HIDE DEF b, c
  <2> DEFINE f == [q.inc EXCEPT ![i].status = s, ![i].resolvedAt = b, ![i].closedAt = c]
  <2>2. r.inc = f
    BY <1>5, <2>1, Zenon
  <2>3. Table(f)
    BY <1>5, Zenon DEF Table
  <2> QED  BY <2>2, <2>3, Zenon DEF Table
<1>10. \A k \in Alert \ {i} : r.inc[k] = q.inc[k]
  BY <1>2, <1>3, <1>4
<1>11. Table(r.inc) /\ \A k \in Alert \ {i} : r.inc[k] = q.inc[k]
  BY <1>9, <1>10
<1>12. Moves(db.inc[i], r.inc[i], s)
  BY <1>4, <1>6, Zenon DEF Moves
<1>13. Touches(db, i, r)
  BY <1>2, <1>4, <1>7, <1>8, <1>11 DEF Touches, Record
<1>14. SameMembers(db.inc[i], r.inc[i]) /\ r.inc[i].status = s /\ r.inc[i].assignee = db.inc[i].assignee
  BY <1>1, <1>12, MovedIncident
<1>15. db.inc[i].status \in Status
  BY <1>1 DEF Incident
<1>16. Entered(db.journal[i], r.journal[i], "status", db.inc[i].status, s)
  <2>1. Enters(db.journal[i], r.journal[i], "status", db.inc[i].status, s)
    BY <1>4, <1>8
  <2> QED  BY <1>1, <1>15, <2>1, EntryFields
<1>17. /\ r.journal[i] \in Journals /\ r.journal[i].alerts = db.journal[i].alerts
       /\ r.journal[i].assignee = db.journal[i].assignee
       /\ r.journal[i].status = Append(db.journal[i].status, <<db.inc[i].status, s>>)
  BY <1>16 DEF Entered
<1>18. db.journal[i].status \in Seq(Status \X Status) /\ Chained(db.journal[i].status, "open", db.inc[i].status)
  BY <1>1 DEF Journals, Audits
<1>19. Chained(r.journal[i].status, "open", s)
  BY <1>15, <1>17, <1>18, StatusChain, Zenon
<1>20. Audits(r, i)
  BY <1>1, <1>14, <1>17, <1>19 DEF Audits, SameMembers
<1> QED  BY <1>13, <1>14, <1>17, <1>20, CommandKeeps

Assigns(x, y, u) == y = [x EXCEPT !.assignee = u]
AssignedTo(i, u) == [Audited(db, i, "assignee", db.inc[i].assignee, u) EXCEPT !.inc[i].assignee = u]

LEMMA AssignKeeps ==
  ASSUME Consistent(db), NEW i \in Alert, db.in[i] = i, NEW u \in Owner,
         NEW r, r = AssignedTo(i, u)
  PROVE  Consistent(r) /\ Grows(db, r)
<1> DEFINE q == Audited(db, i, "assignee", db.inc[i].assignee, u)
<1>1. db \in Databases /\ db.inc[i] \in Incident /\ Audits(db, i) /\ db.journal[i] \in Journals
  BY DEF Consistent, Databases
<1>2. DOMAIN db = {"inc", "in", "links", "rows", "journal"} /\ DOMAIN db.inc = Alert /\ DOMAIN db.journal = Alert
      /\ Table(db.inc)
  BY <1>1, DatabaseShape DEF Databases, Table
<1>3. r = [q EXCEPT !.inc[i].assignee = u]
  BY DEF AssignedTo
<1>4. /\ q.inc = db.inc /\ q.in = db.in /\ q.links = db.links /\ q.rows = db.rows
      /\ DOMAIN q = DOMAIN db /\ Table(q.journal)
      /\ \A k \in Alert : IF k = i THEN Enters(db.journal[k], q.journal[k], "assignee", db.inc[i].assignee, u)
                         ELSE q.journal[k] = db.journal[k]
  BY <1>2, AuditedFields
<1> HIDE DEF q
<1>5. DOMAIN r = DOMAIN q /\ r = [x \in DOMAIN q |-> r[x]]
  BY <1>3, Zenon
<1>6. r.in = q.in /\ r.links = q.links /\ r.rows = q.rows /\ r.journal = q.journal
  BY <1>2, <1>3, <1>4, Zenon
<1>7. Table(r.inc) /\ \A k \in Alert \ {i} : r.inc[k] = q.inc[k]
  <2> DEFINE f == [q.inc EXCEPT ![i].assignee = u]
  <2>1. r.inc = f
    BY <1>2, <1>3, <1>4
  <2>2. Table(f)
    BY <1>2, <1>4, Zenon DEF Table
  <2>3. \A k \in Alert \ {i} : f[k] = q.inc[k]
    BY <1>2, <1>4
  <2> HIDE DEF f
  <2> QED  BY <2>1, <2>2, <2>3, Zenon
<1>8. Assigns(db.inc[i], r.inc[i], u)
  BY <1>2, <1>3, <1>4 DEF Assigns
<1>9. Touches(db, i, r)
  BY <1>2, <1>4, <1>5, <1>6, <1>7 DEF Touches, Record
<1>10. SameMembers(db.inc[i], r.inc[i]) /\ r.inc[i].status = db.inc[i].status /\ r.inc[i].assignee = u
  <2>1. \A x \in Incident : \A y : Assigns(x, y, u) => SameMembers(x, y) /\ y.status = x.status /\ y.assignee = u
    BY DEF Assigns, Incident, SameMembers
  <2> QED  BY <1>1, <1>8, <2>1, Zenon
<1>11. db.inc[i].assignee \in Owner
  BY <1>1 DEF Incident
<1>12. Entered(db.journal[i], r.journal[i], "assignee", db.inc[i].assignee, u)
  <2>1. Enters(db.journal[i], r.journal[i], "assignee", db.inc[i].assignee, u)
    BY <1>4, <1>6
  <2> QED  BY <1>1, <1>11, <2>1, EntryFields
<1>13. /\ r.journal[i] \in Journals /\ r.journal[i].alerts = db.journal[i].alerts
       /\ r.journal[i].status = db.journal[i].status
       /\ r.journal[i].assignee = Append(db.journal[i].assignee, <<db.inc[i].assignee, u>>)
  BY <1>12 DEF Entered
<1>14. db.journal[i].assignee \in Seq(Owner \X Owner) /\ Chained(db.journal[i].assignee, None, db.inc[i].assignee)
  BY <1>1 DEF Journals, Audits
<1>15. Chained(r.journal[i].assignee, None, u)
  BY <1>11, <1>13, <1>14, OwnerChain, Zenon
<1>16. Audits(r, i)
  BY <1>1, <1>10, <1>13, <1>15 DEF Audits, SameMembers
<1> QED  BY <1>9, <1>10, <1>13, <1>16, CommandKeeps
-----------------------------------------------------------------------------
(* Every step keeps the invariant of incidents.                            *)

LEMMA ThereIsOne ==
  ASSUME NEW d, Consistent(d), NEW i \in Alert
  PROVE  d.inc[i].status # None <=> d.in[i] = i
<1>1. NoIncident.status = None /\ \A x \in Incident : x.status # None
  BY DEF NoIncident, Incident, Status, None
<1> QED  BY <1>1 DEF Consistent

LEMMA GrowsOn ==
  ASSUME NEW d, NEW c, NEW r, Grows(d, c), Grows(c, r)
  PROVE  Grows(d, r)
BY DEF Grows

LEMMA IncidentsInitially == Init => IncidentInv
<1> SUFFICES ASSUME Init PROVE IncidentInv
  OBVIOUS
<1> DEFINE d == Empty
<1>1. db = d
  BY DEF Init
<1>2. /\ d.inc = [a \in Alert |-> NoIncident] /\ d.in = [a \in Alert |-> None] /\ d.links = {} /\ d.rows = {}
      /\ d.journal = [a \in Alert |-> Journal] /\ Record(d)
  BY DEF Empty, Record
<1> HIDE DEF d
<1>3. None \notin Alert
  BY IncidentAssumption
<1>4. Journal \in Journals
  BY DEF Journal, Journals
<1>5. d \in Databases
  BY <1>2, <1>4, IsDatabase
<1>6. \A i \in Alert : Attached(d, i) = {} /\ LinkedTo(d, i) = {} /\ Told(d, i) = {}
  BY <1>2, <1>3 DEF Attached, LinkedTo, Told
<1>7. \A i \in Alert : Notified(d, i)
  BY <1>2, <1>6 DEF Notified
<1>8. Consistent(d)
  BY <1>2, <1>3, <1>5, <1>6, <1>7 DEF Consistent
<1>9. \A j \in Job : Transacting(j)
  BY DEF Init, Transacting
<1>10. now \in Int /\ at \in [Job -> Int] /\ raised \in [Job -> Int]
       /\ pc \in [Job -> {"waiting", "running", "done"}] /\ DOMAIN tx = Job
  BY DEF Init
<1> QED  BY <1>1, <1>8, <1>9, <1>10 DEF IncidentInv

\* A command of an analyst, or nothing: the jobs are as they were.
LEMMA JobsStay ==
  ASSUME IncidentInv, Consistent(db'), Grows(db, db'), UNCHANGED jobVars, now' \in Int
  PROVE  IncidentInv'
<1>1. UNCHANGED <<pc, tx, at, raised>>
  BY DEF jobVars
<1>2. ASSUME NEW j \in Job PROVE Transacting(j)'
  <2>1. SUFFICES ASSUME pc'[j] = "running" PROVE Transacting(j)'
    BY Zenon DEF Transacting
  <2>2. /\ tx[j] \in Transaction
        /\ Consistent(tx[j].snapshot) /\ Grows(tx[j].snapshot, db)
        /\ Consistent(tx[j].result) /\ Continues(tx[j].snapshot, tx[j].result)
    BY <1>1, <2>1 DEF IncidentInv, Transacting
  <2>3. Grows(tx[j].snapshot, db')
    BY <2>2, GrowsOn
  <2> QED  BY <1>1, <2>2, <2>3, Zenon DEF Transacting
<1> QED  BY <1>1, <1>2 DEF IncidentInv

LEMMA ExecuteKeeps ==
  ASSUME IncidentInv, NEW j \in Job, Execute(j), db' = db, raised' \in [Job -> Int], at' \in [Job -> Int]
  PROVE  DOMAIN tx' = Job /\ Transacting(j)' /\ \A k \in Job \ {j} : tx'[k] = tx[k]
<1> DEFINE r == Correlate(db, j, raised'[j], at'[j])
           x == [snapshot |-> db, others |-> {}, result |-> r]
<1>1. tx' = [tx EXCEPT ![j] = x] /\ DOMAIN tx = Job
  BY DEF Execute, IncidentInv
<1>2. Consistent(db)
  BY DEF IncidentInv
<1>3. raised'[j] \in Int /\ at'[j] \in Int
  OBVIOUS
<1>4. Consistent(r) /\ Continues(db, r)
  BY <1>2, <1>3, CorrelateKeeps
<1> HIDE DEF r
<1>5. x \in Transaction /\ x.snapshot = db /\ x.result = r
  BY <1>2, <1>4 DEF Transaction, Consistent
<1> HIDE DEF x
<1>6. Grows(db, db')
  BY DEF Grows
<1>7. tx'[j] = x
  BY <1>1
<1>8. Transacting(j)'
  BY <1>2, <1>4, <1>5, <1>6, <1>7, Zenon DEF Transacting
<1> QED  BY <1>1, <1>8

LEMMA CommitKeeps ==
  ASSUME IncidentInv, NEW j \in Job, Commit(j)
  PROVE  IncidentInv'
<1>1. /\ pc[j] = "running" /\ ConflictFree(j) /\ db' = Merge(j)
      /\ pc' = [pc EXCEPT ![j] = "done"]
      /\ tx' = [k \in Job |-> IF k = j THEN NoTx
                              ELSE IF k \in Running THEN [tx[k] EXCEPT !.others = @ \cup {j}] ELSE tx[k]]
      /\ UNCHANGED <<at, raised, now>>
  BY DEF Commit, Ended, LastTry
<1>2. pc \in [Job -> {"waiting", "running", "done"}] /\ Consistent(db)
  BY DEF IncidentInv
<1>3. /\ Consistent(tx[j].snapshot) /\ Grows(tx[j].snapshot, db)
      /\ Consistent(tx[j].result) /\ Continues(tx[j].snapshot, tx[j].result)
  BY <1>1 DEF IncidentInv, Transacting
<1>4. Consistent(Merge(j)) /\ Grows(db, Merge(j))
  BY <1>1, <1>2, <1>3, MergeKeeps
<1>5. Consistent(db') /\ Grows(db, db')
  BY <1>1, <1>4
<1>6. ASSUME NEW k \in Job PROVE Transacting(k)'
  <2>1. SUFFICES ASSUME pc'[k] = "running" PROVE Transacting(k)'
    BY Zenon DEF Transacting
  <2>2. k # j /\ pc[k] = "running"
    BY <1>1, <1>2, <2>1
  <2>3. /\ tx[k] \in Transaction
        /\ Consistent(tx[k].snapshot) /\ Grows(tx[k].snapshot, db)
        /\ Consistent(tx[k].result) /\ Continues(tx[k].snapshot, tx[k].result)
    BY <2>2 DEF IncidentInv, Transacting
  <2>4. tx'[k] = [tx[k] EXCEPT !.others = @ \cup {j}]
    BY <1>1, <2>2 DEF Running
  <2>5. tx'[k].snapshot = tx[k].snapshot /\ tx'[k].result = tx[k].result /\ tx'[k] \in Transaction
    BY <2>3, <2>4 DEF Transaction
  <2>6. Grows(tx[k].snapshot, db')
    BY <1>5, <2>3, GrowsOn
  <2> QED  BY <2>3, <2>5, <2>6, Zenon DEF Transacting
<1>7. DOMAIN tx' = Job /\ pc' \in [Job -> {"waiting", "running", "done"}]
  BY <1>1, <1>2
<1> QED  BY <1>1, <1>5, <1>6, <1>7 DEF IncidentInv

LEMMA IncidentSteps == IncidentInv /\ [Next]_vars => IncidentInv'
<1> SUFFICES ASSUME IncidentInv, [Next]_vars PROVE IncidentInv'
  OBVIOUS
<1>1. Consistent(db) /\ now \in Int /\ at \in [Job -> Int] /\ raised \in [Job -> Int]
      /\ pc \in [Job -> {"waiting", "running", "done"}] /\ DOMAIN tx = Job /\ \A j \in Job : Transacting(j)
  BY DEF IncidentInv
<1>2. Grows(db, db)
  BY DEF Grows
<1>3. ASSUME NEW j \in Job, Begin(j) PROVE IncidentInv'
  <2>1. /\ pc' = [pc EXCEPT ![j] = "running"] /\ Execute(j) /\ UNCHANGED <<db, now>>
        /\ at' = [at EXCEPT ![j] = IF j \in Correlated THEN @ ELSE now]
        /\ raised' = [raised EXCEPT ![j] = IF @ < 0 THEN now ELSE @]
    BY <1>3 DEF Begin, Taken
  <2>2. at' \in [Job -> Int] /\ raised' \in [Job -> Int] /\ pc' \in [Job -> {"waiting", "running", "done"}]
    BY <1>1, <2>1
  <2>3. DOMAIN tx' = Job /\ Transacting(j)' /\ \A k \in Job \ {j} : tx'[k] = tx[k]
    BY <2>1, <2>2, ExecuteKeeps
  <2>4. \A k \in Job \ {j} : pc'[k] = pc[k]
    BY <1>1, <2>1
  <2>5. \A k \in Job \ {j} : Transacting(k)'
    BY <1>1, <2>1, <2>3, <2>4 DEF Transacting
  <2> QED  BY <1>1, <2>1, <2>2, <2>3, <2>5 DEF IncidentInv
<1>4. ASSUME NEW j \in Job, Retry(j) PROVE IncidentInv'
  <2>1. UNCHANGED <<db, at, raised, now>>
    BY <1>4 DEF Retry
  <2>2. CASE Execute(j) /\ UNCHANGED pc
    <3>1. DOMAIN tx' = Job /\ Transacting(j)' /\ \A k \in Job \ {j} : tx'[k] = tx[k]
      BY <1>1, <2>1, <2>2, ExecuteKeeps
    <3>2. \A k \in Job \ {j} : Transacting(k)'
      BY <1>1, <2>1, <2>2, <3>1 DEF Transacting
    <3> QED  BY <1>1, <2>1, <2>2, <3>1, <3>2 DEF IncidentInv
  <2>3. CASE pc' = [pc EXCEPT ![j] = "waiting"] /\ tx' = [tx EXCEPT ![j] = NoTx]
    <3>1. \A k \in Job : Transacting(k)'
      BY <1>1, <2>1, <2>3 DEF Transacting
    <3> QED  BY <1>1, <2>1, <2>3, <3>1 DEF IncidentInv
  <2> QED  BY <1>4, <2>2, <2>3 DEF Retry
<1>5. ASSUME NEW j \in Job, Abort(j) \/ Redeliver(j) PROVE IncidentInv'
  <2>1. /\ UNCHANGED <<db, at, raised, now>> /\ pc' = [pc EXCEPT ![j] = "waiting"]
        /\ DOMAIN tx' = Job /\ \A k \in Job \ {j} : tx'[k] = tx[k]
    BY <1>1, <1>5 DEF Abort, Redeliver
  <2>2. \A k \in Job : Transacting(k)'
    BY <1>1, <2>1 DEF Transacting
  <2>3. pc' \in [Job -> {"waiting", "running", "done"}]
    BY <1>1, <2>1
  <2> QED  BY <1>1, <2>1, <2>2, <2>3 DEF IncidentInv
<1>6. ASSUME NEW i \in Alert, TransitionStatus(i) PROVE IncidentInv'
  <2>1. PICK s \in AllowedTransitions[db.inc[i].status] : db' = ToStatus(i, s)
    BY <1>6 DEF TransitionStatus
  <2>2. db.inc[i].status # None /\ UNCHANGED <<jobVars, now>>
    BY <1>6 DEF TransitionStatus, Command
  <2>3. db.in[i] = i
    BY <1>1, <2>2, ThereIsOne
  <2>4. db.inc[i].status \in Status
    BY <1>1, <2>3 DEF Consistent, Incident
  <2>5. s \in Status
    BY <2>1, <2>4 DEF AllowedTransitions, Status
  <2>6. Consistent(db') /\ Grows(db, db')
    BY <1>1, <2>1, <2>3, <2>5, ToStatusKeeps
  <2> QED  BY <1>1, <2>2, <2>6, JobsStay
<1>7. ASSUME NEW i \in Alert, Resolve(i) PROVE IncidentInv'
  <2> DEFINE c == ToStatus(i, "resolved")
  <2>1. PICK n \in {0, 1} : db' = Noted(c, i, n)
    BY <1>7, Zenon DEF Resolve, Noted
  <2>2. db.inc[i].status # None /\ UNCHANGED <<jobVars, now>>
    BY <1>7 DEF Resolve, Command
  <2>3. db.in[i] = i
    BY <1>1, <2>2, ThereIsOne
  <2>4. "resolved" \in Status
    BY DEF Status
  <2>5. Consistent(c) /\ Grows(db, c)
    BY <1>1, <2>3, <2>4, ToStatusKeeps
  <2>6. c.in[i] = i
    BY <2>3, <2>5, IncidentAssumption DEF Grows
  <2> HIDE DEF c
  <2>7. n \in Nat
    OBVIOUS
  <2>8. Consistent(db') /\ Grows(c, db')
    BY <2>1, <2>5, <2>6, <2>7, NotesKeep
  <2>9. Grows(db, db')
    BY <2>5, <2>8, GrowsOn
  <2> QED  BY <1>1, <2>2, <2>8, <2>9, JobsStay
<1>8. ASSUME NEW i \in Alert, Assign(i) PROVE IncidentInv'
  <2>1. PICK u \in Owner : db' = AssignedTo(i, u)
    BY <1>8, Zenon DEF Assign, AssignedTo, Owner
  <2>2. db.inc[i].status # None /\ UNCHANGED <<jobVars, now>>
    BY <1>8 DEF Assign, Command
  <2>3. db.in[i] = i
    BY <1>1, <2>2, ThereIsOne
  <2>4. Consistent(db') /\ Grows(db, db')
    BY <1>1, <2>1, <2>3, AssignKeeps
  <2> QED  BY <1>1, <2>2, <2>4, JobsStay
<1>9. ASSUME NEW i \in Alert, AddNote(i) PROVE IncidentInv'
  <2>1. db' = Noted(db, i, 1) /\ db.inc[i].status # None /\ UNCHANGED <<jobVars, now>>
    BY <1>9 DEF AddNote, Command, Noted
  <2>2. db.in[i] = i
    BY <1>1, <2>1, ThereIsOne
  <2>3. Consistent(db') /\ Grows(db, db')
    BY <1>1, <2>1, <2>2, NotesKeep
  <2> QED  BY <1>1, <2>1, <2>3, JobsStay
<1>10. CASE Tick
  <2>1. db' = db /\ UNCHANGED jobVars /\ now' \in Int
    BY <1>1, <1>10 DEF Tick
  <2> QED  BY <1>1, <1>2, <2>1, JobsStay
<1>11. CASE UNCHANGED vars
  <2>1. db' = db /\ UNCHANGED jobVars /\ now' \in Int
    BY <1>1, <1>11 DEF vars
  <2> QED  BY <1>1, <1>2, <2>1, JobsStay
<1>12. ASSUME NEW j \in Job, Commit(j) PROVE IncidentInv'
  BY <1>12, CommitKeeps
<1> QED  BY <1>3, <1>4, <1>5, <1>6, <1>7, <1>8, <1>9, <1>10, <1>11, <1>12 DEF Next, Analyst, AllDone

\* Whatever jobs, retries, crashes and analysts interleave: each incident counts
\* what is attached to it, the snapshot and the result of a running correlation
\* are such databases too, and the committed one has only grown since.
THEOREM IncidentsSound == Spec => []IncidentInv
<1> QED  BY IncidentsInitially, IncidentSteps, PTL DEF Spec

\* The counters, intervals and audit chains of every incident, and what clients
\* are told, agree with the alerts and events it holds: for any jobs, batches,
\* windows and number of workers.
THEOREM IncidentsAlwaysAgree == Spec => []IncidentsAgree
<1>1. IncidentInv => IncidentsAgree
  <2> SUFFICES ASSUME IncidentInv PROVE IncidentsAgree
    OBVIOUS
  <2>1. Consistent(db)
    BY DEF IncidentInv
  <2>2. \A i \in Existing : i \in Alert /\ Counts(db, i) /\ Audits(db, i)
    <3> TAKE i \in Existing
    <3>1. i \in Alert /\ db.inc[i].status # None
      BY DEF Existing
    <3>2. db.in[i] = i
      BY <2>1, <3>1, ThereIsOne
    <3> QED  BY <2>1, <3>1, <3>2 DEF Consistent
  <2>3. CountersAgree
    BY <2>2, Zenon DEF CountersAgree, Counts
  <2>4. AuditChained
    BY <2>2, Zenon DEF AuditChained, Audits
  <2>5. OneNotificationPerAlert
    BY <2>1 DEF Consistent, OneNotificationPerAlert, Notified, Told
  <2> QED  BY <2>3, <2>4, <2>5 DEF IncidentsAgree
<1> QED  BY <1>1, IncidentsSound, PTL
=============================================================================
