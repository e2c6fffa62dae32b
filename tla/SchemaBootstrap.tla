---------------------------- MODULE SchemaBootstrap ----------------------------
(***************************************************************************)
(* What an instance does to the database when it starts: bootstrap_schema  *)
(* of src/denoiser/storage/migrations.py with alembic's only revision, and *)
(* the seeding of init_db in src/denoiser/storage/db.py.                   *)
(*                                                                         *)
(* Several instances may start at once, each may be killed between any two *)
(* statements and is started again.  On Postgres the statements of an      *)
(* upgrade are one transaction, and so are a column and its index; on      *)
(* SQLite every statement stands for itself.                               *)
(* A definition X_Y is X with a plausible mistake Y; nothing uses it.      *)
(***************************************************************************)
EXTENDS Naturals, Sequences, FiniteSets, SequencesExt

CONSTANTS
    Instances,
    OldDatabases,   \* [tables, columns] of databases older than the revisions; no tables: a new one
    MaxKills        \* bound: kills; an operator's downgrade comes after one

VARIABLES
    dialect,   \* "postgres" or "sqlite"
    mode,      \* "revisions"; "library": alembic's files are not there; "off"
    tables,    \* tables there are
    columns,   \* of the late columns, those there are
    indexes,   \* those whose indexes there are
    version,   \* of alembic_version: "absent", "empty", "head"
    seeded,    \* of Seeds, the rows there are
    at,        \* at[i]: where instance i is, [step, n, absent]
    kills
schemaVars == <<dialect, mode, tables, columns, indexes, version, seeded, at, kills>>

\* The tables in the order the revision creates them, each with its indexes.
TablesToMonitors ==
    <<"alert_logs", "analysis_runs", "audit_logs", "billing_meters", "dashboards",
      "deployment_markers", "extracted_metrics", "incidents", "integrations",
      "metric_rules", "monitors">>
TablesFromNotebooks ==
    <<"notebooks", "runbook_executions", "runbooks", "saved_queries", "slo_data_points",
      "slos", "spans", "tenants", "users">>
Revision == TablesToMonitors \o TablesFromNotebooks
AllTables == Range(Revision)

\* The late columns in the order they are repaired, and whether each has an index.
LegacyColumns ==
    << <<"users", "is_active", FALSE>>, <<"users", "department", FALSE>>,
       <<"users", "environment_access", FALSE>>, <<"dashboards", "default_time_range", FALSE>>,
       <<"dashboards", "template_variables", FALSE>>, <<"monitors", "muted_until", FALSE>>,
       <<"metric_rules", "tenant_id", TRUE>>, <<"extracted_metrics", "tenant_id", TRUE>>,
       <<"spans", "tenant_id", TRUE>> >>
ColumnsOf(t) == {c \in Range(LegacyColumns) : c[1] = t}
Indexed == {c \in Range(LegacyColumns) : c[3]}
\* The other indexes of tables, as one each.
Keys(ts) == {<<t, "id", TRUE>> : t \in ts}

Seeds == <<"tenant", "admin", "system-audit">>

ASSUME SchemaAssumption ==
    /\ Instances # {}
    /\ \A old \in OldDatabases :
         old.tables \subseteq AllTables /\ old.columns \subseteq Range(LegacyColumns)
-----------------------------------------------------------------------------
At(step, n) == [step |-> step, n |-> n, absent |-> {}]
Still(i, step, n) == [step |-> step, n |-> n, absent |-> at[i].absent]
GoTo(i, place) == at' = [at EXCEPT ![i] = place]
NoTable == UNCHANGED <<tables, columns, indexes>>
NoSeed == UNCHANGED seeded
Given == UNCHANGED <<dialect, mode, kills>>

SchemaInit ==
    /\ dialect \in {"postgres", "sqlite"} /\ mode \in {"revisions", "library", "off"}
    /\ \E old \in OldDatabases :
         /\ tables = old.tables /\ columns = old.columns
         /\ indexes = Keys(old.tables) \cup (old.columns \cap Indexed)
    /\ version = "absent" /\ seeded = {} /\ kills = 0
    /\ at = [i \in Instances |-> At("down", 0)]

\* Start: a stamp, no table, or some tables decide.  A version table without a row is no
\* stamp.  Without alembic's files it is create_all and repair; the schema may be left
\* alone.
Stamped_TableIsEnough == version # "absent"
Stamped == version = "head"
Start(i, step) ==
    /\ at[i].step = "down" /\ GoTo(i, At(step, 1))
    /\ UNCHANGED version /\ NoTable /\ NoSeed /\ Given
StartManaged(i) == mode = "revisions" /\ Stamped /\ Start(i, "managed")
StartFresh(i) == mode = "revisions" /\ ~Stamped /\ tables = {} /\ Start(i, "upgrade")
StartLegacy(i) == mode = "revisions" /\ ~Stamped /\ tables # {} /\ Start(i, "repair")
StartLibrary(i) == mode = "library" /\ Start(i, "create")
StartOff(i) == mode = "off" /\ Start(i, "seed")

\* A database at head needs no upgrade.
UpgradeNothing(i) ==
    /\ at[i].step \in {"managed", "upgrade"} /\ version = "head" /\ GoTo(i, At("seed", 1))
    /\ UNCHANGED version /\ NoTable /\ NoSeed /\ Given
\* The upgrade on Postgres: all of it, or an error if a table is there already.
Upgrade(i) ==
    /\ at[i].step \in {"managed", "upgrade"} /\ dialect = "postgres" /\ tables = {}
    /\ tables' = AllTables /\ columns' = Range(LegacyColumns)
    /\ indexes' = Keys(AllTables) \cup Indexed /\ version' = "head"
    /\ GoTo(i, At("seed", 1)) /\ NoSeed /\ Given
\* On SQLite: the version table, then each table, then its indexes, then the stamp.
MakeVersionTable(i) ==
    /\ at[i].step \in {"managed", "upgrade"} /\ dialect = "sqlite" /\ version # "head"
    /\ version' = "empty"
    /\ GoTo(i, At("table", 1)) /\ NoTable /\ NoSeed /\ Given
CreateTable(i) ==
    LET t == Revision[at[i].n] IN
    /\ at[i].step = "table" /\ t \notin tables
    /\ tables' = tables \cup {t} /\ columns' = columns \cup ColumnsOf(t)
    /\ GoTo(i, At("index", at[i].n)) /\ UNCHANGED <<indexes, version>> /\ NoSeed /\ Given
CreateIndexes(i) ==
    LET t == Revision[at[i].n] IN
    /\ at[i].step = "index"
    /\ indexes' = indexes \cup Keys({t}) \cup (ColumnsOf(t) \cap Indexed)
    /\ GoTo(i, IF at[i].n = Len(Revision) THEN At("stamp", 2) ELSE At("table", at[i].n + 1))
    /\ UNCHANGED <<tables, columns, version>> /\ NoSeed /\ Given
\* A table that is there already ends the start of this instance, even if its creator has
\* stamped the database since this one looked.
Conflict(i) ==
    /\ \/ at[i].step = "upgrade" /\ dialect = "postgres" /\ tables # {}
       \/ at[i].step = "managed" /\ dialect = "postgres" /\ tables # {} /\ version # "head"
       \/ at[i].step = "table" /\ Revision[at[i].n] \in tables
    /\ GoTo(i, At("down", 0)) /\ UNCHANGED version /\ NoTable /\ NoSeed /\ Given

\* Repair: the columns of a table are looked up once, then each that is missing is added.
Missing_OneProbe(t) == IF ColumnsOf(t) \cap columns = {} THEN ColumnsOf(t) ELSE {}
Missing(t) == ColumnsOf(t) \ columns
ProbeColumn(i) ==
    /\ at[i].step = "repair"
    /\ LET n == at[i].n
           t == LegacyColumns[n][1]
           lookup == n = 1 \/ LegacyColumns[n - 1][1] # t
           missing == IF t \notin tables THEN {} ELSE IF lookup THEN Missing(t) ELSE at[i].absent
       IN GoTo(i, IF n > Len(LegacyColumns) THEN At(IF mode = "library" THEN "seed" ELSE "create", 1)
                  ELSE [step |-> IF LegacyColumns[n] \in missing THEN "add" ELSE "repair",
                        n |-> IF LegacyColumns[n] \in missing THEN n ELSE n + 1,
                        absent |-> missing])
    /\ UNCHANGED version /\ NoTable /\ NoSeed /\ Given
AddColumn(i) ==
    LET c == LegacyColumns[at[i].n] IN
    /\ at[i].step = "add"
    /\ IF c \in columns
       THEN GoTo(i, At("down", 0)) /\ NoTable
       ELSE /\ columns' = columns \cup {c} /\ UNCHANGED tables
            /\ IF c[3] /\ dialect = "sqlite"
               THEN GoTo(i, Still(i, "add index", at[i].n)) /\ UNCHANGED indexes
               ELSE /\ indexes' = IF c[3] THEN indexes \cup {c} ELSE indexes
                    /\ GoTo(i, Still(i, "repair", at[i].n + 1))
    /\ UNCHANGED version /\ NoSeed /\ Given
AddIndex(i) ==
    /\ at[i].step = "add index" /\ indexes' = indexes \cup {LegacyColumns[at[i].n]}
    /\ GoTo(i, Still(i, "repair", at[i].n + 1))
    /\ UNCHANGED <<tables, columns, version>> /\ NoSeed /\ Given

\* create_all: the tables that were absent when it looked, on Postgres all in one
\* transaction, on SQLite one after the other; one that came in between is an error.
LookForTables(i) ==
    /\ at[i].step = "create" /\ GoTo(i, [step |-> "making", n |-> 1, absent |-> AllTables \ tables])
    /\ UNCHANGED version /\ NoTable /\ NoSeed /\ Given
Next_(i) ==
    IF dialect = "postgres" THEN at[i].absent
    ELSE {Revision[n] : n \in {k \in 1 .. Len(Revision) :
             Revision[k] \in at[i].absent /\ \A m \in 1 .. k - 1 : Revision[m] \notin at[i].absent}}
MakeTables(i) ==
    /\ at[i].step = "making" /\ at[i].absent # {}
    /\ IF Next_(i) \cap tables # {}
       THEN GoTo(i, At("down", 0)) /\ NoTable
       ELSE /\ tables' = tables \cup Next_(i)
            /\ columns' = columns \cup UNION {ColumnsOf(t) : t \in Next_(i)}
            /\ indexes' = indexes \cup Keys(Next_(i)) \cup UNION {ColumnsOf(t) \cap Indexed : t \in Next_(i)}
            /\ GoTo(i, [step |-> "making", n |-> 1, absent |-> at[i].absent \ Next_(i)])
    /\ UNCHANGED version /\ NoSeed /\ Given
TablesMade(i) ==
    /\ at[i].step = "making" /\ at[i].absent = {}
    /\ GoTo(i, At(IF mode = "library" THEN "repair" ELSE "stamp", 1))
    /\ UNCHANGED version /\ NoTable /\ NoSeed /\ Given
\* A kill between a table and its indexes, on SQLite.
KillMaking(i) ==
    /\ at[i].step = "making" /\ at[i].absent # {} /\ dialect = "sqlite" /\ kills < MaxKills
    /\ Next_(i) \cap tables = {}
    /\ tables' = tables \cup Next_(i)
    /\ columns' = columns \cup UNION {ColumnsOf(t) : t \in Next_(i)}
    /\ kills' = kills + 1 /\ GoTo(i, At("down", 0))
    /\ UNCHANGED <<dialect, mode, indexes, version>> /\ NoSeed
\* The stamp: the version table and its row, in one transaction only on Postgres.
Stamp(i) ==
    /\ at[i].step = "stamp"
    /\ IF dialect = "sqlite" /\ at[i].n = 1 /\ version = "absent"
       THEN version' = "empty" /\ GoTo(i, At("stamp", 2))
       ELSE version' = "head" /\ GoTo(i, At("seed", 1))
    /\ NoTable /\ NoSeed /\ Given

\* Seeding: each row is looked up, the admin before the tenant, and, if it was absent,
\* added in its own transaction.  An error, as of a table that is not there or of a row
\* that came in between, ends the seeding, not the start.
Wanted(i, n) == IF n = 2 THEN Seeds[2] \in at[i].absent ELSE Seeds[n] \notin seeded
ProbeSeed(i) ==
    /\ at[i].step = "seed"
    /\ LET n == at[i].n
           noAdmin == IF n = 1 THEN {Seeds[2]} \ seeded ELSE at[i].absent
       IN GoTo(i, IF n > Len(Seeds) \/ ~ {"users", "tenants"} \subseteq tables THEN At("up", 0)
                  ELSE [step |-> IF Wanted(i, n) THEN "insert" ELSE "seed",
                        n |-> IF Wanted(i, n) THEN n ELSE n + 1, absent |-> noAdmin])
    /\ UNCHANGED version /\ NoTable /\ NoSeed /\ Given
InsertSeed(i) ==
    LET s == Seeds[at[i].n] IN
    /\ at[i].step = "insert"
    /\ IF s \in seeded THEN GoTo(i, At("up", 0)) /\ NoSeed
       ELSE seeded' = seeded \cup {s} /\ GoTo(i, Still(i, "seed", at[i].n + 1))
    /\ UNCHANGED version /\ NoTable /\ Given

Kill(i) ==
    /\ at[i].step # "down" /\ kills < MaxKills
    /\ kills' = kills + 1 /\ GoTo(i, At("down", 0))
    /\ UNCHANGED <<dialect, mode, version>> /\ NoTable /\ NoSeed
\* An operator takes the revision back while nothing runs; a missing index refuses it.
Downgrade ==
    /\ version = "head" /\ indexes = Keys(AllTables) \cup Indexed
    /\ \A i \in Instances : at[i].step = "down"
    /\ tables' = {} /\ columns' = {} /\ indexes' = {} /\ version' = "empty" /\ seeded' = {}
    /\ UNCHANGED <<dialect, mode, at, kills>>

InstanceStep(i) ==
    \/ StartManaged(i) \/ StartFresh(i) \/ StartLegacy(i) \/ StartLibrary(i) \/ StartOff(i)
    \/ UpgradeNothing(i) \/ Upgrade(i) \/ MakeVersionTable(i)
    \/ CreateTable(i) \/ CreateIndexes(i) \/ Conflict(i)
    \/ ProbeColumn(i) \/ AddColumn(i) \/ AddIndex(i)
    \/ LookForTables(i) \/ MakeTables(i) \/ TablesMade(i)
    \/ Stamp(i) \/ ProbeSeed(i) \/ InsertSeed(i)
SchemaNext == Downgrade \/ \E i \in Instances : InstanceStep(i) \/ Kill(i) \/ KillMaking(i)
SchemaSpec == SchemaInit /\ [][SchemaNext]_schemaVars
-----------------------------------------------------------------------------
\* A stamp is true, whatever was interrupted and whoever else was starting: the database
\* has every table and every late column; on Postgres every index too.  (On SQLite a kill
\* between a table, or a column, and its index loses the index for good.)
HeadIsWhole ==
    version = "head" =>
        /\ tables = AllTables /\ columns = Range(LegacyColumns)
        /\ dialect = "postgres" => indexes = Keys(AllTables) \cup Indexed

\* When all instances are up, the tenant, its admin and the audit user are there, though
\* errors of the seeding are swallowed: whoever loses a race leaves it to the other.
SeededWhenUp ==
    mode # "off" /\ (\A i \in Instances : at[i].step = "up") => seeded = Range(Seeds)

\* Once an instance has begun to start, all are up in the end, whatever the starts before
\* were interrupted at: nothing that is left behind refuses the next one for ever.
StartsSucceed ==
    (\E i \in Instances : at[i].step # "down") ~> (\A i \in Instances : at[i].step = "up")

\* What starts leave behind can be relied on: the two together.
BootstrapIsWhole == HeadIsWhole /\ SeededWhenUp
=============================================================================
