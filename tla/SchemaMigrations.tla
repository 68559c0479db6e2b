--------------------------- MODULE SchemaMigrations ---------------------------
(***************************************************************************)
(* The tables and indexes of the database and who makes them: the two      *)
(* Alembic revisions, Base.metadata.create_all, which every start of the   *)
(* backend and of the seed script calls (init_db), and the rows the seed   *)
(* stores.                                                                 *)
(* SQLite keeps each statement as it is executed and can be left half way  *)
(* by a kill; PostgreSQL keeps all of a command's statements or none.      *)
(***************************************************************************)
EXTENDS Integers, Sequences, SequencesExt

CONSTANTS
    Dialects,      \* the databases checked, of "sqlite" and "postgresql"
    Extensions,    \* the extensions the PostgreSQL server offers
    MaxCommands    \* bound on the commands that are begun

VARIABLES
    dialect,      \* of LVG_DATABASE_URL
    database,     \* what is stored, see NothingStored
    command,      \* the two commands that may run at a time
    begun,        \* commands begun so far
    backend,      \* "down" or "serving"
    everDropped,  \* some table or index has been dropped
    halfDropped,  \* and not all are there again
    lost,         \* indexes whose command was killed between their table and them
    outcome,      \* of the last undisturbed upgrade of an empty database
    seedings      \* seed scripts that have reported success

schemaVars ==
    <<dialect, database, command, begun, backend, everDropped, halfDropped, lost, outcome, seedings>>
------------------------------------------------------------------------------
(* Tables and indexes, the row of alembic_version (0 when there is none),   *)
(* whether the demo tenant with its users, hosts and streams is there, and  *)
(* how many demo events.                                                    *)
NothingStored == [relations |-> {}, version |-> 0, entities |-> FALSE, demoEvents |-> 0]

(* Tables and indexes in the order upgrade creates them.                    *)
CreationOrder ==
    <<"tenants",
      "users", "ix_users_tenant_email",
      "hosts", "ix_hosts_tenant",
      "streams", "ix_streams_tenant", "ix_streams_host",
      "events", "ix_events_stream_time", "ix_events_tenant_time",
      "alerts", "ix_alerts_tenant_state", "ix_alerts_stream",
      "api_keys",
      "usage_counters", "ix_usage_tenant_bucket">>

Relations == ToSet(CreationOrder)

(* The table an index is of; a table is of itself.                          *)
TableOf(r) ==
    CASE r = "ix_users_tenant_email" -> "users"
      [] r = "ix_hosts_tenant" -> "hosts"
      [] r \in {"ix_streams_tenant", "ix_streams_host"} -> "streams"
      [] r \in {"ix_events_stream_time", "ix_events_tenant_time"} -> "events"
      [] r \in {"ix_alerts_tenant_state", "ix_alerts_stream"} -> "alerts"
      [] r = "ix_usage_tenant_bucket" -> "usage_counters"
      [] OTHER -> r

Tables == {r \in Relations : TableOf(r) = r}
Indexes == Relations \ Tables

(* What a table refers to. *)
Parents(t) ==
    CASE t \in {"users", "hosts", "api_keys"} -> {"tenants"}
      [] t = "streams" -> {"tenants", "hosts"}
      [] OTHER -> {}

Statements(op, args) == [i \in DOMAIN args |-> [op |-> op, arg |-> args[i]]]

Stamp(r) == Statements("stamp", <<r>>)

MutantFirstUpgrade == Stamp(1) \o Statements("create", CreationOrder)

(* Each revision ends with its stamp. *)
FirstUpgrade == Statements("create", CreationOrder) \o Stamp(1)

FirstDowngrade == Statements("drop", Reverse(CreationOrder)) \o Stamp(0)

(* The key and the partition of the events table of 0002. *)
EventsKey == {"id"}
EventsPartition == {"created_at"}
WantedExtensions == {"pgvector", "pg_trgm"}

Enhancements ==
    IF dialect = "sqlite" THEN << >>
    ELSE Statements("extend", <<WantedExtensions>>) \o Statements("partition", <<EventsKey>>)

SecondUpgrade == Enhancements \o Stamp(2)

(* downgrade of 0002 takes back policies only. *)
SecondDowngrade == Stamp(1)

(* alembic upgrade head, and alembic downgrade base. *)
Upgrade(v) == (IF v = 0 THEN FirstUpgrade ELSE << >>) \o (IF v < 2 THEN SecondUpgrade ELSE << >>)

Downgrade(v) == (IF v = 2 THEN SecondDowngrade ELSE << >>) \o (IF v > 0 THEN FirstDowngrade ELSE << >>)

(* The tables that are not there and their indexes, in their order. *)
NotThere(db) ==
    LET M[i \in 0..Len(CreationOrder)] ==
            IF i = 0 THEN << >>
            ELSE IF TableOf(CreationOrder[i]) \in db.relations THEN M[i - 1]
            ELSE Append(M[i - 1], CreationOrder[i])
    IN M[Len(CreationOrder)]

(* create_all finds out which tables are missing before it creates the      *)
(* first; an index that a table lacks is not missed.                        *)
CreateAll(db) == Statements("create", NotThere(db))

(* The seed asks for each row before it creates it; events are always new.  *)
SeedRows(db) == Statements("rows", <<~db.entities>>)

Plan(kind, db) ==
    CASE kind = "upgrade" -> Upgrade(db.version)
      [] kind = "downgrade" -> Downgrade(db.version)
      [] kind \in {"start", "seed"} -> CreateAll(db)
------------------------------------------------------------------------------
Refers(r, db) ==
    /\ r \in Indexes => TableOf(r) \in db.relations
    /\ dialect = "sqlite" \/ Parents(r) \subseteq db.relations

(* PostgreSQL installs only extensions it has, and a unique key of a        *)
(* partitioned table must hold the columns it is partitioned by.            *)
Accepted(s, db) ==
    CASE s.op = "create" -> s.arg \notin db.relations /\ Refers(s.arg, db)
      [] s.op = "drop" -> /\ s.arg \in db.relations
                          /\ dialect = "sqlite" \/ \A t \in db.relations : s.arg \notin Parents(t)
      [] s.op = "extend" -> s.arg \subseteq Extensions
      [] s.op = "partition" -> EventsPartition \subseteq s.arg
      [] s.op = "rows" -> Tables \subseteq db.relations /\ ~(s.arg /\ db.entities)
      [] s.op = "stamp" -> TRUE

(* The rows of one run of the seed. *)
Seeded(db) == [db EXCEPT !.entities = TRUE, !.demoEvents = @ + 3]

(* A table takes its indexes with it when it is dropped.                    *)
Executed(s, db) ==
    CASE s.op = "create" -> [db EXCEPT !.relations = @ \cup {s.arg}]
      [] s.op = "drop" -> [db EXCEPT !.relations = {r \in @ : r # s.arg /\ TableOf(r) # s.arg},
                                     !.entities = @ /\ s.arg \notin {"tenants", "users", "hosts", "streams"},
                                     !.demoEvents = IF s.arg = "events" THEN 0 ELSE @]
      [] s.op = "rows" -> Seeded(db)
      [] s.op = "stamp" -> [db EXCEPT !.version = s.arg]
      [] OTHER -> db

Refused == [NothingStored EXCEPT !.version = -1]

ExecuteIn(db, s) == IF db = Refused \/ ~Accepted(s, db) THEN Refused ELSE Executed(s, db)

(* What one step makes durable: a statement, or on PostgreSQL all of them.  *)
Durable(todo) == IF dialect = "sqlite" THEN SubSeq(todo, 1, 1) ELSE todo

Rest(todo) == SubSeq(todo, Len(Durable(todo)) + 1, Len(todo))
------------------------------------------------------------------------------
(* The indexes that a database lacks although their tables are there.       *)
Bare(db) == {r \in Indexes : TableOf(r) \in db.relations /\ r \notin db.relations}

(* The indexes a plan goes on with, once it has created their table.        *)
Coming(todo) ==
    {r \in Indexes :
        /\ todo # << >>
        /\ todo[1].op = "create" /\ todo[1].arg \in Indexes /\ TableOf(todo[1].arg) = TableOf(r)
        /\ \E n \in DOMAIN todo : todo[n].op = "create" /\ todo[n].arg = r}

Idle == [kind |-> "none", todo |-> << >>, clean |-> FALSE]

Kinds == {"upgrade", "downgrade", "start", "seed"}

Slots == 1..2

(* Operators run one Alembic command at a time; the backend and the seed    *)
(* are started when somebody starts them.                                   *)
Begin(i, kind) ==
    /\ begun < MaxCommands /\ command[i] = Idle
    /\ \A j \in Slots : kind \in {"upgrade", "downgrade"} => command[j].kind \notin {"upgrade", "downgrade"}
    /\ kind = "start" => backend = "down"
    /\ begun' = begun + 1
    /\ command' = [j \in Slots |->
                     IF j = i THEN [kind |-> kind, todo |-> Plan(kind, database),
                                    clean |-> database = NothingStored /\ \A k \in Slots : command[k] = Idle]
                              ELSE [command[j] EXCEPT !.clean = FALSE]]
    /\ UNCHANGED <<dialect, database, backend, everDropped, halfDropped, lost, outcome, seedings>>

Drops(todo) == \E n \in DOMAIN todo : todo[n].op = "drop"

(* The next statements of a command, and its end when one is refused.       *)
Execute(i) ==
    LET c == command[i]
        result == FoldLeft(ExecuteIn, database, Durable(c.todo))
    IN  /\ c.todo # << >>
        /\ IF result = Refused
           THEN /\ command' = [command EXCEPT ![i] = Idle]
                /\ outcome' = IF c.clean /\ c.kind = "upgrade" THEN "failed" ELSE outcome
                /\ UNCHANGED <<database, everDropped, halfDropped, lost>>
           ELSE /\ database' = result
                /\ command' = [command EXCEPT ![i].todo = Rest(c.todo)]
                /\ everDropped' = (everDropped \/ Drops(Durable(c.todo)))
                /\ halfDropped' = ((halfDropped \/ Drops(Durable(c.todo))) /\ result.relations # Relations)
                /\ lost' = lost \cap Bare(result)
                /\ UNCHANGED outcome
        /\ seedings' = IF result # Refused /\ c.todo[1].op = "rows" THEN seedings + 1 ELSE seedings
        /\ UNCHANGED <<dialect, begun, backend>>

(* A command whose statements are done: the seed goes on with its rows, the *)
(* backend serves, anything else is over.                                   *)
Finish(i) ==
    LET c == command[i]
    IN  /\ c # Idle /\ c.todo = << >>
        /\ IF c.kind = "seed"
           THEN command' = [command EXCEPT ![i].kind = "seeding", ![i].todo = SeedRows(database)]
           ELSE command' = [command EXCEPT ![i] = Idle]
        /\ backend' = IF c.kind = "start" THEN "serving" ELSE backend
        /\ outcome' = IF c.kind = "upgrade" /\ c.clean THEN "head" ELSE outcome
        /\ UNCHANGED <<dialect, database, begun, everDropped, halfDropped, lost, seedings>>

Kill(i) ==
    /\ command[i] # Idle
    /\ command' = [command EXCEPT ![i] = Idle]
    /\ lost' = lost \cup Coming(command[i].todo)
    /\ UNCHANGED <<dialect, database, begun, backend, everDropped, halfDropped, outcome, seedings>>

Stop ==
    /\ backend = "serving" /\ backend' = "down"
    /\ UNCHANGED <<dialect, database, command, begun, everDropped, halfDropped, lost, outcome, seedings>>

SchemaInit ==
    /\ dialect \in Dialects
    /\ database = NothingStored
    /\ command = [i \in Slots |-> Idle] /\ begun = 0
    /\ backend = "down" /\ everDropped = FALSE /\ halfDropped = FALSE /\ lost = {}
    /\ outcome = "none" /\ seedings = 0

SchemaNext ==
    \/ \E i \in Slots :
          \/ \E kind \in Kinds : Begin(i, kind)
          \/ Execute(i)
          \/ Finish(i)
          \/ Kill(i)
    \/ Stop

SchemaSpec == SchemaInit /\ [][SchemaNext]_schemaVars
------------------------------------------------------------------------------
Whole == database.relations = Relations

(* The version tells what is there: however commands overlap and are        *)
(* killed, a stamped database has every table and every index, but for one  *)
(* that SQLite was left with in the middle of a downgrade.                  *)
VersionTellsTables == database.version # 0 => Whole \/ (halfDropped /\ dialect = "sqlite")

(* A backend that serves found or made every table, and they are there      *)
(* until somebody downgrades under it.                                      *)
ServedByTables == backend = "serving" => Tables \subseteq database.relations \/ halfDropped

(* A table lacks an index only while the command that created the table is  *)
(* about to create the index, or for good when that command was killed at   *)
(* that moment on SQLite; not for any two commands that overlap.            *)
IndexesComeWithTables ==
    \/ Bare(database) \subseteq lost \cup UNION {Coming(command[i].todo) : i \in Slots}
    \/ halfDropped

(* A seed stores all of its rows or none, the entities once, and its events *)
(* again with every run.                                                    *)
SeededWhole ==
    ~everDropped => /\ database.demoEvents = 3 * seedings
                    /\ database.entities <=> seedings > 0

(* The database is never between two states that somebody has reported.     *)
DatabaseIsWhole == VersionTellsTables /\ ServedByTables /\ IndexesComeWithTables /\ SeededWhole

(* What the task list of the repository says of the migrations: an upgrade  *)
(* of an empty database that nobody disturbs reaches the newest revision    *)
(* ("`alembic upgrade head` 通过；本地 docker 验证").                           *)
UpgradeReachesHead == outcome # "failed"

==============================================================================
