-------------------------- MODULE BenchmarkSchemas --------------------------
(***************************************************************************)
(* The tables of the benchmarks in PostgreSQL and the scripts that create, *)
(* load and move them: db/schema.sql, scripts/setup_tpch.py,               *)
(* scripts/setup_tpcds.py and scripts/migrate_to_schemas.py.               *)
(*                                                                         *)
(* TPC-H and TPC-DS both have a table `customer`.  Of the other tables one *)
(* stands for all that a script treats alike: "orders" for the tables only *)
(* TPC-H has (and for the demo's, whose orders take the same name), and    *)
(* "store_sales" for the tables only TPC-DS has.  Scripts run one at a     *)
(* time; one may be killed before any of its transactions.                 *)
(***************************************************************************)
EXTENDS Naturals, Sequences

CONSTANTS
    MaxScripts      \* bound on the scripts that are started

ASSUME SchemaAssumption == MaxScripts \in Nat

VARIABLES
    db,             \* schema -> table -> the table there
    csvs,           \* the benchmarks whose CSV files exist
    schemaFile,     \* db/tpcds_schema.sql: "checked_in" or "generated"
    script,         \* the script that runs: where it is, what is left, db at its start
    scripts         \* how many scripts have been started

schemaVars == <<db, csvs, schemaFile, script, scripts>>

Schemas    == {"public", "tpch", "tpcds"}
Tables     == {"customer", "orders", "store_sales"}
Benchmarks == {"tpch", "tpcds"}

\* A table has the columns of one benchmark, and the data of that many loads.
Table(of, loads) == [of |-> of, loads |-> loads]
Absent           == Table("none", 0)
Loads            == 0 .. 2
TableValue       == {Absent} \cup [of : {"demo", "tpch", "tpcds"}, loads : Loads]

TablesOf(b) == IF b = "tpch" THEN <<"customer", "orders">>
               ELSE <<"customer", "store_sales">>

Has(d, s, t)     == d[s][t] # Absent
PutIn(d, s, t, v) == [d EXCEPT ![s][t] = v]

Nothing == [s \in Schemas |-> [t \in Tables |-> Absent]]

NoScript == [name |-> "none", at |-> "idle", left |-> <<>>, before |-> Nothing]

\* The databases of the first phases: nothing; TPC-H alone in public; or TPC-H
\* with a customer table TPC-DS has replaced.  And the one of today.
Legacy(of) ==
    PutIn(PutIn(Nothing, "public", "customer", Table(of, 1)),
          "public", "orders", Table("tpch", 1))
Collided == PutIn(Legacy("tpcds"), "public", "store_sales", Table("tpcds", 1))

Loaded == [Nothing EXCEPT
    !["tpch"]  = [@ EXCEPT !["customer"] = Table("tpch", 1), !["orders"] = Table("tpch", 1)],
    !["tpcds"] = [@ EXCEPT !["customer"] = Table("tpcds", 1),
                           !["store_sales"] = Table("tpcds", 1)]]

SchemaInit ==
    /\ db \in {Nothing, Legacy("tpch"), Collided, Loaded}
    /\ csvs = IF db = Nothing THEN {} ELSE Benchmarks
    /\ schemaFile = "checked_in"
    /\ script = NoScript
    /\ scripts = 0

----------------------------------------------------------------------------
Starts(name, at, left) ==
    /\ script = NoScript
    /\ scripts < MaxScripts
    /\ scripts' = scripts + 1
    /\ script' = [name |-> name, at |-> at, left |-> left, before |-> db]

Runs(name, at) == script.name = name /\ script.at = at
GoesTo(at)     == script' = [script EXCEPT !.at = at]
Ends           == script' = NoScript

\* The demo's schema drops whatever orders table public has.
LoadDemo ==
    /\ script = NoScript
    /\ scripts < MaxScripts
    /\ scripts' = scripts + 1
    /\ db' = PutIn(db, "public", "orders", Table("demo", 1))
    /\ UNCHANGED <<csvs, schemaFile, script>>

----------------------------------------------------------------------------
(* setup_tpch.py and setup_tpcds.py.                                       *)

\* With --skip-gen the script goes straight to PostgreSQL.
StartSetup(b) ==
    /\ \E at \in {"generate", "schema"} : Starts(b, at, TablesOf(b))
    /\ UNCHANGED <<db, csvs, schemaFile>>

\* The TPC-DS script writes the DDL before it exports the data.
WriteSchemaFile ==
    /\ Runs("tpcds", "generate")
    /\ schemaFile' = "generated"
    /\ GoesTo("export")
    /\ UNCHANGED <<db, csvs, scripts>>

\* With --skip-load the script ends here.
Export(b) ==
    /\ Runs(b, IF b = "tpch" THEN "generate" ELSE "export")
    /\ csvs' = csvs \cup {b}
    /\ GoesTo("schema") \/ Ends
    /\ UNCHANGED <<db, schemaFile, scripts>>

\* The DDL drops and creates; the checked-in one of TPC-DS names no schema.
SchemaOf(b) == IF b = "tpcds" /\ schemaFile = "checked_in" THEN "public" ELSE b

ApplySchema(b) ==
    /\ Runs(b, "schema")
    /\ db' = [db EXCEPT ![SchemaOf(b)] =
                [t \in Tables |-> IF t \in {TablesOf(b)[1], TablesOf(b)[2]}
                                  THEN Table(b, 0) ELSE @[t]]]
    /\ GoesTo("load")
    /\ UNCHANGED <<csvs, schemaFile, scripts>>

\* COPY into a table of the benchmark's schema, one transaction for each table.
CanCopy(b) == b \in csvs /\ db[b][Head(script.left)].of = b

CopyTable(b) ==
    /\ Runs(b, "load")
    /\ script.left # <<>>
    /\ CanCopy(b)
    /\ db' = [db EXCEPT ![b][Head(script.left)].loads = IF @ = 2 THEN 2 ELSE @ + 1]
    /\ script' = [script EXCEPT !.left = Tail(@)]
    /\ UNCHANGED <<csvs, schemaFile, scripts>>

CopyFails(b) ==
    /\ Runs(b, "load")
    /\ script.left # <<>>
    /\ ~CanCopy(b)
    /\ Ends
    /\ UNCHANGED <<db, csvs, schemaFile, scripts>>

AnalyzeAll(b) ==
    /\ Runs(b, "load")
    /\ script.left = <<>>
    /\ Ends
    /\ UNCHANGED <<db, csvs, schemaFile, scripts>>

----------------------------------------------------------------------------
(* migrate_to_schemas.py.                                                  *)

\* What table_schema() may answer: public goes first, and of the two others
\* LIMIT 1 returns either.
TableSchema(d, t) ==
    IF Has(d, "public", t) THEN {"public"} ELSE {s \in Benchmarks : Has(d, s, t)}

Moved(d, t, s, dest) == PutIn(PutIn(d, dest, t, d[s][t]), s, t, Absent)

\* The databases move_table() may leave, and whether its ALTER may fail.
MoveTable(d, t, dest) ==
    IF TableSchema(d, t) = {} THEN {d}
    ELSE {IF s = dest THEN d ELSE Moved(d, t, s, dest) :
            s \in {s \in TableSchema(d, t) : s = dest \/ ~Has(d, dest, t)}}

MoveFails(d, t, dest) ==
    \E s \in TableSchema(d, t) : s # dest /\ Has(d, dest, t)

\* A customer table of public that is not TPC-DS's stays where it is.
Stays(d) == Has(d, "public", "customer") /\ d["public"]["customer"].of # "tpcds"

MoveCustomer(d) == IF Stays(d) THEN {d} ELSE MoveTable(d, "customer", "tpcds")
CustomerFails(d) == ~Stays(d) /\ MoveFails(d, "customer", "tpcds")

StartMigration ==
    /\ Starts("migrate", "move_tpcds", <<>>)
    /\ UNCHANGED <<db, csvs, schemaFile>>

\* One transaction for the TPC-DS tables.
MoveTpcds ==
    /\ Runs("migrate", "move_tpcds")
    /\ \E d \in MoveCustomer(db) : db' \in MoveTable(d, "store_sales", "tpcds")
    /\ GoesTo("move_tpch")
    /\ UNCHANGED <<csvs, schemaFile, scripts>>

\* And one for those only TPC-H has.
MoveTpch ==
    /\ Runs("migrate", "move_tpch")
    /\ db' \in MoveTable(db, "orders", "tpch")
    /\ GoesTo("restore")
    /\ UNCHANGED <<csvs, schemaFile, scripts>>

\* ALTER ... SET SCHEMA fails where the name is taken; the transaction is undone.
MoveDies ==
    /\ \/ /\ Runs("migrate", "move_tpcds")
          /\ \/ CustomerFails(db)
             \/ \E d \in MoveCustomer(db) : MoveFails(d, "store_sales", "tpcds")
       \/ /\ Runs("migrate", "move_tpch")
          /\ MoveFails(db, "orders", "tpch")
    /\ Ends
    /\ UNCHANGED <<db, csvs, schemaFile, scripts>>

\* Seeded fault: any customer table counts, TPC-DS's too.
NeedCustomerAny(d) == TableSchema(d, "customer") = {}

NeedCustomer(d) ==
    TableSchema(d, "customer") = {} \/ d["tpch"]["customer"].of # "tpch"

\* CREATE TABLE IF NOT EXISTS, TRUNCATE and COPY in one transaction; the COPY
\* fails on a table of another benchmark.
RestoreCustomer ==
    /\ Runs("migrate", "restore")
    /\ IF ~NeedCustomer(db) THEN db' = db /\ GoesTo("constraints")
       ELSE IF Has(db, "tpch", "customer") THEN db' = db /\ Ends
       ELSE db' = PutIn(db, "tpch", "customer", Table("tpch", 1)) /\ GoesTo("constraints")
    /\ UNCHANGED <<csvs, schemaFile, scripts>>

\* The foreign key is best effort; ANALYZE and the row counts change nothing.
Constraints ==
    /\ Runs("migrate", "constraints")
    /\ Ends
    /\ UNCHANGED <<db, csvs, schemaFile, scripts>>

\* The script is killed, or loses its connection: a transaction is undone.
Killed ==
    /\ script # NoScript
    /\ Ends
    /\ UNCHANGED <<db, csvs, schemaFile, scripts>>

----------------------------------------------------------------------------
SetupStep ==
    \/ WriteSchemaFile
    \/ \E b \in Benchmarks :
        \/ StartSetup(b) \/ Export(b) \/ ApplySchema(b)
        \/ CopyTable(b) \/ CopyFails(b) \/ AnalyzeAll(b)

MigrationStep ==
    StartMigration \/ MoveTpcds \/ MoveTpch \/ MoveDies \/ RestoreCustomer \/ Constraints

SchemaNext == LoadDemo \/ SetupStep \/ MigrationStep \/ Killed

SchemaSpec == SchemaInit /\ [][SchemaNext]_schemaVars

----------------------------------------------------------------------------
SchemaTypeOK ==
    /\ db \in [Schemas -> [Tables -> TableValue]]
    /\ csvs \subseteq Benchmarks
    /\ schemaFile \in {"checked_in", "generated"}
    /\ scripts \in 0 .. MaxScripts
    /\ script.before \in [Schemas -> [Tables -> TableValue]]

\* Both benchmarks are where the scripts of today put them.
Settled(d) ==
    /\ \A b \in Benchmarks : d[b]["customer"].of = b
    /\ \A t \in Tables : ~Has(d, "public", t)
    /\ Has(d, "tpch", "orders") /\ Has(d, "tpcds", "store_sales")

(* A migration that gets to its constraints has given TPC-H its customer   *)
(* table, has taken TPC-DS's out of public with all its data, and has left *)
(* a database that was settled as it was.                                  *)
MigrationRestores ==
    Runs("migrate", "constraints") =>
        LET before == script.before
        IN  /\ db["tpch"]["customer"].of = "tpch"
            /\ db["public"]["customer"].of # "tpcds"
            /\ before["public"]["customer"].of = "tpcds"
                => db["tpcds"]["customer"] = before["public"]["customer"]
            /\ Has(before, "public", "store_sales")
                => db["tpcds"]["store_sales"] = before["public"]["store_sales"]
            /\ Settled(before) => db = before
=============================================================================
