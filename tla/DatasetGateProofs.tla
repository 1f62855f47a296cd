------------------------- MODULE DatasetGateProofs -------------------------
(***************************************************************************)
(* Theorems about the scripts of BenchmarkSchemas and PlanCollection for   *)
(* every number of scripts, every workload and every set of variants,      *)
(* about the gates of DatasetGate and ModelGate over what they collect,    *)
(* about the walk of PlanTrees over every plan, and about the feature rows *)
(* of PlanFeatures and TrainingRows.                                       *)
(***************************************************************************)
EXTENDS TrainingRows, FiniteSetTheorems, SequenceTheorems, WellFoundedInduction, TLAPS

----------------------------------------------------------------------------
(* Databases                                                               *)

Databases == [Schemas -> [Tables -> TableValue]]

LEMMA PutInEffect ==
    ASSUME NEW d \in Databases, NEW s \in Schemas, NEW t \in Tables, NEW v \in TableValue
    PROVE  /\ PutIn(d, s, t, v) \in Databases
           /\ \A r \in Schemas, u \in Tables :
                 PutIn(d, s, t, v)[r][u] = IF r = s /\ u = t THEN v ELSE d[r][u]
BY DEF Databases, PutIn

LEMMA AbsentTable == Absent \in TableValue /\ Absent.of = "none"
BY DEF Absent, TableValue, Table

\* A table that moves is where it went with its data, and nothing else is touched.
LEMMA MovedEffect ==
    ASSUME NEW d \in Databases, NEW t \in Tables, NEW s \in Schemas, NEW dest \in Schemas, s # dest
    PROVE  /\ Moved(d, t, s, dest) \in Databases
           /\ \A r \in Schemas, u \in Tables :
                 Moved(d, t, s, dest)[r][u] =
                    IF u = t /\ r = s THEN Absent ELSE IF u = t /\ r = dest THEN d[s][t] ELSE d[r][u]
<1> DEFINE e == PutIn(d, dest, t, d[s][t])
<1>1. d[s][t] \in TableValue
  BY DEF Databases
<1>2. /\ e \in Databases
      /\ \A r \in Schemas, u \in Tables : e[r][u] = IF r = dest /\ u = t THEN d[s][t] ELSE d[r][u]
  BY <1>1, PutInEffect
<1> HIDE DEF e
<1>3. /\ PutIn(e, s, t, Absent) \in Databases
      /\ \A r \in Schemas, u \in Tables :
            PutIn(e, s, t, Absent)[r][u] = IF r = s /\ u = t THEN Absent ELSE e[r][u]
  BY <1>2, AbsentTable, PutInEffect
<1>4. Moved(d, t, s, dest) = PutIn(e, s, t, Absent)
  BY DEF Moved, e
<1>5. QED
  BY <1>2, <1>3, <1>4

\* move_table() leaves the database alone, or takes the table from a schema that has
\* it to one that has not.
LEMMA MoveTableEffect ==
    ASSUME NEW d \in Databases, NEW t \in Tables, NEW dest \in Benchmarks,
           NEW e \in MoveTable(d, t, dest)
    PROVE  /\ e \in Databases
           /\ \/ e = d /\ (TableSchema(d, t) = {} \/ dest \in TableSchema(d, t))
              \/ \E s \in TableSchema(d, t) :
                    s # dest /\ ~Has(d, dest, t) /\ e = Moved(d, t, s, dest)
<1>1. TableSchema(d, t) \subseteq Schemas /\ dest \in Schemas
  BY DEF TableSchema, Schemas, Benchmarks
<1>2. CASE TableSchema(d, t) = {}
  BY <1>2 DEF MoveTable
<1>3. CASE TableSchema(d, t) # {}
  <2>1. PICK s \in TableSchema(d, t) :
            /\ s = dest \/ ~Has(d, dest, t)
            /\ e = IF s = dest THEN d ELSE Moved(d, t, s, dest)
    BY <1>3 DEF MoveTable
  <2>2. QED
    BY <1>1, <2>1, MovedEffect
<1>4. QED
  BY <1>2, <1>3

----------------------------------------------------------------------------
(* A migration                                                             *)

\* What a migration that began on b has done of its promise when it has moved TPC-DS's
\* tables: its customer table is out of public, and nothing is lost on the way.
Carried(b, d) ==
    /\ d["public"]["customer"].of # "tpcds"
    /\ b["public"]["customer"].of = "tpcds"
          => d["tpcds"]["customer"] = b["public"]["customer"]
    /\ Has(b, "public", "store_sales")
          => d["tpcds"]["store_sales"] = b["public"]["store_sales"]
    /\ Settled(b) => d = b

LEMMA CustomerCarried ==
    ASSUME NEW b \in Databases, NEW c \in MoveCustomer(b)
    PROVE  /\ c \in Databases
           /\ c["public"]["customer"].of # "tpcds"
           /\ b["public"]["customer"].of = "tpcds"
                 => c["tpcds"]["customer"] = b["public"]["customer"]
           /\ \A s \in Schemas : c[s]["store_sales"] = b[s]["store_sales"]
           /\ Settled(b) => c = b
<1> USE DEF Schemas, Tables, Benchmarks
<1>1. CASE Stays(b)
  <2>1. c = b
    BY <1>1 DEF MoveCustomer
  <2>2. QED
    BY <1>1, <2>1 DEF Stays
<1>2. CASE ~Stays(b)
  <2>1. c \in MoveTable(b, "customer", "tpcds")
    BY <1>2 DEF MoveCustomer
  <2>2. CASE c = b /\ (TableSchema(b, "customer") = {} \/ "tpcds" \in TableSchema(b, "customer"))
    <3>1. ~Has(b, "public", "customer")
      BY <2>2 DEF TableSchema
    <3>2. b["public"]["customer"].of = "none"
      BY <3>1, AbsentTable DEF Has
    <3>3. QED
      BY <2>2, <3>2
  <2>3. ASSUME NEW s \in TableSchema(b, "customer"), s # "tpcds", ~Has(b, "tpcds", "customer"),
               c = Moved(b, "customer", s, "tpcds")
        PROVE  /\ c["public"]["customer"].of # "tpcds"
               /\ b["public"]["customer"].of = "tpcds"
                     => c["tpcds"]["customer"] = b["public"]["customer"]
               /\ \A r \in Schemas : c[r]["store_sales"] = b[r]["store_sales"]
               /\ Settled(b) => c = b
    <3>1. s \in Schemas /\ Has(b, s, "customer")
      BY <2>3 DEF TableSchema
    <3>2. \A r \in Schemas, u \in Tables :
            c[r][u] = IF u = "customer" /\ r = s THEN Absent
                      ELSE IF u = "customer" /\ r = "tpcds" THEN b[s]["customer"] ELSE b[r][u]
      BY <2>3, <3>1, MovedEffect
    <3>3. s = "public" \/ ~Has(b, "public", "customer")
      BY <2>3 DEF TableSchema
    <3>4. ~Has(b, "public", "customer") => b["public"]["customer"].of = "none"
      BY AbsentTable DEF Has
    <3>5. c["public"]["customer"].of # "tpcds"
      BY <3>1, <3>2, <3>3, <3>4, AbsentTable
    <3>6. b["public"]["customer"].of = "tpcds" => c["tpcds"]["customer"] = b["public"]["customer"]
      BY <2>3, <3>2, <3>3, <3>4
    <3>7. ~Settled(b)
      <4>1. b["tpcds"]["customer"].of = "none"
        BY <2>3, AbsentTable DEF Has
      <4>2. QED
        BY <4>1 DEF Settled
    <3>8. QED
      BY <3>2, <3>5, <3>6, <3>7
  <2>4. QED
    BY <2>1, <2>2, <2>3, MoveTableEffect
<1>3. QED
  BY <1>1, <1>2

LEMMA MoveTpcdsCarries ==
    ASSUME NEW b \in Databases, NEW c \in MoveCustomer(b),
           NEW d \in MoveTable(c, "store_sales", "tpcds")
    PROVE  d \in Databases /\ Carried(b, d)
<1> USE DEF Schemas, Tables, Benchmarks
<1>1. /\ c \in Databases
      /\ c["public"]["customer"].of # "tpcds"
      /\ b["public"]["customer"].of = "tpcds"
            => c["tpcds"]["customer"] = b["public"]["customer"]
      /\ \A s \in Schemas : c[s]["store_sales"] = b[s]["store_sales"]
      /\ Settled(b) => c = b
  BY CustomerCarried
<1>2. CASE d = c /\ (TableSchema(c, "store_sales") = {} \/ "tpcds" \in TableSchema(c, "store_sales"))
  <2>1. ~Has(c, "public", "store_sales")
    BY <1>2 DEF TableSchema
  <2>2. QED
    BY <1>1, <1>2, <2>1 DEF Carried, Has
<1>3. ASSUME NEW s \in TableSchema(c, "store_sales"), s # "tpcds", ~Has(c, "tpcds", "store_sales"),
             d = Moved(c, "store_sales", s, "tpcds")
      PROVE  Carried(b, d)
  <2>1. s \in Schemas
    BY <1>3 DEF TableSchema
  <2>2. \A r \in Schemas, u \in Tables :
          d[r][u] = IF u = "store_sales" /\ r = s THEN Absent
                    ELSE IF u = "store_sales" /\ r = "tpcds" THEN c[s]["store_sales"] ELSE c[r][u]
    BY <1>1, <1>3, <2>1, MovedEffect
  <2>3. Has(c, "public", "store_sales") => s = "public"
    BY <1>3 DEF TableSchema
  <2>4. ~Settled(b)
    BY <1>1, <1>3 DEF Settled, Has
  <2>5. /\ d["public"]["customer"] = c["public"]["customer"]
        /\ d["tpcds"]["customer"] = c["tpcds"]["customer"]
        /\ d["tpcds"]["store_sales"] = c[s]["store_sales"]
    BY <1>3, <2>1, <2>2
  <2>6. QED
    BY <1>1, <2>3, <2>4, <2>5 DEF Carried, Has
<1>4. QED
  BY <1>1, <1>2, <1>3, MoveTableEffect

LEMMA MoveTpchCarries ==
    ASSUME NEW b \in Databases, NEW c \in Databases, Carried(b, c),
           NEW d \in MoveTable(c, "orders", "tpch")
    PROVE  d \in Databases /\ Carried(b, d)
<1> USE DEF Schemas, Tables, Benchmarks
<1>1. CASE d = c
  BY <1>1
<1>2. ASSUME NEW s \in TableSchema(c, "orders"), s # "tpch", ~Has(c, "tpch", "orders"),
             d = Moved(c, "orders", s, "tpch")
      PROVE  Carried(b, d)
  <2>1. s \in Schemas
    BY <1>2 DEF TableSchema
  <2>2. \A r \in Schemas, u \in Tables : u # "orders" => d[r][u] = c[r][u]
    BY <1>2, <2>1, MovedEffect
  <2>3. ~Settled(b)
    BY <1>2 DEF Carried, Settled
  <2>4. QED
    BY <2>2, <2>3 DEF Carried
<1>3. QED
  BY <1>1, <1>2, MoveTableEffect

----------------------------------------------------------------------------
(* The scripts                                                             *)

\* The shape of the script's record and of the collector's.
Script(s) == s = [name |-> s.name, at |-> s.at, left |-> s.left, before |-> s.before]
Run(r) == r = [repeats |-> r.repeats, resume |-> r.resume, off |-> r.off, path |-> r.path,
               label |-> r.label, summary |-> r.summary]

\* How far the migration that runs has got, held against the database it found.
Migrating ==
    script.name = "migrate" =>
        /\ script.at = "move_tpcds" => db = script.before
        /\ script.at \in {"move_tpch", "restore", "constraints"} => Carried(script.before, db)
        /\ script.at = "constraints" => db["tpch"]["customer"].of = "tpch"

SchemaInv ==
    /\ Script(script)
    /\ SchemaTypeOK
    /\ Migrating

\* What the other steps change of the script.
LEMMA GoesToEffect ==
    ASSUME Script(script), NEW at, GoesTo(at)
    PROVE  script' = [name |-> script.name, at |-> at, left |-> script.left, before |-> script.before]
BY DEF Script, GoesTo

LEMMA NoScriptShape == Script(NoScript) /\ NoScript.name = "none" /\ NoScript.before = Nothing
BY DEF Script, NoScript

LEMMA NothingTyped == Nothing \in Databases /\ \A s \in Schemas, t \in Tables : Nothing[s][t] = Absent
BY AbsentTable DEF Nothing, Databases

\* Steps of scripts that are not a migration, and of no script.
LEMMA OthersKeepSchema ==
    ASSUME SchemaInv, db' \in Databases, csvs' \subseteq Benchmarks,
           schemaFile' \in {"checked_in", "generated"}, scripts' \in 0 .. MaxScripts,
           Script(script'), script'.before \in Databases,
           script'.name = "migrate" =>
              script'.at \notin {"move_tpcds", "move_tpch", "restore", "constraints"}
    PROVE  SchemaInv'
BY DEF SchemaInv, SchemaTypeOK, Migrating, Databases, Script

\* The steps of the setup scripts.
LEMMA SetupKeepsSchema ==
    ASSUME SchemaInv, SetupStep
    PROVE  SchemaInv'
<1> USE DEF Runs
<1>1. /\ Script(script) /\ db \in Databases /\ csvs \subseteq Benchmarks
      /\ schemaFile \in {"checked_in", "generated"} /\ scripts \in 0 .. MaxScripts
      /\ script.before \in Databases /\ MaxScripts \in Nat
  BY SchemaAssumption DEF SchemaInv, SchemaTypeOK, Databases
<1>2. ASSUME Ends, UNCHANGED <<db, schemaFile, scripts>>, csvs' \subseteq Benchmarks PROVE SchemaInv'
  <2>1. Script(script') /\ script'.name = "none" /\ script'.before \in Databases
    BY <1>2, NoScriptShape, NothingTyped DEF Ends
  <2>2. QED
    BY <1>1, <1>2, <2>1, OthersKeepSchema
<1>3. ASSUME NEW at, GoesTo(at), script.name \in Benchmarks, db' \in Databases,
             csvs' \subseteq Benchmarks, schemaFile' \in {"checked_in", "generated"}, scripts' = scripts
      PROVE  SchemaInv'
  <2>1. Script(script') /\ script'.name \in Benchmarks /\ script'.before \in Databases
    BY <1>1, <1>3, GoesToEffect DEF Script
  <2>2. QED
    BY <1>1, <1>3, <2>1, OthersKeepSchema DEF Benchmarks
<1>4. CASE WriteSchemaFile
  BY <1>1, <1>3, <1>4 DEF WriteSchemaFile, Benchmarks
<1>5. ASSUME NEW b \in Benchmarks, StartSetup(b) PROVE SchemaInv'
  <2>1. PICK at : Starts(b, at, TablesOf(b))
    BY <1>5 DEF StartSetup
  <2>2. Script(script') /\ script'.name = b /\ script'.before = db /\ scripts' \in 0 .. MaxScripts
    BY <1>1, <2>1 DEF Starts, Script
  <2>3. QED
    BY <1>1, <1>5, <2>2, OthersKeepSchema DEF StartSetup, Benchmarks
<1>6. ASSUME NEW b \in Benchmarks, Export(b) PROVE SchemaInv'
  BY <1>1, <1>2, <1>3, <1>6 DEF Export
<1>7. ASSUME NEW b \in Benchmarks, ApplySchema(b) PROVE SchemaInv'
  <2>1. Table(b, 0) \in TableValue /\ SchemaOf(b) \in Schemas
    BY DEF Table, TableValue, SchemaOf, Schemas, Benchmarks, Loads
  <2>2. db' \in Databases
    BY <1>1, <1>7, <2>1 DEF ApplySchema, Databases
  <2>3. QED
    BY <1>1, <1>3, <1>7, <2>2 DEF ApplySchema
<1>8. ASSUME NEW b \in Benchmarks, CopyTable(b) PROVE SchemaInv'
  <2> DEFINE t == Head(script.left)
             more == [db[b][t] EXCEPT !.loads = IF @ = 2 THEN 2 ELSE @ + 1]
  <2>1. db' = [db EXCEPT ![b] = [db[b] EXCEPT ![t] = more]] /\ CanCopy(b)
    BY <1>8 DEF CopyTable
  <2>2. db' \in Databases
    <3>1. CASE t \in Tables
      <4>1. db[b][t] \in TableValue /\ db[b][t].of = b
        BY <1>1, <2>1, <3>1 DEF Databases, CanCopy, Schemas, Benchmarks
      <4>2. more \in TableValue
        <5>1. db[b][t] \in [of : {"demo", "tpch", "tpcds"}, loads : 0 .. 2]
          BY <4>1, AbsentTable DEF TableValue, Loads, Benchmarks
        <5>2. PICK l \in 0 .. 2 : db[b][t].loads = l /\ (IF l = 2 THEN 2 ELSE l + 1) \in 0 .. 2
          BY <5>1
        <5>3. more \in [of : {"demo", "tpch", "tpcds"}, loads : 0 .. 2]
          BY <5>1, <5>2
        <5>4. QED
          BY <5>3 DEF TableValue, Loads
      <4>3. QED
        BY <1>1, <2>1, <3>1, <4>2 DEF Databases, Schemas, Benchmarks
    <3>2. CASE t \notin Tables
      <4>1. db' = db
        BY <1>1, <2>1, <3>2 DEF Databases, Schemas, Benchmarks
      <4>2. QED
        BY <1>1, <4>1
    <3>3. QED
      BY <3>1, <3>2
  <2>3. script' = [name |-> script.name, at |-> script.at, left |-> Tail(script.left),
                   before |-> script.before]
    BY <1>1, <1>8 DEF CopyTable, Script
  <2>4. Script(script') /\ script'.name \in Benchmarks /\ script'.before \in Databases
    BY <1>1, <1>8, <2>3 DEF CopyTable, Script
  <2>5. QED
    BY <1>1, <1>8, <2>2, <2>4, OthersKeepSchema DEF CopyTable, Benchmarks
<1>9. ASSUME NEW b \in Benchmarks, CopyFails(b) \/ AnalyzeAll(b) PROVE SchemaInv'
  BY <1>1, <1>2, <1>9 DEF CopyFails, AnalyzeAll
<1>10. QED
  BY <1>4, <1>5, <1>6, <1>7, <1>8, <1>9 DEF SetupStep

LEMMA MigrationKeepsSchema ==
    ASSUME SchemaInv, MigrationStep
    PROVE  SchemaInv'
<1> USE DEF Runs
<1>1. /\ Script(script) /\ db \in Databases /\ csvs \subseteq Benchmarks
      /\ schemaFile \in {"checked_in", "generated"} /\ scripts \in 0 .. MaxScripts
      /\ script.before \in Databases /\ MaxScripts \in Nat
  BY SchemaAssumption DEF SchemaInv, SchemaTypeOK, Databases
<1>2. ASSUME NEW at, GoesTo(at), script.name = "migrate", db' \in Databases,
             UNCHANGED <<csvs, schemaFile, scripts>>,
             /\ at = "move_tpcds" => db' = script.before
             /\ at \in {"move_tpch", "restore", "constraints"} => Carried(script.before, db')
             /\ at = "constraints" => db'["tpch"]["customer"].of = "tpch"
      PROVE  SchemaInv'
  <2>1. /\ Script(script') /\ script'.name = "migrate" /\ script'.at = at
        /\ script'.before = script.before
    BY <1>1, <1>2, GoesToEffect DEF Script
  <2>2. QED
    BY <1>1, <1>2, <2>1 DEF SchemaInv, SchemaTypeOK, Migrating, Databases, Script
<1>3. ASSUME Ends, UNCHANGED <<db, csvs, schemaFile, scripts>> PROVE SchemaInv'
  <2>1. Script(script') /\ script'.name = "none" /\ script'.before \in Databases
    BY <1>3, NoScriptShape, NothingTyped DEF Ends
  <2>2. QED
    BY <1>1, <1>3, <2>1, OthersKeepSchema
<1>4. CASE StartMigration
  <2>1. /\ Script(script') /\ script'.name = "migrate" /\ script'.at = "move_tpcds"
        /\ script'.before = db /\ scripts' \in 0 .. MaxScripts
    BY <1>1, <1>4 DEF StartMigration, Starts, Script
  <2>2. db' = db /\ csvs' = csvs /\ schemaFile' = schemaFile
    BY <1>4 DEF StartMigration
  <2>3. QED
    BY <1>1, <2>1, <2>2 DEF SchemaInv, SchemaTypeOK, Migrating, Databases, Script
<1>5. CASE MoveTpcds
  <2>1. PICK d \in MoveCustomer(db) : db' \in MoveTable(d, "store_sales", "tpcds")
    BY <1>5 DEF MoveTpcds
  <2>2. db' \in Databases /\ Carried(db, db')
    BY <1>1, <2>1, MoveTpcdsCarries
  <2>3. db = script.before
    BY <1>5 DEF MoveTpcds, SchemaInv, Migrating
  <2>4. QED
    BY <1>2, <1>5, <2>2, <2>3 DEF MoveTpcds
<1>6. CASE MoveTpch
  <2>1. Carried(script.before, db)
    BY <1>6 DEF MoveTpch, SchemaInv, Migrating
  <2>2. db' \in Databases /\ Carried(script.before, db')
    BY <1>1, <1>6, <2>1, MoveTpchCarries DEF MoveTpch
  <2>3. QED
    BY <1>2, <1>6, <2>2 DEF MoveTpch
<1>7. CASE RestoreCustomer
  <2>1. Carried(script.before, db) /\ script.name = "migrate"
    BY <1>7 DEF RestoreCustomer, SchemaInv, Migrating
  <2>2. CASE ~NeedCustomer(db) /\ db' = db /\ GoesTo("constraints")
    BY <1>1, <1>2, <1>7, <2>1, <2>2 DEF NeedCustomer, RestoreCustomer
  <2>3. CASE db' = db /\ Ends
    BY <1>3, <1>7, <2>3 DEF RestoreCustomer
  <2>4. CASE /\ NeedCustomer(db) /\ ~Has(db, "tpch", "customer")
             /\ db' = PutIn(db, "tpch", "customer", Table("tpch", 1)) /\ GoesTo("constraints")
    <3>1. Table("tpch", 1) \in TableValue /\ Table("tpch", 1).of = "tpch"
      BY DEF Table, TableValue, Loads
    <3>2. /\ db' \in Databases
          /\ \A r \in Schemas, u \in Tables :
                db'[r][u] = IF r = "tpch" /\ u = "customer" THEN Table("tpch", 1) ELSE db[r][u]
      <4> DEFINE v == Table("tpch", 1)
      <4>1. "tpch" \in Schemas /\ "customer" \in Tables
        BY DEF Schemas, Tables
      <4> HIDE DEF v
      <4>2. /\ PutIn(db, "tpch", "customer", v) \in Databases
            /\ \A r \in Schemas, u \in Tables : PutIn(db, "tpch", "customer", v)[r][u]
                                                 = IF r = "tpch" /\ u = "customer" THEN v ELSE db[r][u]
        BY <1>1, <3>1, <4>1, PutInEffect DEF v
      <4>3. db' = PutIn(db, "tpch", "customer", v)
        BY <2>4 DEF v
      <4>4. QED
        BY <4>2, <4>3 DEF v
    <3>3. db["tpch"]["customer"].of = "none"
      BY <2>4, AbsentTable DEF Has
    <3>4. Carried(script.before, db')
      BY <2>1, <3>2, <3>3 DEF Carried, Schemas, Tables, Benchmarks, Settled
    <3>5. db'["tpch"]["customer"].of = "tpch"
      BY <3>1, <3>2 DEF Schemas, Tables
    <3>6. QED
      BY <1>2, <1>7, <2>1, <2>4, <3>2, <3>4, <3>5 DEF RestoreCustomer
  <2>5. QED
    BY <1>7, <2>2, <2>3, <2>4 DEF RestoreCustomer
<1>8. CASE MoveDies \/ Constraints
  BY <1>3, <1>8 DEF MoveDies, Constraints
<1>9. QED
  BY <1>4, <1>5, <1>6, <1>7, <1>8 DEF MigrationStep

LEMMA SchemaStep ==
    ASSUME SchemaInv, [SchemaNext]_schemaVars
    PROVE  SchemaInv'
<1>1. /\ Script(script) /\ db \in Databases /\ csvs \subseteq Benchmarks
      /\ schemaFile \in {"checked_in", "generated"} /\ scripts \in 0 .. MaxScripts
      /\ script.before \in Databases /\ MaxScripts \in Nat
  BY SchemaAssumption DEF SchemaInv, SchemaTypeOK, Databases
<1>2. CASE LoadDemo
  <2>1. Table("demo", 1) \in TableValue
    BY DEF Table, TableValue, Loads
  <2>2. db' \in Databases
    BY <1>1, <1>2, <2>1, PutInEffect DEF LoadDemo, Schemas, Tables
  <2>3. script' = script /\ script.name = "none" /\ scripts' \in 0 .. MaxScripts
    BY <1>1, <1>2, NoScriptShape DEF LoadDemo
  <2>4. QED
    BY <1>1, <1>2, <2>2, <2>3, OthersKeepSchema DEF LoadDemo
<1>3. CASE Killed
  <2>1. Script(script') /\ script'.name = "none" /\ script'.before \in Databases
    BY <1>3, NoScriptShape, NothingTyped DEF Killed, Ends
  <2>2. QED
    BY <1>1, <1>3, <2>1, OthersKeepSchema DEF Killed
<1>4. CASE UNCHANGED schemaVars
  BY <1>4 DEF schemaVars, SchemaInv, SchemaTypeOK, Migrating, Script
<1>5. QED
  BY <1>2, <1>3, <1>4, SetupKeepsSchema, MigrationKeepsSchema DEF SchemaNext

----------------------------------------------------------------------------
(* The collectors                                                          *)

\* A written file names the join methods that were off, and from the configuration of
\* the session to the write they are those of the variant whose turn it is.
Measuring == {"explain", "open", "write"}

KnobsKept ==
    /\ Run(run)
    /\ DOMAIN files = AllCells
    /\ \A cell \in AllCells : files[cell].status = "written" => files[cell].off = Off(cell.variant)
    /\ script.name \in Corpora /\ script.at \in Measuring => run.off = Off(Current.variant)

CollectionInv == SchemaInv /\ KnobsKept

LEMMA NoRunShape == Run(NoRun)
BY DEF Run, NoRun

\* The scripts of BenchmarkSchemas measure nothing.
LEMMA OthersMeasureNothing ==
    ASSUME Script(script), SchemaNext
    PROVE  script'.at \notin Measuring
<1> USE DEF Measuring
<1>1. ASSUME Ends PROVE script'.at \notin Measuring
  BY <1>1 DEF Ends, NoScript
<1>2. ASSUME NEW at \in {"export", "schema", "load", "move_tpch", "restore", "constraints"}, GoesTo(at)
      PROVE  script'.at \notin Measuring
  BY <1>2, GoesToEffect
<1>3. ASSUME NEW name, NEW at \in {"generate", "schema", "move_tpcds"}, NEW left, Starts(name, at, left)
      PROVE  script'.at \notin Measuring
  BY <1>3 DEF Starts
<1>4. CASE LoadDemo
  BY <1>4 DEF LoadDemo, NoScript
<1>5. CASE WriteSchemaFile
  BY <1>2, <1>5 DEF WriteSchemaFile
<1>6. ASSUME NEW b \in Benchmarks, StartSetup(b) PROVE script'.at \notin Measuring
  BY <1>3, <1>6 DEF StartSetup
<1>7. ASSUME NEW b \in Benchmarks, Export(b) \/ ApplySchema(b) PROVE script'.at \notin Measuring
  BY <1>1, <1>2, <1>7 DEF Export, ApplySchema
<1>8. ASSUME NEW b \in Benchmarks, CopyTable(b) PROVE script'.at \notin Measuring
  BY <1>8 DEF CopyTable, Runs, Script
<1>9. ASSUME NEW b \in Benchmarks, CopyFails(b) \/ AnalyzeAll(b) PROVE script'.at \notin Measuring
  BY <1>1, <1>9 DEF CopyFails, AnalyzeAll
<1>10. CASE StartMigration
  BY <1>3, <1>10 DEF StartMigration
<1>11. CASE MoveTpcds \/ MoveTpch \/ RestoreCustomer
  BY <1>1, <1>2, <1>11 DEF MoveTpcds, MoveTpch, RestoreCustomer
<1>12. CASE MoveDies \/ Constraints \/ Killed
  BY <1>1, <1>12 DEF MoveDies, Constraints, Killed
<1>13. QED
  BY <1>4, <1>5, <1>6, <1>7, <1>8, <1>9, <1>10, <1>11, <1>12
     DEF SchemaNext, SetupStep, MigrationStep

\* A collector changes neither the tables nor the migration.
LEMMA CollectorsKeepSchema ==
    ASSUME SchemaInv, CollectionStep
    PROVE  SchemaInv'
<1>1. /\ Script(script) /\ db \in Databases /\ csvs \subseteq Benchmarks
      /\ schemaFile \in {"checked_in", "generated"} /\ scripts \in 0 .. MaxScripts
      /\ script.before \in Databases /\ MaxScripts \in Nat
  BY SchemaAssumption DEF SchemaInv, SchemaTypeOK, Databases
<1>2. db' = db /\ csvs' = csvs /\ schemaFile' = schemaFile
  BY DEF CollectionStep, StartCollector, Skip, Configure, Explain, ExplainFails, OpenFile,
         WriteFile, Finish
<1>3. ASSUME NEW c \in Corpora, StartCollector(c) PROVE SchemaInv'
  <2>1. Script(script') /\ script'.at = "next" /\ script'.before = db /\ scripts' \in 0 .. MaxScripts
    BY <1>1, <1>3 DEF StartCollector, Starts, Script
  <2>2. QED
    BY <1>1, <1>2, <2>1, OthersKeepSchema
<1>4. ASSUME NEW at \in Measuring, GoesTo(at), scripts' = scripts PROVE SchemaInv'
  <2>1. Script(script') /\ script'.at = at /\ script'.before = script.before
    BY <1>1, <1>4, GoesToEffect DEF Script
  <2>2. QED
    BY <1>1, <1>2, <1>4, <2>1, OthersKeepSchema DEF Measuring
<1>5. ASSUME NextCell, scripts' = scripts PROVE SchemaInv'
  <2>1. script' = [name |-> script.name, at |-> "next", left |-> Tail(script.left),
                   before |-> script.before]
    BY <1>1, <1>5 DEF NextCell, Script
  <2>2. Script(script') /\ script'.at = "next" /\ script'.before = script.before
    BY <2>1 DEF Script
  <2>3. QED
    BY <1>1, <1>2, <1>5, <2>2, OthersKeepSchema
<1>6. CASE Finish
  <2>1. Script(script') /\ script'.name = "none" /\ script'.before \in Databases
    BY <1>6, NoScriptShape, NothingTyped DEF Finish, Ends
  <2>2. QED
    BY <1>1, <1>2, <1>6, <2>1, OthersKeepSchema DEF Finish
<1>7. CASE Skip \/ ExplainFails \/ WriteFile
  BY <1>5, <1>7 DEF Skip, ExplainFails, WriteFile
<1>8. CASE Configure \/ Explain \/ OpenFile
  BY <1>4, <1>8 DEF Configure, Explain, OpenFile, Measuring
<1>9. QED
  BY <1>3, <1>6, <1>7, <1>8 DEF CollectionStep

LEMMA CollectorsKeepKnobs ==
    ASSUME Script(script), KnobsKept, CollectionStep
    PROVE  KnobsKept'
<1> USE DEF Measuring
<1>1. /\ Run(run) /\ DOMAIN files = AllCells
      /\ \A cell \in AllCells : files[cell].status = "written" => files[cell].off = Off(cell.variant)
  BY DEF KnobsKept
<1>2. ASSUME GoesTo("explain") \/ GoesTo("open") \/ GoesTo("write")
      PROVE  Current' = Current /\ script'.name = script.name
  BY <1>2, GoesToEffect DEF Current
<1>3. ASSUME NextCell PROVE script'.at \notin Measuring
  BY <1>3 DEF NextCell, Script
<1>4. ASSUME NEW c \in Corpora, StartCollector(c) PROVE KnobsKept'
  <2>1. script'.at = "next" /\ files' = files
    BY <1>4 DEF StartCollector, Starts
  <2>2. Run(run')
    BY <1>4 DEF StartCollector, Run, NoRun
  <2>3. QED
    BY <1>1, <2>1, <2>2 DEF KnobsKept, AllCells
<1>5. CASE Skip \/ ExplainFails
  <2>1. UNCHANGED <<files, run>> /\ script'.at \notin Measuring
    BY <1>3, <1>5 DEF Skip, ExplainFails
  <2>2. QED
    BY <1>1, <2>1 DEF KnobsKept, Run
<1>6. CASE Configure
  <2>1. /\ files' = files /\ Current' = Current
        /\ run' = [run EXCEPT !.off = Off(Current.variant), !.path = Collector(Current.corpus).path]
    BY <1>2, <1>6 DEF Configure, SessionFor
  <2>2. Run(run') /\ run'.off = Off(Current.variant)
    BY <1>1, <2>1 DEF Run
  <2>3. QED
    BY <1>1, <2>1, <2>2 DEF KnobsKept
<1>7. CASE Explain
  <2>1. /\ files' = files /\ Current' = Current
        /\ script.name \in Corpora /\ script.at = "explain"
    BY <1>2, <1>7 DEF Explain, Collecting
  <2>2. PICK times \in Attempts(run.repeats) :
          run' = [run EXCEPT !.label = LabelOf(times).label, !.summary = LabelOf(times).summary]
    BY <1>7 DEF Explain
  <2>3. Run(run') /\ run'.off = run.off
    BY <1>1, <2>2 DEF Run
  <2>4. QED
    BY <1>1, <2>1, <2>3 DEF KnobsKept
<1>8. CASE OpenFile
  <2>1. /\ files' = [files EXCEPT ![Current] = TornFile] /\ run' = run /\ Current' = Current
        /\ script.name \in Corpora /\ script.at = "open"
    BY <1>2, <1>8 DEF OpenFile, Collecting
  <2>2. TornFile.status = "torn"
    BY DEF TornFile, NoFile
  <2>3. QED
    BY <1>1, <2>1, <2>2 DEF KnobsKept, Run
<1>9. CASE WriteFile
  <2>1. PICK customer : files' = [files EXCEPT ![Current] =
                [status |-> "written", off |-> run.off, customer |-> customer,
                 label |-> run.label, summary |-> run.summary]]
    BY <1>9 DEF WriteFile
  <2>2. run' = run /\ script'.at \notin Measuring /\ run.off = Off(Current.variant)
    BY <1>3, <1>9 DEF WriteFile, Collecting, KnobsKept
  <2>3. QED
    BY <1>1, <2>1, <2>2 DEF KnobsKept, Run
<1>10. CASE Finish
  <2>1. run' = NoRun /\ files' = files /\ script'.at \notin Measuring
    BY <1>10 DEF Finish, Ends, NoScript
  <2>2. QED
    BY <1>1, <2>1, NoRunShape DEF KnobsKept
<1>11. QED
  BY <1>4, <1>5, <1>6, <1>7, <1>8, <1>9, <1>10 DEF CollectionStep

LEMMA CollectionInvStep == CollectionInv /\ [CollectionNext]_collectionVars => CollectionInv'
<1> SUFFICES ASSUME CollectionInv, [CollectionNext]_collectionVars PROVE CollectionInv'
  OBVIOUS
<1>1. SchemaInv /\ Script(script) /\ KnobsKept
  BY DEF CollectionInv, SchemaInv
<1>2. CASE CollectionStep
  BY <1>1, <1>2, CollectorsKeepSchema, CollectorsKeepKnobs DEF CollectionInv
<1>3. CASE OtherScript
  <2>1. SchemaInv'
    BY <1>1, <1>3, SchemaStep DEF OtherScript
  <2>2. run' = NoRun /\ files' = files /\ script'.at \notin Measuring
    BY <1>1, <1>3, OthersMeasureNothing DEF OtherScript
  <2>3. KnobsKept'
    BY <1>1, <2>2, NoRunShape DEF KnobsKept
  <2>4. QED
    BY <2>1, <2>3 DEF CollectionInv
<1>4. CASE UNCHANGED collectionVars
  <2>1. UNCHANGED schemaVars /\ files' = files /\ run' = run /\ script' = script
    BY <1>4 DEF collectionVars, schemaVars
  <2>2. SchemaInv'
    BY <1>1, <2>1, SchemaStep
  <2>3. KnobsKept'
    BY <1>1, <2>1 DEF KnobsKept, Run, Current
  <2>4. QED
    BY <2>2, <2>3 DEF CollectionInv
<1>5. QED
  BY <1>2, <1>3, <1>4 DEF CollectionNext

LEMMA SchemaInitInv == SchemaInit => SchemaInv
<1> SUFFICES ASSUME SchemaInit PROVE SchemaInv
  OBVIOUS
<1>1. Nothing \in Databases /\ Script(script) /\ script.name = "none" /\ script.before = Nothing
  BY NothingTyped, NoScriptShape DEF SchemaInit
<1> DEFINE t(of) == Table(of, 1)
<1>2. \A of \in {"demo", "tpch", "tpcds"} : t(of) \in TableValue
  BY DEF Table, TableValue, Loads
<1>3. \A of \in {"tpch", "tpcds"} : Legacy(of) \in Databases
  <2> SUFFICES ASSUME NEW of \in {"tpch", "tpcds"} PROVE Legacy(of) \in Databases
    OBVIOUS
  <2> DEFINE first == PutIn(Nothing, "public", "customer", t(of))
  <2>1. first \in Databases
    BY <1>1, <1>2, PutInEffect DEF Schemas, Tables
  <2> HIDE DEF first
  <2>2. PutIn(first, "public", "orders", t("tpch")) \in Databases
    BY <1>2, <2>1, PutInEffect DEF Schemas, Tables
  <2>3. QED
    BY <2>2 DEF Legacy, first
<1>4. Collided \in Databases
  BY <1>2, <1>3, PutInEffect DEF Collided, Schemas, Tables
<1>5. Loaded \in Databases
  BY <1>1, <1>2 DEF Loaded, Databases, Schemas, Tables
<1>6. db \in Databases
  BY <1>1, <1>3, <1>4, <1>5 DEF SchemaInit
<1>7. csvs \subseteq Benchmarks /\ scripts \in 0 .. MaxScripts /\ schemaFile \in {"checked_in", "generated"}
  BY SchemaAssumption DEF SchemaInit
<1>8. QED
  BY <1>1, <1>6, <1>7 DEF SchemaInv, SchemaTypeOK, Migrating, Databases

LEMMA CollectionInitInv == CollectionInit => CollectionInv
<1> SUFFICES ASSUME CollectionInit PROVE CollectionInv
  OBVIOUS
<1>1. SchemaInv /\ script = NoScript
  BY SchemaInitInv DEF CollectionInit, SchemaInit
<1>2. files = [cell \in AllCells |-> NoFile] /\ run = NoRun
  BY DEF CollectionInit
<1>3. NoFile.status = "none" /\ NoScript.at = "idle"
  BY DEF NoFile, NoScript
<1>4. KnobsKept
  BY <1>1, <1>2, <1>3, NoRunShape DEF KnobsKept, Measuring
<1>5. QED
  BY <1>1, <1>4 DEF CollectionInv

LEMMA CollectionAlways == CollectionSpec => []CollectionInv
BY CollectionInitInv, CollectionInvStep, PTL DEF CollectionSpec

----------------------------------------------------------------------------
(* What the scripts promise                                                *)

\* Every database a script finds or leaves holds tables of the benchmarks, and every
\* script that runs knows the one it has found.
THEOREM SchemaTypes == CollectionSpec => []SchemaTypeOK
<1>1. CollectionInv => SchemaTypeOK
  BY DEF CollectionInv, SchemaInv
<1>2. QED
  BY CollectionAlways, <1>1, PTL

\* A migration that reaches its constraints has restored TPC-H's customer table and
\* moved TPC-DS's with its data, whatever layout the setups, the demo, the killed scripts
\* and the migrations before it have left, in any number and order.
THEOREM MigrationsRestore == CollectionSpec => []MigrationRestores
<1>1. CollectionInv => MigrationRestores
  BY DEF CollectionInv, SchemaInv, Migrating, Carried, MigrationRestores, Runs
<1>2. QED
  BY CollectionAlways, <1>1, PTL

\* The knob columns of a plan's row are those of the session it was measured in,
\* whichever collectors were killed and resumed and in whatever session they ran.
THEOREM RowsTruthful == CollectionSpec => []RowsTellTheKnobs
<1>1. CollectionInv => RowsTellTheKnobs
  <2> SUFFICES ASSUME CollectionInv, NEW cell \in AllCells, files[cell].status = "written"
               PROVE  KnobState(cell.variant) =
                        [enable_hashjoin  |-> IF "no_hashjoin" \in files[cell].off THEN 0 ELSE 1,
                         enable_mergejoin |-> IF "no_mergejoin" \in files[cell].off THEN 0 ELSE 1,
                         enable_nestloop  |-> IF "no_nestloop" \in files[cell].off THEN 0 ELSE 1]
    BY DEF RowsTellTheKnobs
  <2>1. files[cell].off = Off(cell.variant)
    BY DEF CollectionInv, KnobsKept
  <2>2. QED
    BY <2>1 DEF KnobState, Off
<1>2. QED
  BY CollectionAlways, <1>1, PTL

\* A query the gate calls usable has plans of two variants.
LEMMA UsableHasTwo ==
    ASSUME Trusted, NEW q \in Expected
    PROVE  \E a, b \in Collected :
              a.query = q /\ b.query = q /\ a.variant # b.variant
<1> DEFINE plans == {cell \in Collected : cell.query = q}
<1>1. ~(Cardinality(plans) < 2)
  BY DEF Trusted, Unusable
<1>2. plans # {}
  BY <1>1, FS_EmptySet
<1>3. PICK a \in plans : TRUE
  BY <1>2
<1>4. plans # {a}
  <2> HIDE DEF plans
  <2>1. SUFFICES ASSUME plans = {a} PROVE FALSE
    OBVIOUS
  <2>2. Cardinality(plans) = 1
    BY <2>1, FS_Singleton
  <2>3. QED
    BY <1>1, <2>2
<1>5. PICK b \in plans : b # a
  BY <1>3, <1>4
<1>6. a.variant # b.variant
  BY <1>3, <1>5 DEF Collected, Gated, CellSet, Cell
<1>7. QED
  BY <1>3, <1>5, <1>6

\* The verdict of validate_dataset.py is right about the choice: in a corpus it trusts
\* each query has plans of sessions that differ, for every workload and tolerance.
THEOREM TrustedChoices == CollectionSpec => []TrustedOffersChoice
<1>1. CollectionInv => TrustedOffersChoice
  <2> SUFFICES ASSUME CollectionInv, Trusted
               PROVE  /\ \A cell \in Gated : files[cell].status # "torn"
                      /\ \A q \in Expected : \E a, b \in Collected :
                            a.query = q /\ b.query = q /\ files[a].off # files[b].off
    BY DEF TrustedOffersChoice
  <2>1. \A cell \in Gated : files[cell].status # "torn"
    BY DEF Trusted, Corrupt
  <2>2. ASSUME NEW q \in Expected
        PROVE  \E a, b \in Collected : a.query = q /\ b.query = q /\ files[a].off # files[b].off
    <3>1. PICK a, b \in Collected : a.query = q /\ b.query = q /\ a.variant # b.variant
      BY UsableHasTwo
    <3>2. \A cell \in Collected : cell \in AllCells /\ files[cell].off = Off(cell.variant)
      <4>1. "param" \in Corpora
        BY GateAssumption
      <4>2. Gated \subseteq AllCells
        BY <4>1 DEF Gated, AllCells
      <4>3. QED
        BY <4>2 DEF Collected, CollectionInv, KnobsKept
    <3>3. Off(a.variant) # Off(b.variant)
      BY <3>1 DEF Off
    <3>4. QED
      BY <3>1, <3>2, <3>3
  <2>3. QED
    BY <2>1, <2>2
<1>2. QED
  BY CollectionAlways, <1>1, PTL

----------------------------------------------------------------------------
(* The regret of the picks is a number                                     *)

\* The recursion by which FoldFunction adds up the values of c.
Sums(c, h) ==
    h = [s \in SUBSET DOMAIN c |->
            IF s = {} THEN 0 ELSE LET x == CHOOSE x \in s : TRUE IN c[x] + h[s \ {x}]]

\* Naturals have a sum: the number of members of the parts of that many members each,
\* which solves the recursion; and a solution is a natural number at every set, or it
\* would not be one at a smallest set.
LEMMA SumIsNatural ==
    ASSUME NEW D, IsFiniteSet(D), NEW c \in [D -> Nat]
    PROVE  FoldFunction(+, 0, c) \in Nat
<1> DEFINE Part(s) == UNION {{<<a, n>> : n \in 1 .. c[a]} : a \in s}
           one(a) == {<<a, n>> : n \in 1 .. c[a]}
           h == [s \in SUBSET D |-> Cardinality(Part(s))]
<1>1. ASSUME NEW a \in D PROVE IsFiniteSet(one(a)) /\ Cardinality(one(a)) = c[a]
  <2> DEFINE pair == [n \in 1 .. c[a] |-> <<a, n>>]
  <2>1. pair \in Bijection(1 .. c[a], one(a))
    <3>1. pair \in [1 .. c[a] -> one(a)]
      OBVIOUS
    <3>2. \A m, n \in 1 .. c[a] : pair[m] = pair[n] => m = n
      OBVIOUS
    <3>3. \A p \in one(a) : \E n \in 1 .. c[a] : pair[n] = p
      OBVIOUS
    <3>4. QED
      BY <3>1, <3>2, <3>3 DEF Bijection, Injection, Surjection, IsInjective
  <2>2. IsFiniteSet(1 .. c[a]) /\ Cardinality(1 .. c[a]) = c[a]
    <3>1. c[a] \in Nat
      OBVIOUS
    <3>2. Cardinality(1 .. c[a]) = IF 1 > c[a] THEN 0 ELSE c[a] - 1 + 1
      BY <3>1, FS_Interval
    <3>3. QED
      BY <3>1, <3>2, FS_Interval
  <2> HIDE DEF pair, one
  <2>3. QED
    BY <2>1, <2>2, FS_Bijection DEF ExistsBijection
<1>2. ASSUME NEW s \in SUBSET D PROVE IsFiniteSet(Part(s))
  <2> DEFINE parts == [a \in s |-> one(a)]
             family == {one(a) : a \in s}
  <2>1. parts \in Surjection(s, family)
    <3>1. parts \in [s -> family]
      OBVIOUS
    <3>2. \A p \in family : \E a \in s : parts[a] = p
      OBVIOUS
    <3>3. QED
      BY <3>1, <3>2 DEF Surjection
  <2>2. IsFiniteSet(s)
    BY FS_Subset
  <2>3. IsFiniteSet(family)
    <3> HIDE DEF parts, family
    <3>1. QED
      BY <2>1, <2>2, FS_Surjection
  <2>4. \A p \in family : IsFiniteSet(p)
    BY <1>1
  <2>5. Part(s) = UNION family
    OBVIOUS
  <2> HIDE DEF family
  <2>6. QED
    BY <2>3, <2>4, <2>5, FS_UNION
<1>3. ASSUME NEW s \in SUBSET D, NEW x \in s PROVE h[s] = c[x] + h[s \ {x}]
  <2> DEFINE rest == Part(s \ {x})
             this == one(x)
  <2>1. /\ IsFiniteSet(this) /\ Cardinality(this) = c[x] /\ c[x] \in Nat
        /\ IsFiniteSet(rest) /\ h[s \ {x}] = Cardinality(rest)
    BY <1>1, <1>2
  <2>2. Part(s) = this \cup rest
    OBVIOUS
  <2>3. this \cap rest = {}
    OBVIOUS
  <2>4. h[s] = Cardinality(this \cup rest)
    BY <2>2
  <2> HIDE DEF rest, this, h
  <2>5. Cardinality(this \cup rest) = Cardinality(this) + Cardinality(rest) - Cardinality(this \cap rest)
    BY <2>1, FS_Union
  <2>6. Cardinality(this \cap rest) = 0 /\ Cardinality(rest) \in Nat
    BY <2>1, <2>3, FS_EmptySet, FS_CardinalityType
  <2>7. QED
    BY <2>1, <2>4, <2>5, <2>6
<1>4. Sums(c, h)
  <2>1. h[{}] = 0
    <3>1. Part({}) = {}
      OBVIOUS
    <3>2. QED
      BY <3>1, FS_EmptySet
  <2>2. h = [s \in SUBSET D |-> h[s]]
    OBVIOUS
  <2> HIDE DEF h
  <2>3. \A s \in SUBSET D :
            h[s] = IF s = {} THEN 0 ELSE LET x == CHOOSE x \in s : TRUE IN c[x] + h[s \ {x}]
    BY <1>3, <2>1
  <2>4. QED
    BY <2>2, <2>3 DEF Sums
<1> DEFINE i == CHOOSE f : Sums(c, f)
           bad == {s \in SUBSET D : i[s] \notin Nat}
<1>5. Sums(c, i)
  BY <1>4
<1>6. FoldFunction(+, 0, c) = i[D]
  BY DEF FoldFunction, FoldFunctionOnSet, MapThenFoldSet, Sums
<1> HIDE DEF i
<1>7. CASE bad = {}
  BY <1>6, <1>7
<1>8. CASE bad # {}
  <2>1. bad \subseteq FiniteSubsetsOf(D)
    BY FS_Subset DEF FiniteSubsetsOf
  <2>2. PICK s \in bad : \A t \in bad : <<t, s>> \notin StrictSubsetOrdering(D)
    <3> HIDE DEF bad
    <3>1. QED
      BY <1>8, <2>1, FS_StrictSubsetOrderingWellFounded, WFMin
  <2>3. s # {} /\ s \subseteq D
    BY <1>5 DEF Sums
  <2> DEFINE x == CHOOSE x \in s : TRUE
  <2>4. x \in s
    BY <2>3
  <2>5. i[s] = c[x] + i[s \ {x}]
    BY <1>5, <2>3 DEF Sums
  <2>6. i[s \ {x}] \in Nat
    <3>1. <<s \ {x}, s>> \in StrictSubsetOrdering(D)
      BY <2>3, <2>4 DEF StrictSubsetOrdering
    <3>2. QED
      BY <2>2, <2>3, <3>1
  <2>7. c[x] \in Nat
    BY <2>3, <2>4
  <2>8. i[s] \notin Nat
    BY <2>2
  <2> DEFINE a == c[x]
             b == i[s \ {x}]
  <2>9. a \in Nat /\ b \in Nat /\ i[s] = a + b
    BY <2>5, <2>6, <2>7
  <2> HIDE DEF x, bad, a, b
  <2>10. a + b \in Nat
    BY <2>9
  <2>11. QED
    BY <2>8, <2>9, <2>10
<1>9. QED
  BY <1>7, <1>8

----------------------------------------------------------------------------
(* The picks                                                               *)

\* i is the first of the least of f on S.
FirstLeast(f, S, i) == i \in S /\ \A j \in S : f[i] < f[j] \/ (f[i] = f[j] /\ i <= j)

\* A set of natural numbers that is not empty has a least member.
LEMMA LeastOf ==
    ASSUME NEW S \in SUBSET Nat, S # {}
    PROVE  \E i \in S : \A j \in S : i <= j
<1> DEFINE less == OpToRel(<, Nat)
<1>1. \A i, j \in Nat : <<j, i>> \notin less => i <= j
  BY DEF OpToRel
<1>2. \E i \in S : \A j \in S : <<j, i>> \notin less
  <2>1. IsWellFoundedOn(less, Nat)
    BY NatLessThanWellFounded
  <2> HIDE DEF less
  <2>2. QED
    BY <2>1, WFMin
<1>3. QED
  BY <1>1, <1>2

LEMMA IdxMinIsFirst ==
    ASSUME NEW S \in SUBSET Nat, S # {}, NEW f, \A i \in S : f[i] \in Nat
    PROVE  /\ FirstLeast(f, S, IdxMin(f, S))
           /\ \A i : FirstLeast(f, S, i) => i = IdxMin(f, S)
<1>1. PICK m \in {f[i] : i \in S} : \A v \in {f[i] : i \in S} : m <= v
  <2> DEFINE V == {f[i] : i \in S}
  <2>1. V \in SUBSET Nat /\ V # {}
    OBVIOUS
  <2> HIDE DEF V
  <2>2. \E m \in V : \A v \in V : m <= v
    BY <2>1, LeastOf
  <2>3. QED
    BY <2>2 DEF V
<1>2. PICK k \in {i \in S : f[i] = m} : \A j \in {i \in S : f[i] = m} : k <= j
  <2> DEFINE T == {i \in S : f[i] = m}
  <2>1. T \in SUBSET Nat /\ T # {}
    OBVIOUS
  <2> HIDE DEF T
  <2>2. \E k \in T : \A j \in T : k <= j
    BY <2>1, LeastOf
  <2>3. QED
    BY <2>2 DEF T
<1>3. FirstLeast(f, S, k)
  BY <1>1, <1>2 DEF FirstLeast
<1>4. FirstLeast(f, S, IdxMin(f, S))
  BY <1>3 DEF FirstLeast, IdxMin
<1>5. ASSUME NEW i, FirstLeast(f, S, i) PROVE i = IdxMin(f, S)
  <2> DEFINE n == IdxMin(f, S)
  <2>1. FirstLeast(f, S, n)
    BY <1>4
  <2> HIDE DEF n
  <2>2. i = n
    <3>1. i \in S /\ n \in S /\ f[i] \in Nat /\ f[n] \in Nat
      BY <1>5, <2>1 DEF FirstLeast
    <3>2. /\ f[i] < f[n] \/ (f[i] = f[n] /\ i <= n)
          /\ f[n] < f[i] \/ (f[n] = f[i] /\ n <= i)
      BY <1>5, <2>1, <3>1 DEF FirstLeast
    <3>3. QED
      BY <3>1, <3>2
  <2>3. QED
    BY <2>2 DEF n
<1>6. QED
  BY <1>4, <1>5

\* Two predictions that order the rows of a query alike pick the same row.
LEMMA SamePick ==
    ASSUME NEW S \in SUBSET Nat, S # {}, NEW f, NEW g,
           \A i \in S : f[i] \in Nat /\ g[i] \in Nat,
           \A i, j \in S : (f[i] < f[j] <=> g[i] < g[j])
    PROVE  IdxMin(f, S) = IdxMin(g, S)
<1> DEFINE k == IdxMin(f, S)
<1>1. FirstLeast(f, S, k)
  BY IdxMinIsFirst
<1> HIDE DEF k
<1>2. FirstLeast(g, S, k)
  BY <1>1 DEF FirstLeast
<1>3. k = IdxMin(g, S)
  BY <1>2, IdxMinIsFirst
<1>4. QED
  BY <1>3 DEF k

Best(rows, q)       == IdxMin([i \in DOMAIN rows |-> rows[i].time], Members(rows, q))
Pick(rows, pred, q) == IdxMin(pred, Members(rows, q))

LEMMA GroupsFinite ==
    ASSUME NEW rows \in Datasets
    PROVE  IsFiniteSet(Groups(rows))
<1> DEFINE queries == {rows[i].query : i \in DOMAIN rows}
           query == [i \in DOMAIN rows |-> rows[i].query]
<1>1. query \in Surjection(DOMAIN rows, queries)
  <2>1. query \in [DOMAIN rows -> queries]
    OBVIOUS
  <2>2. \A q \in queries : \E i \in DOMAIN rows : query[i] = q
    OBVIOUS
  <2>3. QED
    BY <2>1, <2>2 DEF Surjection
<1>2. IsFiniteSet(DOMAIN rows)
  BY ModelGateAssumption
<1>3. IsFiniteSet(queries)
  <2> HIDE DEF queries, query
  <2>1. QED
    BY <1>1, <1>2, FS_Surjection
<1>4. Groups(rows) \subseteq queries
  BY DEF Groups, Queries
<1> HIDE DEF queries
<1>5. QED
  BY <1>3, <1>4, FS_Subset

LEMMA PicksAreRows ==
    ASSUME NEW rows \in Datasets, NEW pred, \A i \in DOMAIN rows : pred[i] \in Nat,
           NEW q \in Groups(rows)
    PROVE  /\ Members(rows, q) \subseteq Nat /\ Members(rows, q) # {}
           /\ Pick(rows, pred, q) \in Members(rows, q)
           /\ Best(rows, q) \in Members(rows, q)
           /\ rows[Best(rows, q)].time <= rows[Pick(rows, pred, q)].time
<1> DEFINE M == Members(rows, q)
           time == [i \in DOMAIN rows |-> rows[i].time]
<1>1. M \subseteq Nat /\ M \subseteq DOMAIN rows /\ \A i \in M : time[i] \in Nat /\ pred[i] \in Nat
  BY ModelGateAssumption DEF Members
<1>2. M # {}
  <2>1. ~(Cardinality(M) = 0)
    BY DEF Groups
  <2> HIDE DEF M
  <2>2. QED
    BY <2>1, FS_EmptySet
<1>3. Best(rows, q) = IdxMin(time, M) /\ Pick(rows, pred, q) = IdxMin(pred, M)
  BY DEF Best, Pick
<1>4. FirstLeast(time, M, Best(rows, q)) /\ FirstLeast(pred, M, Pick(rows, pred, q))
  <2> HIDE DEF M, time
  <2>1. QED
    BY <1>1, <1>2, <1>3, IdxMinIsFirst
<1>5. Best(rows, q) \in M /\ Pick(rows, pred, q) \in M
  BY <1>4 DEF FirstLeast
<1>6. time[Best(rows, q)] <= time[Pick(rows, pred, q)]
  <2> HIDE DEF M, time
  <2>1. time[Best(rows, q)] \in Nat /\ time[Pick(rows, pred, q)] \in Nat
    BY <1>1, <1>5
  <2>2. QED
    BY <1>4, <1>5, <2>1 DEF FirstLeast
<1>7. QED
  BY <1>1, <1>2, <1>5, <1>6

\* The groups whose pick runs the variant of the fastest row.
Hits(rows, pred) == {q \in Groups(rows) : Hit(rows, Best(rows, q), Pick(rows, pred, q))}

LEMMA Evaluated ==
    ASSUME NEW rows \in Datasets, NEW pred, \A i \in DOMAIN rows : pred[i] \in Nat
    PROVE  LET m == EvaluatePlanPick(rows, pred)
           IN  /\ m = [groups |-> Groups(rows), hits |-> Hits(rows, pred), regret |-> m.regret]
               /\ m.regret \in Nat
<1> DEFINE time == [i \in DOMAIN rows |-> rows[i].time]
           best == [q \in Groups(rows) |-> IdxMin(time, Members(rows, q))]
           pick == [q \in Groups(rows) |-> IdxMin(pred, Members(rows, q))]
           loss == [q \in Groups(rows) |-> time[pick[q]] - time[best[q]]]
           m == EvaluatePlanPick(rows, pred)
<1>1. \A q \in Groups(rows) : best[q] = Best(rows, q) /\ pick[q] = Pick(rows, pred, q)
  BY DEF Best, Pick
<1>2. m = [groups |-> Groups(rows),
           hits   |-> {q \in Groups(rows) : Hit(rows, best[q], pick[q])},
           regret |-> FoldFunction(+, 0, loss)]
  BY DEF EvaluatePlanPick
<1>3. loss \in [Groups(rows) -> Nat]
  <2> SUFFICES ASSUME NEW q \in Groups(rows) PROVE time[pick[q]] - time[best[q]] \in Nat
    OBVIOUS
  <2>1. /\ best[q] \in Members(rows, q) /\ pick[q] \in Members(rows, q)
        /\ rows[best[q]].time <= rows[pick[q]].time
    BY <1>1, PicksAreRows
  <2> HIDE DEF best, pick
  <2>2. best[q] \in DOMAIN rows /\ pick[q] \in DOMAIN rows
    BY <2>1 DEF Members
  <2>3. rows[best[q]].time \in Nat /\ rows[pick[q]].time \in Nat
    BY <2>2, ModelGateAssumption
  <2>4. QED
    BY <2>1, <2>2, <2>3
<1>4. FoldFunction(+, 0, loss) \in Nat
  <2> HIDE DEF loss
  <2>1. QED
    BY <1>3, GroupsFinite, SumIsNatural
<1>5. {q \in Groups(rows) : Hit(rows, best[q], pick[q])} = Hits(rows, pred)
  BY <1>1 DEF Hits
<1> HIDE DEF time, best, pick, loss, m
<1>6. m = [groups |-> Groups(rows), hits |-> Hits(rows, pred), regret |-> FoldFunction(+, 0, loss)]
  BY <1>2, <1>5
<1> DEFINE total == FoldFunction(+, 0, loss)
<1>7. total \in Nat /\ m = [groups |-> Groups(rows), hits |-> Hits(rows, pred), regret |-> total]
  BY <1>4, <1>6
<1> HIDE DEF total
<1>8. m.regret = total
  BY <1>7
<1>9. QED
  BY <1>7, <1>8 DEF m

\* What the gate and the trainer see of a model with these raw predictions.
Model(rows, raw) ==
    [cv |-> RunCV(rows, raw), gate |-> EvaluateModel(rows, raw), kept |-> ClipKeeps(rows, raw)]

LEMMA ClipNatural == \A p \in Nat : Clip(p) \in Nat
BY ModelGateAssumption DEF Clip

\* Clipping keeps the order of two predictions that it does not merge.
LEMMA ClipKeepsOrder ==
    ASSUME NEW a \in Nat, NEW b \in Nat, Clip(a) = Clip(b) => a = b
    PROVE  Clip(a) < Clip(b) <=> a < b
<1>1. Floor \in Nat /\ Ceiling \in Nat /\ Floor <= Ceiling
  BY ModelGateAssumption
<1>2. QED
  BY <1>1 DEF Clip

\* Rounding to the nearest.
LEMMA RoundedNear ==
    ASSUME NEW n \in Nat, NEW d \in Nat \ {0}
    PROVE  /\ Rounded(n, d) \in Nat
           /\ 2 * n <= 2 * (Rounded(n, d) * d) + d
           /\ 2 * (Rounded(n, d) * d) <= 2 * n + d
<1> DEFINE q == n \div d
           r == n % d
<1>1. q \in Nat /\ r \in Nat /\ r < d /\ n = q * d + r
  OBVIOUS
<1>2. Rounded(n, d) = IF 2 * r > d \/ (2 * r = d /\ q % 2 = 1) THEN q + 1 ELSE q
  BY DEF Rounded
<1> HIDE DEF q, r
<1>3. CASE Rounded(n, d) = q + 1 /\ 2 * r >= d
  <2>1. (q + 1) * d = q * d + d
    BY <1>1
  <2>2. QED
    BY <1>1, <1>3, <2>1
<1>4. CASE Rounded(n, d) = q /\ 2 * r <= d
  BY <1>1, <1>4
<1>5. QED
  BY <1>1, <1>2, <1>3, <1>4

\* Of two numbers of hits the greater has no smaller accuracy, and an accuracy that is
\* not greater for one more is one that rounding has brought down.
LEMMA AccuracyRounded ==
    ASSUME NEW g \in Nat \ {0}, NEW a \in Nat, NEW b \in Nat
    PROVE  /\ Rounded(10000 * a, g) \in Nat
           /\ a <= g => Rounded(10000 * a, g) <= 10000
           /\ a >= b => Rounded(10000 * a, g) >= Rounded(10000 * b, g)
           /\ Rounded(10000 * a, g) >= Rounded(10000 * b, g) => 10000 * (b - a) <= g
<1> DEFINE A == Rounded(10000 * a, g)
           B == Rounded(10000 * b, g)
<1>1. /\ A \in Nat /\ 20000 * a <= 2 * (A * g) + g /\ 2 * (A * g) <= 20000 * a + g
      /\ B \in Nat /\ 20000 * b <= 2 * (B * g) + g /\ 2 * (B * g) <= 20000 * b + g
  <2>1. 10000 * a \in Nat /\ 10000 * b \in Nat
    OBVIOUS
  <2>2. /\ A \in Nat /\ 2 * (10000 * a) <= 2 * (A * g) + g /\ 2 * (A * g) <= 2 * (10000 * a) + g
        /\ B \in Nat /\ 2 * (10000 * b) <= 2 * (B * g) + g /\ 2 * (B * g) <= 2 * (10000 * b) + g
    <3>1. ASSUME NEW n \in Nat
          PROVE  /\ Rounded(n, g) \in Nat
                 /\ 2 * n <= 2 * (Rounded(n, g) * g) + g
                 /\ 2 * (Rounded(n, g) * g) <= 2 * n + g
      BY RoundedNear
    <3>2. QED
      BY <2>1, <3>1
  <2> HIDE DEF A, B
  <2>3. QED
    BY <2>2
<1>2. a = b => A = B
  OBVIOUS
<1> HIDE DEF A, B
<1>3. ASSUME a <= g PROVE A <= 10000
  <2>1. SUFFICES ASSUME A >= 10001 PROVE FALSE
    BY <1>1
  <2>2. A * g >= 10001 * g
    BY <1>1, <2>1
  <2>3. QED
    BY <1>1, <1>3, <2>2
<1>4. ASSUME a >= b PROVE A >= B
  <2>1. SUFFICES ASSUME a > b, B >= A + 1 PROVE FALSE
    BY <1>1, <1>2, <1>4
  <2>2. B * g >= (A + 1) * g
    BY <1>1, <2>1
  <2>3. (A + 1) * g = A * g + g
    BY <1>1
  <2>4. A * g \in Nat /\ B * g \in Nat
    BY <1>1
  <2>5. QED
    BY <1>1, <2>1, <2>2, <2>3, <2>4
<1>5. ASSUME A >= B PROVE 10000 * (b - a) <= g
  <2>1. A * g >= B * g
    BY <1>1, <1>5
  <2>2. A * g \in Nat /\ B * g \in Nat
    BY <1>1
  <2>3. 20000 * b <= 20000 * a + 2 * g
    BY <1>1, <2>1, <2>2
  <2>4. QED
    BY <2>3
<1>6. QED
  BY <1>1, <1>3, <1>4, <1>5 DEF A, B

\* The groups of a training set that is evaluated, and a model's accuracy on them.
Accuracy(rows, pred) == Rounded(10000 * Cardinality(Hits(rows, pred)), Cardinality(Groups(rows)))

LEMMA SomeGroup ==
    ASSUME NEW rows \in Datasets, Evaluable(rows)
    PROVE  Cardinality(Groups(rows)) \in Nat \ {0}
BY GroupsFinite, FS_CardinalityType, FS_EmptySet DEF Evaluable

LEMMA ModelEffect ==
    ASSUME NEW rows \in Datasets, Evaluable(rows), NEW raw \in [DOMAIN rows -> Raw]
    PROVE  LET m == Model(rows, raw)
           IN  /\ m.gate.hits = Hits(rows, raw)
               /\ m.gate.planPick = Accuracy(rows, raw)
               /\ m.gate.regretMean \in Nat
               /\ m.gate = [hits |-> m.gate.hits, planPick |-> m.gate.planPick,
                            regretMean |-> m.gate.regretMean]
               /\ m.kept => m.cv.hits = m.gate.hits
<1> DEFINE clipped == [i \in DOMAIN raw |-> Clip(raw[i])]
           g == EvaluatePlanPick(rows, raw)
           v == EvaluatePlanPick(rows, clipped)
<1>1. \A i \in DOMAIN rows : raw[i] \in Nat /\ clipped[i] = Clip(raw[i]) /\ clipped[i] \in Nat
  BY ModelGateAssumption, ClipNatural
<1> HIDE DEF clipped
<1>2. g = [groups |-> Groups(rows), hits |-> Hits(rows, raw), regret |-> g.regret] /\ g.regret \in Nat
  BY <1>1, Evaluated
<1>3. v = [groups |-> Groups(rows), hits |-> Hits(rows, clipped), regret |-> v.regret]
  BY <1>1, Evaluated
<1>4. ASSUME ClipKeeps(rows, raw) PROVE Hits(rows, clipped) = Hits(rows, raw)
  <2>1. ASSUME NEW q \in Groups(rows) PROVE Pick(rows, clipped, q) = Pick(rows, raw, q)
    <3> DEFINE M == Members(rows, q)
    <3>1. M \subseteq Nat /\ M # {} /\ M \subseteq DOMAIN rows
      BY <1>1, PicksAreRows DEF Members
    <3>2. \A i \in M : rows[i].query = q
      BY DEF Members
    <3> HIDE DEF M
    <3>3. ASSUME NEW i \in M, NEW j \in M PROVE clipped[i] < clipped[j] <=> raw[i] < raw[j]
      <4>1. /\ i \in DOMAIN rows /\ j \in DOMAIN rows /\ raw[i] \in Nat /\ raw[j] \in Nat
            /\ clipped[i] = Clip(raw[i]) /\ clipped[j] = Clip(raw[j])
        BY <1>1, <3>1
      <4>2. Clip(raw[i]) = Clip(raw[j]) => raw[i] = raw[j]
        BY <1>4, <3>2, <4>1 DEF ClipKeeps
      <4>3. QED
        BY <4>1, <4>2, ClipKeepsOrder
    <3>4. \A i \in M : clipped[i] \in Nat /\ raw[i] \in Nat
      BY <1>1, <3>1
    <3>5. IdxMin(clipped, M) = IdxMin(raw, M)
      BY <3>1, <3>3, <3>4, SamePick
    <3>6. QED
      BY <3>5 DEF Pick, M
  <2>2. QED
    BY <2>1 DEF Hits
<1> DEFINE metrics == [hits       |-> g.hits,
                       planPick   |-> Rounded(10000 * Cardinality(g.hits), Cardinality(g.groups)),
                       regretMean |-> Rounded(g.regret, Tenth * Cardinality(g.groups))]
<1>5. /\ Model(rows, raw).gate = metrics /\ Model(rows, raw).cv = v
      /\ Model(rows, raw).kept = ClipKeeps(rows, raw)
  BY DEF Model, EvaluateModel, RunCV, clipped
<1> HIDE DEF g, v
<1>6. g.groups = Groups(rows) /\ g.hits = Hits(rows, raw) /\ v.hits = Hits(rows, clipped)
  BY <1>2, <1>3
<1>7. Rounded(g.regret, Tenth * Cardinality(g.groups)) \in Nat
  <2> DEFINE n == Cardinality(g.groups)
  <2>1. n \in Nat \ {0} /\ Tenth \in Nat \ {0}
    BY <1>6, SomeGroup, ModelGateAssumption
  <2> HIDE DEF n
  <2>2. Tenth * n \in Nat \ {0}
    BY <2>1
  <2>3. QED
    BY <1>2, <2>2, RoundedNear DEF n
<1>8. metrics.planPick = Accuracy(rows, raw)
  BY <1>6 DEF Accuracy
<1>9. QED
  BY <1>2, <1>4, <1>5, <1>6, <1>7, <1>8

----------------------------------------------------------------------------
(* The gate follows the choices                                            *)

\* A group without a choice is a hit of every model.
LEMMA NoChoiceIsHit ==
    ASSUME NEW rows \in Datasets, NEW pred, \A i \in DOMAIN rows : pred[i] \in Nat,
           NEW q \in Groups(rows) \ WithChoice(rows)
    PROVE  q \in Hits(rows, pred)
<1> DEFINE V == {rows[i].variant : i \in Members(rows, q)}
           M == Members(rows, q)
           variant == [i \in M |-> rows[i].variant]
           a == rows[Best(rows, q)].variant
           b == rows[Pick(rows, pred, q)].variant
<1>1. a \in V /\ b \in V
  BY PicksAreRows
<1>2. IsFiniteSet(V)
  <2>1. IsFiniteSet(M)
    <3>1. M \subseteq DOMAIN rows /\ IsFiniteSet(DOMAIN rows)
      BY ModelGateAssumption DEF Members
    <3> HIDE DEF M
    <3>2. QED
      BY <3>1, FS_Subset
  <2>2. variant \in Surjection(M, V)
    <3>1. variant \in [M -> V]
      OBVIOUS
    <3>2. \A x \in V : \E i \in M : variant[i] = x
      OBVIOUS
    <3>3. QED
      BY <3>1, <3>2 DEF Surjection
  <2> HIDE DEF M, V, variant
  <2>3. QED
    BY <2>1, <2>2, FS_Surjection
<1>3. ~(Cardinality(V) >= 2)
  BY DEF WithChoice
<1>4. a = b
  <2> HIDE DEF V, a, b
  <2>1. SUFFICES ASSUME a # b PROVE FALSE
    OBVIOUS
  <2>2. IsFiniteSet({a}) /\ Cardinality({a}) = 1
    BY FS_Singleton
  <2>3. Cardinality({a} \cup {b}) = 2 /\ IsFiniteSet({a} \cup {b})
    <3>1. /\ IsFiniteSet({a} \cup {b})
          /\ Cardinality({a} \cup {b}) = IF b \in {a} THEN Cardinality({a}) ELSE Cardinality({a}) + 1
      BY ONLY <2>2, FS_AddElement, Zenon
    <3>2. b \notin {a}
      BY ONLY <2>1
    <3>3. Cardinality({a} \cup {b}) = Cardinality({a}) + 1
      BY ONLY <3>1, <3>2
    <3>4. QED
      BY ONLY <2>2, <3>1, <3>3
  <2>4. {a} \cup {b} \in SUBSET V
    BY <1>1
  <2>5. Cardinality({a} \cup {b}) <= Cardinality(V) /\ Cardinality(V) \in Nat
    BY <1>2, <2>4, FS_Subset, FS_CardinalityType
  <2>6. QED
    BY <1>3, <2>3, <2>5
<1>5. QED
  BY <1>4 DEF Hits, Hit

\* So the hits of a model are those where there is a choice and all the other groups.
LEMMA HitsWithChoice ==
    ASSUME NEW rows \in Datasets, NEW pred, \A i \in DOMAIN rows : pred[i] \in Nat
    PROVE  /\ Cardinality(Hits(rows, pred)) \in Nat
           /\ Cardinality(Hits(rows, pred) \cap WithChoice(rows)) \in Nat
           /\ Cardinality(Groups(rows) \ WithChoice(rows)) \in Nat
           /\ Cardinality(Hits(rows, pred))
                = Cardinality(Hits(rows, pred) \cap WithChoice(rows))
                    + Cardinality(Groups(rows) \ WithChoice(rows))
<1> DEFINE H == Hits(rows, pred)
           C == H \cap WithChoice(rows)
           N == Groups(rows) \ WithChoice(rows)
<1>1. H \subseteq Groups(rows) /\ N \subseteq Groups(rows) /\ C \subseteq Groups(rows)
  BY DEF Hits
<1>2. H = C \cup N /\ C \cap N = {}
  <2>1. N \subseteq H
    BY NoChoiceIsHit
  <2>2. QED
    BY <1>1, <2>1
<1> HIDE DEF H, C, N
<1>3. /\ IsFiniteSet(H) /\ IsFiniteSet(C) /\ IsFiniteSet(N)
      /\ Cardinality(H) \in Nat /\ Cardinality(C) \in Nat /\ Cardinality(N) \in Nat
  BY <1>1, GroupsFinite, FS_Subset, FS_CardinalityType
<1>4. Cardinality(C \cup N) = Cardinality(C) + Cardinality(N) - Cardinality(C \cap N)
  BY <1>3, FS_Union
<1>5. Cardinality(C \cap N) = 0
  BY <1>2, FS_EmptySet
<1>6. QED
  BY <1>2, <1>3, <1>4, <1>5 DEF H, C, N

LEMMA GateFollows ==
    ASSUME NEW rows \in Datasets, Evaluable(rows)
    PROVE  Follows(rows)
<1> DEFINE groups == Cardinality(Groups(rows))
           Chosen(f) == Cardinality(Hits(rows, f) \cap WithChoice(rows))
<1> SUFFICES ASSUME NEW c \in Models(rows), NEW i \in Models(rows)
             PROVE  /\ Decide(c.gate, i.gate, TRUE) => PicksAsWell(rows, c.gate.hits, i.gate.hits)
                    /\ c.kept /\ i.kept /\ Selects(c.cv, i.cv) => PlanPickGain(c.gate, i.gate)
                    /\ Decide(c.gate, NoIncumbent(c.gate), TRUE)
  BY DEF Follows
<1>1. PICK f \in [DOMAIN rows -> Raw] : c = Model(rows, f)
  BY DEF Models, Model
<1>2. PICK g \in [DOMAIN rows -> Raw] : i = Model(rows, g)
  BY DEF Models, Model
<1>3. \A k \in DOMAIN rows : f[k] \in Nat /\ g[k] \in Nat
  BY ModelGateAssumption
<1>4. /\ c.gate.hits = Hits(rows, f) /\ c.gate.planPick = Accuracy(rows, f)
      /\ c.gate.regretMean \in Nat
      /\ c.gate = [hits |-> c.gate.hits, planPick |-> c.gate.planPick,
                   regretMean |-> c.gate.regretMean]
      /\ c.kept => c.cv.hits = c.gate.hits
  BY <1>1, ModelEffect
<1>5. /\ i.gate.hits = Hits(rows, g) /\ i.gate.planPick = Accuracy(rows, g)
      /\ i.kept => i.cv.hits = i.gate.hits
  BY <1>2, ModelEffect
<1> DEFINE accF == Accuracy(rows, f)
           accG == Accuracy(rows, g)
           a == Cardinality(Hits(rows, f))
           b == Cardinality(Hits(rows, g))
           rest == Cardinality(Groups(rows) \ WithChoice(rows))
<1>6. /\ a = Chosen(f) + rest /\ b = Chosen(g) + rest
      /\ Chosen(f) \in Nat /\ Chosen(g) \in Nat /\ rest \in Nat /\ a \in Nat /\ b \in Nat
  BY <1>3, HitsWithChoice
<1>7. groups \in Nat \ {0} /\ a <= groups
  <2>1. Hits(rows, f) \subseteq Groups(rows)
    BY DEF Hits
  <2>2. QED
    BY <2>1, SomeGroup, GroupsFinite, FS_Subset DEF groups
<1>8. /\ accF = Rounded(10000 * a, groups) /\ accG = Rounded(10000 * b, groups)
      /\ c.gate.planPick = accF /\ i.gate.planPick = accG
  BY <1>4, <1>5 DEF Accuracy, groups
<1> HIDE DEF a, b, rest, groups, Chosen, accF, accG
<1>9. /\ accF \in Nat /\ accF <= 10000
      /\ a >= b => accF >= accG
      /\ accF >= accG => 10000 * (b - a) <= groups
  <2>1. /\ Rounded(10000 * a, groups) \in Nat
        /\ a <= groups => Rounded(10000 * a, groups) <= 10000
        /\ a >= b => Rounded(10000 * a, groups) >= Rounded(10000 * b, groups)
        /\ Rounded(10000 * a, groups) >= Rounded(10000 * b, groups) => 10000 * (b - a) <= groups
    BY ONLY <1>6, <1>7, AccuracyRounded, SMT
  <2>2. QED
    BY ONLY <1>7, <1>8, <2>1, SMT
<1>10. Decide(c.gate, i.gate, TRUE) => PicksAsWell(rows, c.gate.hits, i.gate.hits)
  <2> HAVE Decide(c.gate, i.gate, TRUE)
  <2>1. accF >= accG
    BY <1>8 DEF Decide, PlanPickGain
  <2>2. b - a = Chosen(g) - Chosen(f)
    BY <1>6
  <2>3. 10000 * (Chosen(g) - Chosen(f)) <= groups
    BY <1>9, <2>1, <2>2
  <2>4. QED
    BY <1>4, <1>5, <2>3 DEF PicksAsWell, Chosen, groups
<1>11. c.kept /\ i.kept /\ Selects(c.cv, i.cv) => PlanPickGain(c.gate, i.gate)
  <2> HAVE c.kept /\ i.kept /\ Selects(c.cv, i.cv)
  <2>1. a >= b
    BY <1>4, <1>5 DEF Selects, a, b
  <2>2. QED
    BY <1>8, <1>9, <2>1 DEF PlanPickGain
<1>12. Decide(c.gate, NoIncumbent(c.gate), TRUE)
  <2> DEFINE none == NoIncumbent(c.gate)
  <2>1. none.planPick = 0 /\ none.regretMean = c.gate.regretMean + Penalty
    BY <1>4 DEF NoIncumbent
  <2> HIDE DEF none
  <2>2. MetricsValid(c.gate) /\ PlanPickGain(c.gate, none)
    <3>1. accF \in 0 .. 10000 /\ accF >= 0
      BY ONLY <1>9
    <3>2. MetricsValid(c.gate)
      BY <1>4, <1>8, <3>1 DEF MetricsValid
    <3>3. PlanPickGain(c.gate, none)
      BY <1>8, <2>1, <3>1 DEF PlanPickGain
    <3>4. QED
      BY <3>2, <3>3
  <2>3. RegretKept(c.gate, none)
    BY <1>4, <2>1, ModelGateAssumption DEF RegretKept
  <2>4. QED
    BY <2>2, <2>3 DEF Decide, none
<1>13. QED
  BY <1>10, <1>11, <1>12

\* For every training set that can be evaluated: a promoted candidate picks as well where
\* there is a choice, but for one query in each 10000 groups, however many rows of one
\* variant the feedback adds; the trainer's winner passes the plan-pick rule against its
\* rivals; and the first model passes.
THEOREM GateFollowsEveryChoice == CollectionSpec => []GateFollowsChoices
<1>1. CollectionInv => GateFollowsChoices
  BY GateFollows DEF GateFollowsChoices, AllFollow
<1>2. QED
  BY CollectionAlways, <1>1, PTL

----------------------------------------------------------------------------
(* The walk over a plan                                                    *)

\* Where a node may be.
Paths == Seq(Nat \ {0})

LEMMA BeforeIrreflexive == \A p \in Paths : ~Before(p, p)
<1> SUFFICES ASSUME NEW p \in Paths, NEW i \in DOMAIN p, i <= Len(p) => p[i] < p[i] PROVE FALSE
  BY DEF Before
<1>1. i <= Len(p) /\ p[i] \in Nat
  BY DEF Paths
<1>2. QED
  BY <1>1

LEMMA BeforeTransitive ==
    ASSUME NEW p \in Paths, NEW q \in Paths, NEW r \in Paths, Before(p, q), Before(q, r)
    PROVE  Before(p, r)
<1>1. PICK i \in DOMAIN q : /\ i <= Len(p) + 1 /\ \A j \in 1 .. i - 1 : p[j] = q[j]
                            /\ i <= Len(p) => p[i] < q[i]
  BY DEF Before
<1>2. PICK k \in DOMAIN r : /\ k <= Len(q) + 1 /\ \A j \in 1 .. k - 1 : q[j] = r[j]
                            /\ k <= Len(q) => q[k] < r[k]
  BY DEF Before
<1>3. /\ Len(p) \in Nat /\ Len(q) \in Nat /\ Len(r) \in Nat
      /\ i \in 1 .. Len(q) /\ k \in 1 .. Len(r) /\ DOMAIN r = 1 .. Len(r)
      /\ \A j \in 1 .. Len(p) : p[j] \in Nat
      /\ \A j \in 1 .. Len(q) : q[j] \in Nat
      /\ \A j \in 1 .. Len(r) : r[j] \in Nat
  BY DEF Paths
<1>4. CASE i <= k
  <2>1. i \in DOMAIN r /\ \A j \in 1 .. i - 1 : p[j] = r[j]
    BY <1>1, <1>2, <1>3, <1>4
  <2>2. ASSUME i <= Len(p) PROVE p[i] < r[i]
    <3>1. p[i] < q[i] /\ q[i] <= r[i] /\ p[i] \in Nat /\ q[i] \in Nat /\ r[i] \in Nat
      <4>1. CASE i < k
        BY <1>1, <1>2, <1>3, <2>1, <2>2, <4>1
      <4>2. CASE i = k
        BY <1>1, <1>2, <1>3, <2>1, <2>2, <4>2
      <4>3. QED
        BY <1>3, <1>4, <4>1, <4>2
    <3>2. QED
      BY <3>1
  <2>3. QED
    BY <1>1, <2>1, <2>2 DEF Before
<1>5. CASE k < i
  <2>1. k <= Len(p) + 1 /\ \A j \in 1 .. k - 1 : p[j] = r[j]
    BY <1>1, <1>2, <1>3, <1>5
  <2>2. p[k] < r[k]
    BY <1>1, <1>2, <1>3, <1>5
  <2>3. QED
    BY <2>1, <2>2 DEF Before
<1>6. QED
  BY <1>3, <1>4, <1>5

LEMMA BeforeTotal ==
    ASSUME NEW p \in Paths, NEW q \in Paths, p # q
    PROVE  Before(p, q) \/ Before(q, p)
<1>1. /\ Len(p) \in Nat /\ DOMAIN p = 1 .. Len(p) /\ Len(q) \in Nat /\ DOMAIN q = 1 .. Len(q)
      /\ \A j \in 1 .. Len(p) : p[j] \in Nat
      /\ \A j \in 1 .. Len(q) : q[j] \in Nat
  BY DEF Paths
<1> DEFINE differ == {i \in 1 .. Len(p) : i <= Len(q) /\ p[i] # q[i]}
<1>2. CASE differ = {}
  <2>1. \A j \in 1 .. Len(p) : j <= Len(q) => p[j] = q[j]
    BY <1>1, <1>2
  <2>2. Len(p) # Len(q)
    <3>1. SUFFICES ASSUME Len(p) = Len(q) PROVE p = q
      OBVIOUS
    <3>2. \A j \in 1 .. Len(p) : p[j] = q[j]
      BY <1>1, <2>1, <3>1
    <3>3. p \in Seq(Nat \ {0}) /\ q \in Seq(Nat \ {0})
      BY DEF Paths
    <3>4. QED
      BY <3>1, <3>2, <3>3, SeqEqual
  <2>3. ASSUME Len(p) < Len(q) PROVE Before(p, q)
    <3>1. Len(p) + 1 \in DOMAIN q /\ ~(Len(p) + 1 <= Len(p))
      BY <1>1, <2>3
    <3>2. \A j \in 1 .. (Len(p) + 1) - 1 : p[j] = q[j]
      BY <1>1, <2>1, <2>3
    <3>3. QED
      BY <1>1, <3>1, <3>2 DEF Before
  <2>4. ASSUME Len(q) < Len(p) PROVE Before(q, p)
    <3>1. Len(q) + 1 \in DOMAIN p /\ ~(Len(q) + 1 <= Len(q))
      BY <1>1, <2>4
    <3>2. \A j \in 1 .. (Len(q) + 1) - 1 : q[j] = p[j]
      BY <1>1, <2>1, <2>4
    <3>3. QED
      BY <1>1, <3>1, <3>2 DEF Before
  <2>5. \A m, n \in Nat : m # n => m < n \/ n < m
    OBVIOUS
  <2>6. QED
    BY <1>1, <2>2, <2>3, <2>4, <2>5
<1>3. CASE differ # {}
  <2>1. differ \in SUBSET Nat
    BY <1>1
  <2>2. PICK i \in differ : \A j \in differ : i <= j
    <3> HIDE DEF differ
    <3>1. QED
      BY <1>3, <2>1, LeastOf
  <2>3. i \in Nat /\ 1 <= i /\ i <= Len(p) /\ i <= Len(q) /\ p[i] # q[i]
    BY <1>1
  <2>4. \A j \in 1 .. i - 1 : p[j] = q[j]
    <3>1. SUFFICES ASSUME NEW j \in 1 .. i - 1, p[j] # q[j] PROVE FALSE
      OBVIOUS
    <3>2. j \in differ
      BY <1>1, <2>3, <3>1
    <3>3. i <= j
      BY <2>2, <3>2
    <3>4. QED
      BY <2>3, <3>3
  <2>5. /\ i \in DOMAIN p /\ i \in DOMAIN q /\ p[i] \in Nat /\ q[i] \in Nat
        /\ i <= Len(p) + 1 /\ i <= Len(q) + 1
    BY <1>1, <2>3
  <2>6. ASSUME p[i] < q[i] PROVE Before(p, q)
    BY <2>4, <2>5, <2>6 DEF Before
  <2>7. ASSUME q[i] < p[i] PROVE Before(q, p)
    BY <2>4, <2>5, <2>7 DEF Before
  <2>8. p[i] < q[i] \/ q[i] < p[i]
    BY <2>3, <2>5
  <2>9. QED
    BY <2>6, <2>7, <2>8
<1>4. QED
  BY <1>2, <1>3

\* A place has fewer places before it than those it is before, and fewer than there are.
LEMMA RankOrder ==
    ASSUME NEW S \in SUBSET Paths, IsFiniteSet(S), NEW p \in S
    PROVE  /\ Rank(S, p) \in 0 .. Cardinality(S) - 1
           /\ \A q \in S : Before(p, q) => Rank(S, p) < Rank(S, q)
<1> DEFINE Below(q) == {x \in S : Before(x, q)}
<1>1. ~Before(p, p)
  BY BeforeIrreflexive
<1>2. ASSUME NEW T \in SUBSET S, Below(p) \subseteq T, p \in T
      PROVE  Rank(S, p) \in Nat /\ Cardinality(T) \in Nat /\ Rank(S, p) < Cardinality(T)
  <2> DEFINE B == Below(p)
  <2>1. Rank(S, p) = Cardinality(B) /\ p \notin B /\ B \subseteq S /\ B \subseteq T
    BY <1>1, <1>2 DEF Rank
  <2> HIDE DEF B
  <2>2. IsFiniteSet(B) /\ IsFiniteSet(T)
    BY <2>1, FS_Subset
  <2>3. Cardinality(B) \in Nat /\ Cardinality(T) \in Nat
    BY <2>2, FS_CardinalityType
  <2>4. Cardinality(B) <= Cardinality(T) /\ Cardinality(T) # Cardinality(B)
    BY <1>2, <2>1, <2>2, FS_Subset
  <2>5. QED
    BY <2>1, <2>3, <2>4
<1>3. Rank(S, p) \in 0 .. Cardinality(S) - 1
  BY <1>2
<1>4. ASSUME NEW q \in S, Before(p, q) PROVE Rank(S, p) < Rank(S, q)
  <2>1. Below(p) \subseteq Below(q) /\ p \in Below(q)
    BY <1>4, BeforeTransitive
  <2>2. Rank(S, p) < Cardinality(Below(q))
    BY <1>2, <2>1
  <2>3. QED
    BY <2>2 DEF Rank
<1>5. QED
  BY <1>3, <1>4

\* Each index has a place, and each place an index.
LEMMA PlaceOfRank ==
    ASSUME NEW S \in SUBSET Paths, IsFiniteSet(S)
    PROVE  /\ Cardinality(S) \in Nat
           /\ \A i \in 1 .. Cardinality(S) : PlaceAt(S, i) \in S /\ Rank(S, PlaceAt(S, i)) = i - 1
           /\ \A p \in S : Rank(S, p) + 1 \in 1 .. Cardinality(S) /\ PlaceAt(S, Rank(S, p) + 1) = p
<1> DEFINE n == Cardinality(S)
           rank == [p \in S |-> Rank(S, p)]
           ranks == 0 .. n - 1
<1>1. n \in Nat
  BY FS_CardinalityType
<1>2. \A p \in S : Rank(S, p) \in ranks
  BY RankOrder
<1>3. ASSUME NEW p \in S, NEW q \in S, Rank(S, p) = Rank(S, q) PROVE p = q
  <2>1. SUFFICES ASSUME p # q PROVE FALSE
    OBVIOUS
  <2>2. Rank(S, p) < Rank(S, q) \/ Rank(S, q) < Rank(S, p)
    BY <2>1, BeforeTotal, RankOrder
  <2>3. Rank(S, p) \in Nat
    BY <1>1, <1>2
  <2>4. QED
    BY <1>3, <2>2, <2>3
<1>4. rank \in Injection(S, ranks)
  BY <1>2, <1>3 DEF Injection, IsInjective
<1>5. IsFiniteSet(ranks) /\ Cardinality(ranks) = n
  <2>1. n - 1 \in Int
    BY <1>1
  <2>2. IsFiniteSet(0 .. n - 1) /\ Cardinality(0 .. n - 1) = IF 0 > n - 1 THEN 0 ELSE n - 1 - 0 + 1
    BY <2>1, FS_Interval
  <2>3. QED
    BY <1>1, <2>2
<1>6. rank \in Surjection(S, ranks)
  <2> HIDE DEF rank, ranks
  <2>1. QED
    BY <1>4, <1>5, FS_Injection DEF n
<1>7. ASSUME NEW i \in 1 .. n PROVE PlaceAt(S, i) \in S /\ Rank(S, PlaceAt(S, i)) = i - 1
  <2>1. i - 1 \in ranks
    BY <1>1
  <2>2. \E p \in S : Rank(S, p) = i - 1
    BY <1>6, <2>1 DEF Surjection
  <2>3. QED
    BY <2>2 DEF PlaceAt
<1>8. ASSUME NEW p \in S PROVE Rank(S, p) + 1 \in 1 .. n /\ PlaceAt(S, Rank(S, p) + 1) = p
  <2>1. Rank(S, p) \in Nat /\ Rank(S, p) + 1 \in 1 .. n /\ (Rank(S, p) + 1) - 1 = Rank(S, p)
    BY <1>1, <1>2
  <2>2. QED
    BY <1>3, <1>7, <2>1
<1>9. QED
  BY <1>1, <1>7, <1>8

\* The indices follow the order.
LEMMA IndexOrder ==
    ASSUME NEW S \in SUBSET Paths, IsFiniteSet(S),
           NEW i \in 1 .. Cardinality(S), NEW j \in 1 .. Cardinality(S)
    PROVE  i < j <=> Before(PlaceAt(S, i), PlaceAt(S, j))
<1> DEFINE p == PlaceAt(S, i)
           q == PlaceAt(S, j)
<1>1. p \in S /\ q \in S /\ Rank(S, p) = i - 1 /\ Rank(S, q) = j - 1
  BY PlaceOfRank
<1>2. i \in Nat /\ j \in Nat
  BY PlaceOfRank
<1> HIDE DEF p, q
<1>3. ASSUME Before(p, q) PROVE i < j
  <2>1. Rank(S, p) < Rank(S, q)
    BY <1>1, <1>3, RankOrder
  <2>2. QED
    BY <1>1, <1>2, <2>1
<1>4. ASSUME i < j PROVE Before(p, q)
  <2>1. p # q
    BY <1>1, <1>2, <1>4
  <2>2. SUFFICES ASSUME Before(q, p) PROVE FALSE
    BY <1>1, <2>1, BeforeTotal
  <2>3. Rank(S, q) < Rank(S, p)
    BY <1>1, <2>2, RankOrder
  <2>4. QED
    BY <1>1, <1>2, <1>4, <2>3
<1>5. QED
  BY <1>3, <1>4 DEF p, q

LEMMA TreePlaces ==
    ASSUME NEW plan, IsTree(plan)
    PROVE  DOMAIN plan \in SUBSET Paths /\ IsFiniteSet(DOMAIN plan) /\ <<>> \in DOMAIN plan
BY DEF IsTree, Paths

\* A place comes before all below it, and what is below it before what is below a place
\* further along.
LEMMA BelowIsLater ==
    ASSUME NEW p \in Paths, NEW q \in Paths
    PROVE  /\ IsStrictPrefix(p, q) => Before(p, q)
           /\ \A a, b \in Paths \ {<<>>} :
                 (Front(a) = Front(b) /\ Last(a) < Last(b) /\ IsPrefix(a, p) /\ IsPrefix(b, q))
                    => Before(p, q)
<1>1. ASSUME NEW a \in Paths, NEW s \in Paths, IsPrefix(a, s)
      PROVE  Len(a) <= Len(s) /\ \A j \in 1 .. Len(a) : s[j] = a[j]
  <2>1. /\ Len(a) \in Nat /\ Len(s) \in Nat /\ Len(a) <= Len(s)
        /\ SubSeq(a, 1, Len(a)) = SubSeq(s, 1, Len(a))
    BY <1>1 DEF IsPrefix, Paths
  <2>2. \A j \in 1 .. Len(a) : SubSeq(a, 1, Len(a))[j] = a[j] /\ SubSeq(s, 1, Len(a))[j] = s[j]
    BY <2>1 DEF Paths
  <2>3. QED
    BY <2>1, <2>2
<1>2. ASSUME IsStrictPrefix(p, q) PROVE Before(p, q)
  <2>1. IsPrefix(p, q) /\ p # q
    BY <1>2 DEF IsStrictPrefix
  <2>2. /\ Len(p) \in Nat /\ Len(q) \in Nat /\ Len(p) <= Len(q) /\ DOMAIN q = 1 .. Len(q)
        /\ \A j \in 1 .. Len(p) : q[j] = p[j]
    BY <1>1, <2>1 DEF Paths
  <2>3. Len(p) # Len(q)
    BY <2>1, <2>2, SeqEqual DEF Paths
  <2>4. /\ Len(p) + 1 \in DOMAIN q /\ Len(p) + 1 <= Len(p) + 1
        /\ \A j \in 1 .. (Len(p) + 1) - 1 : p[j] = q[j]
        /\ ~(Len(p) + 1 <= Len(p))
    BY <2>2, <2>3
  <2>5. QED
    BY <2>4 DEF Before
<1>3. ASSUME NEW a \in Paths \ {<<>>}, NEW b \in Paths \ {<<>>},
             Front(a) = Front(b), Last(a) < Last(b), IsPrefix(a, p), IsPrefix(b, q)
      PROVE  Before(p, q)
  <2> DEFINE n == Len(a)
  <2>1. n \in Nat \ {0} /\ Len(b) \in Nat \ {0} /\ Len(p) \in Nat /\ Len(q) \in Nat
    BY EmptySeq DEF Paths
  <2>2. Len(b) = n /\ \A j \in 1 .. n - 1 : a[j] = b[j]
    <3>1. /\ Len(Front(a)) = n - 1 /\ Len(Front(b)) = Len(b) - 1
          /\ \A j \in 1 .. n - 1 : Front(a)[j] = a[j]
          /\ \A j \in 1 .. Len(b) - 1 : Front(b)[j] = b[j]
      <4>1. ASSUME NEW s \in Paths, NEW m \in Nat \ {0}, Len(s) = m
            PROVE  Len(Front(s)) = m - 1 /\ \A j \in 1 .. m - 1 : Front(s)[j] = s[j]
        <5>1. Front(s) = SubSeq(s, 1, m - 1) /\ m - 1 \in Nat
          BY <4>1 DEF Front
        <5>2. \A j \in 1 .. m - 1 : s[j] \in Nat \ {0}
          BY <4>1, ElementOfSeq DEF Paths
        <5>3. /\ Len(SubSeq(s, 1, m - 1)) = IF 1 <= m - 1 THEN m - 1 - 1 + 1 ELSE 0
              /\ \A j \in 1 .. m - 1 - 1 + 1 : SubSeq(s, 1, m - 1)[j] = s[1 + j - 1]
          BY <5>1, <5>2, SubSeqProperties
        <5>4. QED
          BY <5>1, <5>3
      <4>2. QED
        BY <2>1, <4>1
    <3>2. QED
      BY <1>3, <2>1, <3>1
  <2>3. /\ n <= Len(p) /\ \A j \in 1 .. n : p[j] = a[j]
        /\ n <= Len(q) /\ \A j \in 1 .. n : q[j] = b[j]
    BY <1>1, <1>3, <2>2
  <2>4. n \in DOMAIN q /\ n <= Len(p) + 1 /\ \A j \in 1 .. n - 1 : p[j] = q[j]
    <3>1. DOMAIN q = 1 .. Len(q)
      BY DEF Paths
    <3> HIDE DEF n
    <3>2. n \in DOMAIN q /\ n <= Len(p) + 1
      BY ONLY <2>1, <2>3, <3>1
    <3>3. \A j \in 1 .. n - 1 : j \in 1 .. n
      BY ONLY <2>1
    <3>4. \A j \in 1 .. n - 1 : p[j] = q[j]
      BY ONLY <2>2, <2>3, <3>3
    <3>5. QED
      BY <3>2, <3>4
  <2>5. p[n] < q[n]
    BY <1>3, <2>1, <2>2, <2>3 DEF Last
  <2>6. QED
    BY <2>4, <2>5 DEF Before
<1>4. QED
  BY <1>2, <1>3

\* The order in which a plan of any shape is walked: each node is visited once, the root
\* first, a node before all below it, and all below a child before the next child.
THEOREM WalkVisitsAll ==
    ASSUME NEW plan, IsTree(plan)
    PROVE  LET n     == TreeSize(plan)
               place == [i \in 1 .. n |-> PlaceAt(DOMAIN plan, i)]
           IN  /\ Dfs(plan) = [i \in 1 .. n |-> plan[place[i]]]
               /\ place \in Bijection(1 .. n, DOMAIN plan)
               /\ n > 0 /\ place[1] = <<>>
               /\ \A i, j \in 1 .. n : IsStrictPrefix(place[i], place[j]) => i < j
               /\ \A i, j \in 1 .. n : \A a, b \in DOMAIN plan \ {<<>>} :
                     (/\ Front(a) = Front(b) /\ Last(a) < Last(b)
                      /\ IsPrefix(a, place[i]) /\ IsPrefix(b, place[j])) => i < j
<1> DEFINE S     == DOMAIN plan
           n     == TreeSize(plan)
           place == [i \in 1 .. n |-> PlaceAt(S, i)]
<1>1. S \in SUBSET Paths /\ IsFiniteSet(S) /\ <<>> \in S /\ n = Cardinality(S)
  BY TreePlaces DEF TreeSize
<1>2. Dfs(plan) = [i \in 1 .. n |-> plan[place[i]]]
  BY DEF Dfs, TreeSize
<1> HIDE DEF S, n
<1>3. /\ n \in Nat /\ \A i \in 1 .. n : place[i] \in S /\ Rank(S, place[i]) = i - 1
      /\ \A p \in S : Rank(S, p) + 1 \in 1 .. n /\ place[Rank(S, p) + 1] = p
  BY <1>1, PlaceOfRank
<1>4. \A i, j \in 1 .. n : i < j <=> Before(place[i], place[j])
  BY <1>1, IndexOrder
<1>5. place \in Bijection(1 .. n, S)
  <2>1. place \in [1 .. n -> S]
    BY <1>3
  <2>2. \A i, j \in 1 .. n : place[i] = place[j] => i = j
    BY <1>3
  <2>3. \A p \in S : \E i \in 1 .. n : place[i] = p
    BY <1>3
  <2>4. QED
    BY <2>1, <2>2, <2>3 DEF Bijection, Injection, Surjection, IsInjective
<1> HIDE DEF place
<1>6. n > 0 /\ place[1] = <<>>
  <2>1. PICK r \in 1 .. n : place[r] = <<>>
    BY <1>1, <1>3
  <2>2. n > 0 /\ 1 \in 1 .. n /\ r \in Nat
    BY <1>3
  <2>3. ~Before(place[1], <<>>)
    BY DEF Before
  <2>4. ~(1 < r)
    BY <1>4, <2>1, <2>2, <2>3
  <2>5. r = 1
    BY <2>1, <2>2, <2>4
  <2>6. QED
    BY <2>1, <2>2, <2>5
<1>7. ASSUME NEW i \in 1 .. n, NEW j \in 1 .. n
      PROVE  /\ IsStrictPrefix(place[i], place[j]) => i < j
             /\ \A a, b \in S \ {<<>>} :
                   (/\ Front(a) = Front(b) /\ Last(a) < Last(b)
                    /\ IsPrefix(a, place[i]) /\ IsPrefix(b, place[j])) => i < j
  <2>1. place[i] \in Paths /\ place[j] \in Paths /\ (i < j <=> Before(place[i], place[j]))
    BY <1>1, <1>3, <1>4
  <2>2. QED
    BY <1>1, <2>1, BelowIsLater
<1>8. QED
  BY <1>2, <1>5, <1>6, <1>7 DEF S, n, place

\* What the reducers take from a walk does not depend on its order: the greatest value
\* is that of the nodes, and a node of a type is counted once.
THEOREM ReducersSeeEveryNode ==
    ASSUME NEW plan, IsTree(plan)
    PROVE  /\ \A field : MaxOver(plan, field) = Max({0} \cup {plan[p][field] : p \in DOMAIN plan})
           /\ \A types : CountOf(plan, types) = Cardinality({p \in DOMAIN plan : plan[p].type \in types})
<1> DEFINE S     == DOMAIN plan
           n     == TreeSize(plan)
           place == [i \in 1 .. n |-> PlaceAt(S, i)]
<1>1. /\ Dfs(plan) = [i \in 1 .. n |-> plan[place[i]]]
      /\ place \in Bijection(1 .. n, S)
      /\ IsFiniteSet(S)
  BY WalkVisitsAll, TreePlaces
<1> HIDE DEF S, n, place
<1>2. /\ place \in [1 .. n -> S] /\ \A i, j \in 1 .. n : place[i] = place[j] => i = j
      /\ \A p \in S : \E i \in 1 .. n : place[i] = p
  BY <1>1 DEF Bijection, Injection, Surjection, IsInjective
<1>3. ASSUME NEW field
      PROVE  /\ NodeValues(plan, field) = [i \in 1 .. n |-> plan[place[i]][field]]
             /\ ToSet(NodeValues(plan, field)) = {plan[p][field] : p \in S}
  <2>1. NodeValues(plan, field) = [i \in 1 .. n |-> plan[place[i]][field]]
    BY <1>1 DEF NodeValues
  <2>2. ToSet(NodeValues(plan, field)) = {plan[place[i]][field] : i \in 1 .. n}
    BY <2>1 DEF ToSet
  <2>3. \A i \in 1 .. n : place[i] \in S
    BY <1>2
  <2>4. {plan[place[i]][field] : i \in 1 .. n} = {plan[p][field] : p \in S}
    BY <1>2, <2>3
  <2>5. QED
    BY <2>1, <2>2, <2>4
<1>4. ASSUME NEW types PROVE CountOf(plan, types) = Cardinality({p \in S : plan[p].type \in types})
  <2> DEFINE at   == {i \in 1 .. n : plan[place[i]].type \in types}
             these == {p \in S : plan[p].type \in types}
             visit == [i \in at |-> place[i]]
  <2>1. CountOf(plan, types) = Cardinality(at)
    <3>1. NodeValues(plan, "type") = [i \in 1 .. n |-> plan[place[i]].type]
      BY <1>3
    <3>2. {i \in DOMAIN NodeValues(plan, "type") : NodeValues(plan, "type")[i] \in types} = at
      BY <3>1
    <3>3. QED
      BY <3>2 DEF CountOf
  <2>2. visit \in Bijection(at, these)
    <3>1. \A i \in at : place[i] \in these
      BY <1>2
    <3>2. \A i, j \in at : visit[i] = visit[j] => i = j
      BY <1>2
    <3>3. \A p \in these : \E i \in at : visit[i] = p
      BY <1>2
    <3>4. QED
      BY <3>1, <3>2, <3>3 DEF Bijection, Injection, Surjection, IsInjective
  <2>3. IsFiniteSet(at)
    <3>1. IsFiniteSet(these) /\ these \subseteq S
      BY <1>1, FS_Subset
    <3>2. visit \in Injection(at, these)
      BY <2>2 DEF Bijection
    <3> HIDE DEF at, these, visit
    <3>3. QED
      BY <3>1, <3>2, FS_Injection
  <2> HIDE DEF at, these, visit
  <2>4. Cardinality(these) = Cardinality(at)
    BY <2>2, <2>3, FS_Bijection DEF ExistsBijection
  <2>5. QED
    BY <2>1, <2>4 DEF these
<1>5. QED
  BY <1>3, <1>4 DEF MaxOver, S

----------------------------------------------------------------------------
(* The rows                                                                *)

\* Rows with the same columns, and with the same values where c says.
Alike(r, s) ==
    /\ DOMAIN r = DOMAIN s
    /\ \A c \in DOMAIN r : c \notin Dropped \cup {"planning_time_ms"} => r[c] = s[c]

LEMMA MergedAlike ==
    ASSUME NEW r, NEW s, NEW m, NEW n, Alike(r, s), Alike(m, n)
    PROVE  Alike(Merged(r, m), Merged(s, n))
BY DEF Alike, Merged

\* The trees give the features of the estimates the same values.
SameEstimates(t, u) ==
    /\ TreeDepth(t) = TreeDepth(u) /\ TreeSize(t) = TreeSize(u)
    /\ \A types : CountOf(t, types) = CountOf(u, types)
    /\ \A f \in {"type", "cost", "startup", "rows"} :
          t[<<>>][f] = u[<<>>][f] /\ NodeValues(t, f) = NodeValues(u, f)

LEMMA BaseAlike ==
   ASSUME NEW r, NEW s, r.variant = s.variant, SameEstimates(r.plan.tree, s.plan.tree)
   PROVE Alike(BaseFeatures(r), BaseFeatures(s))
<1>1. DOMAIN BaseFeatures(r) = DOMAIN BaseFeatures(s)
  BY DEF BaseFeatures
<1>2. MaxOver(r.plan.tree, "cost") = MaxOver(s.plan.tree, "cost")
  BY DEF SameEstimates, MaxOver
<1>3. Counters(r.plan.tree) = Counters(s.plan.tree)
  BY DEF SameEstimates, Counters
<1> DEFINE estimated ==
             {"tree_depth", "total_nodes", "num_scans", "num_joins", "num_aggregates", "num_sorts",
              "operator_counts", "estimated_total_cost", "estimated_startup_cost",
              "estimated_rows", "root_node_type", "max_subtree_cost", "log1p_max_subtree_cost",
              "cost_per_estimated_row", "startup_to_total_ratio", "max_to_root_cost_ratio",
              "est_rows_per_node"}
<1>4. \A c \in DOMAIN BaseFeatures(r) :
          c \notin Dropped \cup {"planning_time_ms"} => c \in estimated
  BY DEF BaseFeatures, Dropped, LeakyColumns, IdColumns, TargetColumn, PostExecution
<1> DEFINE t == r.plan.tree
           u == s.plan.tree
<1>6. /\ TreeDepth(t) = TreeDepth(u) /\ TreeSize(t) = TreeSize(u)
      /\ CountOf(t, ScanNodes) = CountOf(u, ScanNodes)
      /\ CountOf(t, JoinNodes) = CountOf(u, JoinNodes)
      /\ CountOf(t, AggNodes) = CountOf(u, AggNodes)
      /\ CountOf(t, SortNodes) = CountOf(u, SortNodes)
      /\ t[<<>>].type = u[<<>>].type /\ t[<<>>].cost = u[<<>>].cost
      /\ t[<<>>].startup = u[<<>>].startup /\ t[<<>>].rows = u[<<>>].rows
  BY DEF SameEstimates
<1>7. \A c \in estimated : BaseFeatures(r)[c] = BaseFeatures(s)[c]
  BY <1>2, <1>3, <1>6 DEF BaseFeatures
<1>5. QED
  BY <1>1, <1>4, <1>7 DEF Alike

LEMMA RowsAlike ==
   ASSUME NEW r, NEW s, r.variant = s.variant, SameEstimates(r.plan.tree, s.plan.tree)
   PROVE Alike(ExtractFeatures(r), ExtractFeatures(s))
<1>1. Alike(KnobState(r.variant), KnobState(s.variant))
  BY DEF Alike
<1>2. Alike(EstimateFeatures(NodeValues(r.plan.tree, "rows")), EstimateFeatures(NodeValues(s.plan.tree, "rows")))
  BY DEF Alike, SameEstimates
<1> DEFINE missed == {"card_misestimate_max", "card_misestimate_mean",
                      "card_underest_count", "card_overest_count"}
<1>5. \A a, b : DOMAIN MisestimateFeatures(a, b) = missed
  BY DEF MisestimateFeatures
<1>6. missed \subseteq Dropped
  BY DEF Dropped, LeakyColumns
<1>3. \A a, b, c, d : Alike(MisestimateFeatures(a, b), MisestimateFeatures(c, d))
  BY <1>5, <1>6 DEF Alike
<1>4. QED
  BY <1>1, <1>2, <1>3, BaseAlike, MergedAlike DEF ExtractFeatures, CardinalityFeatures

LEMMA PlanningColumn ==
   ASSUME NEW r
   PROVE /\ "planning_time_ms" \in DOMAIN ExtractFeatures(r) \ Dropped
         /\ ExtractFeatures(r)["planning_time_ms"] = r.plan.planning
<1>1. "planning_time_ms" \notin Dropped
  BY DEF Dropped, LeakyColumns, IdColumns, TargetColumn, PostExecution
<1>2. "planning_time_ms" \in DOMAIN BaseFeatures(r) /\ BaseFeatures(r)["planning_time_ms"] = r.plan.planning
  BY DEF BaseFeatures
<1>3. "planning_time_ms" \notin DOMAIN KnobState(r.variant)
  BY DEF KnobState
<1>4. \A a, b : "planning_time_ms" \notin DOMAIN Merged(EstimateFeatures(a), MisestimateFeatures(a, b))
  BY DEF EstimateFeatures, MisestimateFeatures, Merged
<1>5. QED
  BY <1>1, <1>2, <1>3, <1>4 DEF ExtractFeatures, CardinalityFeatures, Merged

\* What EXPLAIN reports without executing is all there with the execution left out.
LEMMA PlainSameEstimates ==
    ASSUME NEW tree, PlanTree(tree)
    PROVE  SameEstimates(Plain(tree), tree)
<1> DEFINE S == DOMAIN tree
           n == Cardinality(S)
           seen == {"type", "cost", "startup", "rows"}
<1>1. S \in SUBSET Paths /\ IsFiniteSet(S) /\ <<>> \in S /\ tree \in [S -> PlanNodes]
  BY TreePlaces DEF PlanTree
<1>2. DOMAIN Plain(tree) = S /\ \A p \in S : Plain(tree)[p] = PlainNode(tree[p])
  BY DEF Plain
<1>3. \A p \in S : \A f \in seen : Plain(tree)[p][f] = tree[p][f]
  <2>1. ASSUME NEW node \in PlanNodes
        PROVE  /\ PlainNode(node).type = node.type /\ PlainNode(node).cost = node.cost
               /\ PlainNode(node).startup = node.startup /\ PlainNode(node).rows = node.rows
    BY DEF PlainNode, PlanNodes
  <2>2. \A node \in PlanNodes : \A f \in seen : PlainNode(node)[f] = node[f]
    BY <2>1
  <2>3. QED
    BY <1>1, <1>2, <2>2
<1> HIDE DEF S
<1>4. \A i \in 1 .. n : PlaceAt(S, i) \in S
  BY <1>1, PlaceOfRank
<1>5. ASSUME NEW f \in seen PROVE NodeValues(Plain(tree), f) = NodeValues(tree, f)
  <2>1. /\ NodeValues(tree, f) = [i \in 1 .. n |-> tree[PlaceAt(S, i)][f]]
        /\ NodeValues(Plain(tree), f) = [i \in 1 .. n |-> Plain(tree)[PlaceAt(S, i)][f]]
    BY <1>2 DEF NodeValues, Dfs, S
  <2>2. QED
    BY <1>3, <1>4, <2>1
<1>6. TreeDepth(Plain(tree)) = TreeDepth(tree) /\ TreeSize(Plain(tree)) = TreeSize(tree)
  BY <1>2 DEF TreeDepth, TreeSize, S
<1>7. \A types : CountOf(Plain(tree), types) = CountOf(tree, types)
  BY <1>5 DEF CountOf
<1>8. QED
  BY <1>1, <1>3, <1>5, <1>6, <1>7 DEF SameEstimates

\* The one feature a model reads another value of at the service is the planning time.
LEMMA PlanningSkewed ==
    ASSUME NEW record, PlanTree(record.plan.tree)
    PROVE  SkewedFeatures(record) =
             IF record.plan.planning = 0 THEN {} ELSE {"planning_time_ms"}
<1> DEFINE row    == ExtractFeatures(record)
           online == ServedRow(record.plan, record.variant)
           names  == DOMAIN row \ Dropped
           blank  == [query |-> "online", variant |-> record.variant, wall |-> 0,
                      plan |-> [tree |-> Plain(record.plan.tree), planning |-> 0, execution |-> 0]]
<1>1. online = ExtractFeatures(blank) /\ blank.variant = record.variant
      /\ blank.plan.tree = Plain(record.plan.tree) /\ blank.plan.planning = 0
  BY DEF ServedRow
<1> HIDE DEF blank
<1>2. Alike(online, row)
  BY <1>1, PlainSameEstimates, RowsAlike
<1>3. /\ "planning_time_ms" \in names
      /\ online["planning_time_ms"] = 0 /\ row["planning_time_ms"] = record.plan.planning
  BY <1>1, PlanningColumn
<1>4. SkewedFeatures(record) =
        {c \in names : (IF c \in DOMAIN online \ Dropped THEN online[c] ELSE 0) # row[c]}
  BY DEF SkewedFeatures, AlignFeatures
<1> HIDE DEF row, online
<1>5. DOMAIN online = DOMAIN row /\ \A c \in names : c # "planning_time_ms" => online[c] = row[c]
  BY <1>2 DEF Alike
<1>6. SkewedFeatures(record) = {c \in names : online[c] # row[c]}
  BY <1>4, <1>5
<1>7. QED
  BY <1>3, <1>5, <1>6

\* The columns that tell where a row comes from and what it is about.
LEMMA RowColumns ==
    ASSUME NEW r
    PROVE  LET row == ExtractFeatures(r)
           IN  /\ row.query_id = r.query /\ row.variant = r.variant
               /\ row.execution_time_ms = r.plan.execution
               /\ \A c \in DOMAIN KnobState("default") :
                     c \in DOMAIN row \ Dropped /\ row[c] = KnobState(r.variant)[c]
<1> DEFINE base == BaseFeatures(r)
           knob == KnobState(r.variant)
           card == CardinalityFeatures(r.plan.tree)
           knobs == {"enable_hashjoin", "enable_mergejoin", "enable_nestloop"}
<1>1. /\ {"query_id", "variant", "execution_time_ms"} \subseteq DOMAIN base
      /\ base["query_id"] = r.query /\ base["variant"] = r.variant
      /\ base["execution_time_ms"] = r.plan.execution
  BY DEF BaseFeatures
<1>2. DOMAIN knob = knobs /\ DOMAIN KnobState("default") = knobs
  BY DEF KnobState
<1>3. DOMAIN card = {"plan_rows_max_node", "plan_rows_min_nonzero_node", "plan_rows_std_to_mean",
                     "plan_rows_log_range", "card_misestimate_max", "card_misestimate_mean",
                     "card_underest_count", "card_overest_count"}
  <2>1. \A rows, actuals :
          DOMAIN Merged(EstimateFeatures(rows), MisestimateFeatures(rows, actuals))
            = {"plan_rows_max_node", "plan_rows_min_nonzero_node", "plan_rows_std_to_mean",
               "plan_rows_log_range", "card_misestimate_max", "card_misestimate_mean",
               "card_underest_count", "card_overest_count"}
    BY DEF EstimateFeatures, MisestimateFeatures, Merged
  <2>2. QED
    BY <2>1 DEF CardinalityFeatures
<1>4. knobs \cap Dropped = {}
  BY DEF Dropped, LeakyColumns, IdColumns, TargetColumn, PostExecution
<1>5. ExtractFeatures(r) = Merged(Merged(base, knob), card)
  BY DEF ExtractFeatures
<1> HIDE DEF base, card
<1>6. \A c \in {"query_id", "variant", "execution_time_ms"} :
          c \notin knobs /\ c \notin DOMAIN card
  BY <1>3
<1>7. \A c \in knobs : c \notin DOMAIN card
  BY <1>3
<1> HIDE DEF knob, knobs
<1>8. \A c \in {"query_id", "variant", "execution_time_ms"} : ExtractFeatures(r)[c] = base[c]
  BY <1>1, <1>2, <1>5, <1>6 DEF Merged
<1>9. \A c \in knobs : c \in DOMAIN ExtractFeatures(r) /\ ExtractFeatures(r)[c] = knob[c]
  BY <1>2, <1>5, <1>7 DEF Merged
<1>10. \A c \in knobs : c \in DOMAIN ExtractFeatures(r) \ Dropped /\ ExtractFeatures(r)[c] = knob[c]
  BY <1>4, <1>9
<1>11. /\ ExtractFeatures(r)["query_id"] = r.query /\ ExtractFeatures(r)["variant"] = r.variant
       /\ ExtractFeatures(r)["execution_time_ms"] = r.plan.execution
  BY <1>1, <1>8
<1>12. QED
  BY <1>2, <1>10, <1>11 DEF knob

----------------------------------------------------------------------------
(* The labels                                                              *)

\* A written file holds one time, which is a label of some executions, as does the
\* measurement that is about to be written.
LabelsKept ==
    /\ run.repeats \in LabelRuns \cup {1}
    /\ script.at \in {"open", "write"} => run.label \in Labels /\ run.summary = run.label
    /\ \A cell \in AllCells : files[cell].status = "written" =>
          files[cell].label \in Labels /\ files[cell].summary = files[cell].label

RowsInv == CollectionInv /\ LabelsKept

LEMMA OneLabel == \A times : LabelOf(times).summary = LabelOf(times).label
BY DEF LabelOf

LEMMA CollectorsKeepLabels ==
    ASSUME CollectionInv, LabelsKept, CollectionStep
    PROVE  LabelsKept'
<1>1. Run(run) /\ DOMAIN files = AllCells /\ Script(script)
  BY DEF CollectionInv, SchemaInv, KnobsKept
<1>2. ASSUME NEW c \in Corpora, StartCollector(c) PROVE LabelsKept'
  <2>1. PICK repeats \in Collector(c).repeats, resume \in Collector(c).resumes :
          run' = [NoRun EXCEPT !.repeats = repeats, !.resume = resume]
    BY <1>2 DEF StartCollector
  <2>2. repeats \in LabelRuns \cup {1}
    BY <2>1, CollectionAssumption
       DEF Collector, RawCollector, TpchCollector, ParamCollector, TpcdsCollector, JobCollector, Corpora
  <2>3. run'.repeats = repeats /\ script'.at = "next" /\ files' = files
    BY <1>2, <2>1 DEF StartCollector, Starts, NoRun
  <2>4. QED
    BY <2>2, <2>3 DEF LabelsKept
<1>3. CASE Skip \/ ExplainFails
  <2>1. UNCHANGED <<files, run>> /\ script'.at = "next"
    BY <1>1, <1>3 DEF Skip, ExplainFails, NextCell, Script
  <2>2. QED
    BY <2>1 DEF LabelsKept
<1>4. CASE Configure
  <2>1. run'.repeats = run.repeats /\ files' = files /\ script'.at = "explain"
    BY <1>1, <1>4, GoesToEffect DEF Configure, SessionFor, Run
  <2>2. QED
    BY <2>1 DEF LabelsKept
<1>5. CASE Explain
  <2>1. PICK times \in Attempts(run.repeats) :
          run' = [run EXCEPT !.label = LabelOf(times).label, !.summary = LabelOf(times).summary]
    BY <1>5 DEF Explain
  <2>2. /\ run'.repeats = run.repeats /\ run'.label = LabelOf(times).label
        /\ run'.summary = LabelOf(times).label
    BY <1>1, <2>1, OneLabel DEF Run
  <2>3. LabelOf(times).label \in Labels
    BY <2>1 DEF Labels, LabelsKept
  <2>4. files' = files
    BY <1>5 DEF Explain
  <2>5. QED
    BY <2>2, <2>3, <2>4 DEF LabelsKept
<1>6. CASE OpenFile
  <2>1. run' = run /\ files' = [files EXCEPT ![Current] = TornFile] /\ script.at = "open"
    BY <1>6 DEF OpenFile, Collecting
  <2>2. TornFile.status = "torn"
    BY DEF TornFile, NoFile
  <2>3. QED
    BY <1>1, <2>1, <2>2 DEF LabelsKept
<1>7. CASE WriteFile
  <2>1. PICK customer : files' = [files EXCEPT ![Current] =
                [status |-> "written", off |-> run.off, customer |-> customer,
                 label |-> run.label, summary |-> run.summary]]
    BY <1>7 DEF WriteFile
  <2>2. run' = run /\ script.at = "write" /\ script'.at = "next"
    BY <1>1, <1>7 DEF WriteFile, Collecting, NextCell, Script
  <2>3. QED
    BY <1>1, <2>1, <2>2 DEF LabelsKept
<1>8. CASE Finish
  <2>1. run' = NoRun /\ files' = files /\ script'.at = "idle"
    BY <1>8 DEF Finish, Ends, NoScript
  <2>2. QED
    BY <2>1 DEF LabelsKept, NoRun
<1>9. QED
  BY <1>2, <1>3, <1>4, <1>5, <1>6, <1>7, <1>8 DEF CollectionStep

LEMMA RowsAlways == CollectionSpec => []RowsInv
<1>1. CollectionInit => RowsInv
  <2> SUFFICES ASSUME CollectionInit PROVE LabelsKept
    BY CollectionInitInv DEF RowsInv
  <2>1. files = [cell \in AllCells |-> NoFile] /\ run = NoRun /\ script = NoScript
    BY DEF CollectionInit, SchemaInit
  <2>2. QED
    BY <2>1 DEF LabelsKept, NoFile, NoRun, NoScript
<1>2. RowsInv /\ [CollectionNext]_collectionVars => RowsInv'
  <2> SUFFICES ASSUME RowsInv, [CollectionNext]_collectionVars PROVE RowsInv'
    OBVIOUS
  <2>1. CollectionInv /\ LabelsKept /\ Script(script)
    BY DEF RowsInv, CollectionInv, SchemaInv
  <2>2. CollectionInv'
    BY <2>1, CollectionInvStep
  <2>3. CASE CollectionStep
    BY <2>1, <2>2, <2>3, CollectorsKeepLabels DEF RowsInv
  <2>4. CASE OtherScript
    <3>1. run' = NoRun /\ files' = files /\ script'.at \notin Measuring
      BY <2>1, <2>4, OthersMeasureNothing DEF OtherScript
    <3>2. LabelsKept'
      BY <2>1, <3>1 DEF LabelsKept, Measuring, NoRun
    <3>3. QED
      BY <2>2, <3>2 DEF RowsInv
  <2>5. CASE UNCHANGED collectionVars
    BY <2>1, <2>2, <2>5 DEF RowsInv, LabelsKept, collectionVars, schemaVars
  <2>6. QED
    BY <2>3, <2>4, <2>5 DEF CollectionNext
<1>3. QED
  BY <1>1, <1>2, PTL DEF CollectionSpec

----------------------------------------------------------------------------
(* What the rows are good for                                              *)

\* The measurement in a written file is one the assumptions speak of.
LEMMA MeasuredCells ==
    ASSUME RowsInv, NEW cell \in AllCells, files[cell].status = "written"
    PROVE  /\ cell.variant \in {"default"} \cup ToSet(VariantNames)
           /\ files[cell].off = Off(cell.variant)
           /\ files[cell].off \in SUBSET ToSet(VariantNames)
           /\ files[cell].label \in Labels /\ files[cell].summary = files[cell].label
<1>1. PICK c \in Corpora : cell \in CellSet(c)
  BY DEF AllCells
<1>2. cell.variant \in ToSet(Collector(c).variants)
  BY <1>1 DEF CellSet, Cell
<1>3. Collector(c).variants = <<"default">> \/ Collector(c).variants = VariantNames
  BY CollectionAssumption
     DEF Collector, RawCollector, TpchCollector, ParamCollector, TpcdsCollector, JobCollector, Corpora
<1>4. ToSet(<<"default">>) = {"default"}
  BY DEF ToSet
<1>5. cell.variant \in {"default"} \cup ToSet(VariantNames)
  BY <1>2, <1>3, <1>4
<1>6. files[cell].off = Off(cell.variant)
  BY DEF RowsInv, CollectionInv, KnobsKept
<1>7. Off(cell.variant) \in SUBSET ToSet(VariantNames)
  BY <1>5 DEF Off
<1>8. QED
  BY <1>5, <1>6, <1>7 DEF RowsInv, LabelsKept

LEMMA RowOfCell ==
    ASSUME NEW cell
    PROVE  /\ RowOf(cell).query_id = cell.query /\ RowOf(cell).variant = cell.variant
           /\ RowOf(cell).execution_time_ms = files[cell].label
           /\ \A c \in DOMAIN KnobState("default") :
                 c \in DOMAIN RowOf(cell) \ Dropped /\ RowOf(cell)[c] = KnobState(cell.variant)[c]
<1> DEFINE r == Record(cell, files[cell].off, files[cell].label)
<1>1. r.query = cell.query /\ r.variant = cell.variant /\ r.plan.execution = files[cell].label
  BY DEF Record
<1>2. RowOf(cell) = ExtractFeatures(r)
  BY DEF RowOf
<1> HIDE DEF r
<1>3. QED
  BY <1>1, <1>2, RowColumns

\* For every workload, every set of variants and every plan the database may choose: no
\* feature of a model depends on what the execution of a plan reported, but for the
\* planning time, whichever file the model learned it from.
THEOREM FeaturesBlind == CollectionSpec => []PlanTimeBlind
<1>1. RowsInv => PlanTimeBlind
  <2> SUFFICES ASSUME RowsInv, NEW cell \in Extracted(AllCells)
               PROVE  LET off   == files[cell].off
                          skews == IF Analyzed(cell.query, off).planning = 0 THEN {}
                                   ELSE {"planning_time_ms"}
                      IN  <<<<cell, off, files[cell].label>>, skews>> \in Skews
    BY DEF PlanTimeBlind
  <2> DEFINE off == files[cell].off
             label == files[cell].label
             r == Record(cell, off, label)
             m == <<cell, off, label>>
  <2>1. cell \in AllCells /\ files[cell].status = "written"
    BY DEF Extracted
  <2>2. off \in SUBSET ToSet(VariantNames) /\ label \in Labels
    BY <2>1, MeasuredCells
  <2> HIDE DEF off, label
  <2>3. PlanTree(r.plan.tree) /\ r.plan.planning = Analyzed(cell.query, off).planning
    BY <2>1, <2>2, RowsAssumption DEF Record
  <2>4. SkewedFeatures(r) =
          IF Analyzed(cell.query, off).planning = 0 THEN {} ELSE {"planning_time_ms"}
    <3> HIDE DEF r
    <3>1. QED
      BY <2>3, PlanningSkewed
  <2>5. m \in AllCells \X (SUBSET ToSet(VariantNames)) \X Labels
    BY <2>1, <2>2
  <2>6. <<m, SkewedFeatures(r)>> \in Skews
    BY <2>5 DEF Skews
  <2>7. QED
    BY <2>4, <2>6 DEF off, label
<1>2. QED
  BY RowsAlways, <1>1, PTL

\* Two members make a finite set have two.
LEMMA TwoMembers ==
    ASSUME NEW S, IsFiniteSet(S), NEW a \in S, NEW b \in S, a # b
    PROVE  Cardinality(S) \in Nat /\ Cardinality(S) >= 2
<1>1. Cardinality(S) \in Nat
  BY FS_CardinalityType
<1>2. Cardinality(S) # 0 /\ Cardinality(S) # 1
  BY FS_EmptySet, FS_Singleton
<1>3. QED
  BY <1>1, <1>2

\* Variants that differ have a knob column that differs.
LEMMA KnobsDiffer ==
    ASSUME NEW v \in Variants, NEW w \in Variants, v # w
    PROVE  \E c \in DOMAIN KnobState("default") : KnobState(v)[c] # KnobState(w)[c]
<1>1. /\ DOMAIN KnobState("default") = {"enable_hashjoin", "enable_mergejoin", "enable_nestloop"}
      /\ \A x : /\ KnobState(x)["enable_hashjoin"] = IF x = "no_hashjoin" THEN 0 ELSE 1
                /\ KnobState(x)["enable_mergejoin"] = IF x = "no_mergejoin" THEN 0 ELSE 1
                /\ KnobState(x)["enable_nestloop"] = IF x = "no_nestloop" THEN 0 ELSE 1
  BY DEF KnobState
<1>2. QED
  BY <1>1 DEF Variants

LEMMA VariantsFinite == IsFiniteSet(Variants)
<1>1. IsFiniteSet({"default"})
  BY FS_Singleton
<1>2. IsFiniteSet({"default"} \cup {"no_hashjoin"})
  BY <1>1, FS_AddElement
<1>3. IsFiniteSet(({"default"} \cup {"no_hashjoin"}) \cup {"no_mergejoin"})
  BY <1>2, FS_AddElement
<1>4. IsFiniteSet((({"default"} \cup {"no_hashjoin"}) \cup {"no_mergejoin"}) \cup {"no_nestloop"})
  BY <1>3, FS_AddElement
<1>5. Variants = (({"default"} \cup {"no_hashjoin"}) \cup {"no_mergejoin"}) \cup {"no_nestloop"}
  BY DEF Variants
<1>6. QED
  BY <1>4, <1>5

LEMMA GatedMeasured ==
    ASSUME RowsInv, NEW cell \in Collected
    PROVE  /\ cell \in AllCells /\ files[cell].status = "written" /\ cell \in Gated
           /\ cell.variant \in Variants /\ cell.query \in Expected
           /\ files[cell].summary = files[cell].label
<1>1. "param" \in Corpora
  BY GateAssumption DEF Corpora
<1>2. Gated \subseteq AllCells
  BY <1>1 DEF Gated, AllCells
<1>3. cell \in Gated /\ files[cell].status = "written"
  BY DEF Collected
<1>4. cell.query \in Expected
  BY <1>3 DEF Gated, CellSet, Cell, Expected
<1>5. cell.variant \in Variants
  <2>1. cell.variant \in {"default"} \cup ToSet(VariantNames)
    BY <1>2, <1>3, MeasuredCells
  <2>2. QED
    BY <2>1, RowsAssumption DEF Variants
<1>6. QED
  BY <1>2, <1>3, <1>4, <1>5, MeasuredCells

\* For every workload, tolerance and tree of plans: a corpus that validate_dataset.py calls
\* trustworthy becomes rows with nothing lost, labelled with the times it looked at, with
\* a choice for every query, and a model trained on it has a column that tells the
\* sessions apart.
THEOREM TrustedRows == CollectionSpec => []TrustedIsUsable
<1>1. RowsInv => TrustedIsUsable
  <2> DEFINE cells == Extracted(Gated)
             rows  == {RowOf(cell) : cell \in cells}
  <2> SUFFICES ASSUME RowsInv, Trusted
               PROVE  /\ ExtractFails(Gated) = {}
                      /\ \A cell \in cells : RowOf(cell).execution_time_ms = files[cell].summary
                      /\ Expected \subseteq GroupsEvaluated(rows)
                      /\ FeatureNames(rows) \cap DOMAIN KnobState("default") # {}
    BY DEF TrustedIsUsable
  <2>1. cells = Collected
    BY DEF Extracted, Collected
  <2>2. ExtractFails(Gated) = {}
    BY DEF ExtractFails, Trusted, Corrupt
  <2>3. \A cell \in cells : RowOf(cell).execution_time_ms = files[cell].summary
    BY <2>1, RowOfCell, GatedMeasured
  <2> HIDE DEF cells
  <2>4. ASSUME NEW q \in Expected PROVE q \in GroupsEvaluated(rows)
    <3> DEFINE group == {r \in rows : r.query_id = q}
               these == {cell \in cells : cell.query = q}
               row == [cell \in these |-> RowOf(cell)]
    <3>1. PICK a \in cells, b \in cells : a.query = q /\ b.query = q /\ a.variant # b.variant
      BY <2>1, UsableHasTwo
    <3>2. /\ RowOf(a) \in group /\ RowOf(b) \in group /\ RowOf(a) # RowOf(b)
          /\ RowOf(a).query_id = q
      <4>1. /\ RowOf(a).query_id = q /\ RowOf(b).query_id = q
            /\ RowOf(a).variant = a.variant /\ RowOf(b).variant = b.variant
        BY <3>1, RowOfCell
      <4>2. QED
        BY <3>1, <4>1
    <3>3. IsFiniteSet(group)
      <4>1. row \in Surjection(these, group)
        <5>1. \A cell \in these : RowOf(cell) \in group
          BY RowOfCell
        <5>2. \A r \in group : \E cell \in these : row[cell] = r
          <6> SUFFICES ASSUME NEW r \in group PROVE \E cell \in these : row[cell] = r
            OBVIOUS
          <6>1. PICK cell \in cells : r = RowOf(cell)
            OBVIOUS
          <6>2. r.query_id = cell.query /\ r.query_id = q
            BY <6>1, RowOfCell
          <6>3. cell \in these /\ row[cell] = r
            BY <6>1, <6>2
          <6>4. QED
            BY <6>3
        <5>3. QED
          BY <5>1, <5>2 DEF Surjection
      <4>2. IsFiniteSet(these)
        <5> DEFINE name == [cell \in these |-> cell.variant]
        <5>1. name \in Injection(these, Variants)
          <6>1. \A cell \in these : cell.variant \in Variants
            BY <2>1, GatedMeasured
          <6>2. \A c, d \in these : c.variant = d.variant => c = d
            BY <2>1, GatedMeasured DEF Gated, CellSet, Cell
          <6>3. QED
            BY <6>1, <6>2 DEF Injection, IsInjective
        <5>2. IsFiniteSet(Variants)
          BY VariantsFinite
        <5> HIDE DEF these, name
        <5>3. QED
          BY <5>1, <5>2, FS_Injection
      <4> HIDE DEF these, group, row
      <4>3. QED
        BY <4>1, <4>2, FS_Surjection
    <3>4. Cardinality(group) >= 2
      <4> HIDE DEF group
      <4>1. QED
        BY <3>2, <3>3, TwoMembers
    <3>5. RowOf(a) \in rows
      OBVIOUS
    <3> HIDE DEF rows
    <3>6. q \in {r.query_id : r \in rows}
      BY <3>2, <3>5
    <3>7. QED
      BY <3>4, <3>6 DEF GroupsEvaluated
  <2>5. FeatureNames(rows) \cap DOMAIN KnobState("default") # {}
    <3>1. PICK some \in Collected : some.query \in Expected
      BY GatedMeasured DEF Trusted
    <3>2. PICK a \in Collected, b \in Collected : a.variant # b.variant
      BY <3>1, UsableHasTwo
    <3>3. PICK c \in DOMAIN KnobState("default") : KnobState(a.variant)[c] # KnobState(b.variant)[c]
      BY <3>2, GatedMeasured, KnobsDiffer
    <3> DEFINE values == {r[c] : r \in rows}
    <3>4. /\ c \in DOMAIN RowOf(a) \ Dropped /\ RowOf(a) \in rows /\ RowOf(b) \in rows
          /\ RowOf(a)[c] # RowOf(b)[c]
      <4>1. RowOf(a) \in rows /\ RowOf(b) \in rows
        BY <2>1, <3>2
      <4>2. /\ c \in DOMAIN RowOf(a) \ Dropped /\ RowOf(a)[c] = KnobState(a.variant)[c]
            /\ RowOf(b)[c] = KnobState(b.variant)[c]
        BY <3>3, RowOfCell
      <4>3. QED
        BY <3>3, <4>1, <4>2
    <3>5. IsFiniteSet(values)
      <4>1. \A x : KnobState(x)[c] \in {0, 1}
        BY DEF KnobState
      <4>2. values \in SUBSET {0, 1}
        <5> SUFFICES ASSUME NEW cell \in cells PROVE RowOf(cell)[c] \in {0, 1}
          OBVIOUS
        <5>1. RowOf(cell)[c] = KnobState(cell.variant)[c]
          BY <3>3, RowOfCell
        <5>2. QED
          BY <4>1, <5>1
      <4>3. IsFiniteSet({0, 1})
        <5>1. IsFiniteSet({0} \cup {1})
          BY FS_Singleton, FS_AddElement
        <5>2. {0} \cup {1} = {0, 1}
          OBVIOUS
        <5>3. QED
          BY <5>1, <5>2
      <4> HIDE DEF values
      <4>4. QED
        BY <4>2, <4>3, FS_Subset
    <3>6. Cardinality(values) > 1
      <4>1. RowOf(a)[c] \in values /\ RowOf(b)[c] \in values
        BY <3>4
      <4> HIDE DEF values
      <4>2. Cardinality(values) \in Nat /\ Cardinality(values) >= 2
        BY <3>4, <3>5, <4>1, TwoMembers
      <4>3. QED
        BY <4>2
    <3> HIDE DEF rows
    <3>7. c \in FeatureNames(rows)
      <4>1. c \in (UNION {DOMAIN r : r \in rows}) \ Dropped
        BY <3>4
      <4>2. Cardinality({r[c] : r \in rows}) > 1
        BY <3>6
      <4>3. QED
        BY <4>1, <4>2 DEF FeatureNames
    <3>8. QED
      BY <3>3, <3>7
  <2>6. QED
    BY <2>2, <2>3, <2>4, <2>5
<1>2. QED
  BY RowsAlways, <1>1, PTL
=============================================================================
