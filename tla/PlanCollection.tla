--------------------------- MODULE PlanCollection ---------------------------
(***************************************************************************)
(* The scripts that run the queries of a benchmark under each variant and  *)
(* write one file for each plan (scripts/collect_*.py), on the tables of   *)
(* BenchmarkSchemas.                                                       *)
(*                                                                         *)
(* The five scripts are one algorithm with the differences the records     *)
(* below name.  The plan PostgreSQL chooses depends on the query and on    *)
(* the join methods that are off; the EXPLAINs of one label run after each *)
(* other with nothing in between.  The index files are left out: they are  *)
(* only appended to, and no program reads them.                            *)
(***************************************************************************)
EXTENDS BenchmarkSchemas, PlanVariants, FiniteSets, SequencesExt

CONSTANTS
    QueriesOf,      \* corpus -> the sequence of its queries
    ReadsCustomer,  \* the queries that read the table customer
    VariantNames,   \* the sequence of the variants
    LabelRuns,      \* the values of --label-runs
    Attempts(_),    \* the times that many executions may take
    Slow            \* the <<query, variant>> pairs that may time out

ASSUME CollectionAssumption ==
    /\ DOMAIN QueriesOf \subseteq {"raw", "plans", "param", "ds", "job"}
    /\ LabelRuns \subseteq Nat \ {0}
    /\ \A n \in LabelRuns \cup {1} : Attempts(n) \subseteq [1 .. n -> Nat \ {0}]

VARIABLES
    files,          \* the plan file of each cell: none, torn or a record
    run             \* the options, the session and the measurement of the script

collectionVars == <<schemaVars, files, run>>

Corpora == DOMAIN QueriesOf

NoFile   == [status |-> "none", off |-> {}, customer |-> 0, label |-> 0, summary |-> 0]
TornFile == [NoFile EXCEPT !.status = "torn"]

\* The options, and the settings of a new connection.
NoRun == [repeats |-> 1, resume |-> FALSE, off |-> {}, path |-> <<"public">>,
          label |-> 0, summary |-> 0]

\* A file of a corpus has the name of its query and its variant.
Cell(c, q, v) == [corpus |-> c, query |-> q, variant |-> v]

----------------------------------------------------------------------------
(* The scripts.  "of" is the benchmark the queries are written for.        *)

\* collect_data.py knows no variants and leaves the session as it is.
RawCollector   == [of |-> "demo", path |-> <<"public">>, variants |-> <<"default">>,
                   repeats |-> {1}, resumes |-> {FALSE}]
TpchCollector  == [of |-> "tpch", path |-> <<"tpch", "public">>,
                   variants |-> VariantNames, repeats |-> LabelRuns, resumes |-> {FALSE}]
ParamCollector == [of |-> "tpch", path |-> <<"tpch", "public">>,
                   variants |-> VariantNames, repeats |-> LabelRuns, resumes |-> BOOLEAN]
TpcdsCollector == [of |-> "tpcds", path |-> <<"tpcds", "public">>,
                   variants |-> VariantNames, repeats |-> {1}, resumes |-> {FALSE}]
\* The tables of JOB are in public and no script here touches them.
JobCollector   == [of |-> "job", path |-> <<"public">>,
                   variants |-> VariantNames, repeats |-> LabelRuns, resumes |-> {FALSE}]

Collector(c) ==
    CASE c = "raw"    -> RawCollector
      [] c = "plans"  -> TpchCollector
      [] c = "param"  -> ParamCollector
      [] c = "ds"     -> TpcdsCollector
      [] c = "job"    -> JobCollector

\* The cells of a corpus, query after query.
CellsOf(c) ==
    FlattenSeq([i \in DOMAIN QueriesOf[c] |->
        [j \in DOMAIN Collector(c).variants |->
            Cell(c, QueriesOf[c][i], Collector(c).variants[j])]])

\* They are those of its queries and its variants.
CellSet(c) ==
    {Cell(c, q, v) : q \in ToSet(QueriesOf[c]), v \in ToSet(Collector(c).variants)}

AllCells == UNION {CellSet(c) : c \in Corpora}

CollectionInit ==
    /\ SchemaInit
    /\ files = [cell \in AllCells |-> NoFile]
    /\ run = NoRun

----------------------------------------------------------------------------
(* Labels.                                                                 *)

MedianOf(s) == (s[(Len(s) + 1) \div 2] + s[Len(s) \div 2 + 1]) \div 2

Kept(times) ==
    LET ordered == SortSeq(times, LAMBDA a, b : a < b)
    IN  IF Len(times) >= 3 THEN Front(ordered) ELSE ordered

\* Seeded fault: the summary keeps the time of the first, cold execution.
LabelOfCold(times) ==
    [label   |-> IF Len(times) = 1 THEN times[1] ELSE MedianOf(Kept(times)),
     summary |-> times[1]]

\* With repeats the median goes into the envelope the summary is taken from.
LabelOf(times) ==
    IF Len(times) = 1 THEN [label |-> times[1], summary |-> times[1]]
    ELSE [label |-> MedianOf(Kept(times)), summary |-> MedianOf(Kept(times))]

----------------------------------------------------------------------------
(* One script.                                                             *)

\* Unqualified names resolve to the first schema of the path that has them.
Resolved(path, t) ==
    LET hits == SelectSeq(path, LAMBDA s : Has(db, s, t))
    IN  IF hits = <<>> THEN Absent ELSE db[hits[1]][t]

TablesRead(c, q) ==
    (IF q \in ReadsCustomer THEN {"customer"} ELSE {})
        \cup (CASE c = "ds" -> {"store_sales"} [] c = "job" -> {} [] OTHER -> {"orders"})

\* A query fails on a table that is not there or has other columns.
Resolves(cell) ==
    \A t \in TablesRead(cell.corpus, cell.query) :
        Resolved(run.path, t).of = Collector(cell.corpus).of

StartCollector(c) ==
    /\ Starts(c, "next", CellsOf(c))
    /\ \E repeats \in Collector(c).repeats, resume \in Collector(c).resumes :
        run' = [NoRun EXCEPT !.repeats = repeats, !.resume = resume]
    /\ UNCHANGED <<db, csvs, schemaFile, files>>

Collecting(at) ==
    /\ script.name \in Corpora
    /\ script.at = at
    /\ script.left # <<>>

Current == Head(script.left)
NextCell == script' = [script EXCEPT !.at = "next", !.left = Tail(@)]

\* --resume asks whether the file exists, not what is in it.
Present(cell) == run.resume /\ files[cell] # NoFile

Skip ==
    /\ Collecting("next")
    /\ Present(Current)
    /\ NextCell
    /\ UNCHANGED <<db, csvs, schemaFile, scripts, files, run>>

\* Seeded fault: RESET ALL is not sent.
SessionKept(cell) ==
    [run EXCEPT !.off = @ \cup Off(cell.variant), !.path = Collector(cell.corpus).path]

SessionFor(cell) ==
    [run EXCEPT !.off = Off(cell.variant), !.path = Collector(cell.corpus).path]

Configure ==
    /\ Collecting("next")
    /\ ~Present(Current)
    /\ run' = SessionFor(Current)
    /\ GoesTo("explain")
    /\ UNCHANGED <<db, csvs, schemaFile, scripts, files>>

Explain ==
    /\ Collecting("explain")
    /\ Resolves(Current)
    /\ \E times \in Attempts(run.repeats) :
        run' = [run EXCEPT !.label = LabelOf(times).label, !.summary = LabelOf(times).summary]
    /\ GoesTo("open")
    /\ UNCHANGED <<db, csvs, schemaFile, scripts, files>>

\* The statement times out or fails: a file of an earlier run stays.
ExplainFails ==
    /\ Collecting("explain")
    /\ <<Current.query, Current.variant>> \in Slow \/ ~Resolves(Current)
    /\ NextCell
    /\ UNCHANGED <<db, csvs, schemaFile, scripts, files, run>>

\* write_text() truncates the file of its name, then writes.
OpenFile ==
    /\ Collecting("open")
    /\ files' = [files EXCEPT ![Current] = TornFile]
    /\ GoesTo("write")
    /\ UNCHANGED <<db, csvs, schemaFile, scripts, run>>

WriteFile ==
    /\ Collecting("write")
    /\ files' = [files EXCEPT ![Current] =
                    [status |-> "written", off |-> run.off,
                     customer |-> IF Current.query \in ReadsCustomer
                                  THEN Resolved(run.path, "customer").loads ELSE 0,
                     label |-> run.label, summary |-> run.summary]]
    /\ NextCell
    /\ UNCHANGED <<db, csvs, schemaFile, scripts, run>>

Finish ==
    /\ script.name \in Corpora
    /\ script.left = <<>>
    /\ Ends
    /\ run' = NoRun
    /\ UNCHANGED <<db, csvs, schemaFile, scripts, files>>

\* The other scripts; a collector may be killed like them.
OtherScript ==
    /\ SchemaNext
    /\ run' = NoRun
    /\ UNCHANGED files

CollectionStep ==
    \/ \E c \in Corpora : StartCollector(c)
    \/ Skip \/ Configure \/ Explain \/ ExplainFails \/ OpenFile \/ WriteFile \/ Finish

CollectionNext == CollectionStep \/ OtherScript

CollectionSpec == CollectionInit /\ [][CollectionNext]_collectionVars

----------------------------------------------------------------------------
(* The knob columns of the row of a plan, which are taken from the name of *)
(* its file, say which join methods were off when the plan was measured,   *)
(* whatever sessions and scripts came before: the rows of plan pairs that  *)
(* look alike differ in nothing else.                                      *)
RowsTellTheKnobs ==
    \A cell \in AllCells : files[cell].status = "written" =>
        KnobState(cell.variant) =
            [enable_hashjoin  |-> IF "no_hashjoin" \in files[cell].off THEN 0 ELSE 1,
             enable_mergejoin |-> IF "no_mergejoin" \in files[cell].off THEN 0 ELSE 1,
             enable_nestloop  |-> IF "no_nestloop" \in files[cell].off THEN 0 ELSE 1]
=============================================================================
