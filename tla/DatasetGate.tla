----------------------------- MODULE DatasetGate -----------------------------
(***************************************************************************)
(* The gate over the collected corpus (scripts/validate_dataset.py), which *)
(* is a function of the plan files, and the promotion gate of ModelGate    *)
(* over what is trained on it.                                             *)
(***************************************************************************)
EXTENDS PlanCollection, ModelGate

CONSTANTS
    BaseOf(_),          \* the query template of a parameterized query
    Tolerance           \* percent of the plans that may be missing

ASSUME GateAssumption == "param" \in Corpora /\ Tolerance \in 0 .. 100

----------------------------------------------------------------------------
(* validate_dataset.py.                                                    *)

Gated    == CellSet("param")
Expected == ToSet(QueriesOf["param"])

Found     == {cell \in Gated : files[cell] # NoFile}
Collected == {cell \in Gated : files[cell].status = "written"}
Missing   == Gated \ Collected

\* Seeded fault: a file that is not JSON is skipped without a word.
CorruptUnnoticed == {}

Corrupt == {cell \in Gated : files[cell].status = "torn"}

Unusable == {q \in Expected : Cardinality({cell \in Collected : cell.query = q}) < 2}

Trusted ==
    /\ Found # {}
    /\ Corrupt = {}
    /\ Unusable = {}
    /\ 100 * Cardinality(Missing) <= Tolerance * Cardinality(Gated)
    /\ {BaseOf(q) : q \in Expected} \subseteq {BaseOf(cell.query) : cell \in Collected}
    /\ Collected # {}
    /\ \A cell \in Collected : files[cell].summary > 0
    /\ \E cell \in Collected : cell.query \in ReadsCustomer /\ files[cell].customer > 0

----------------------------------------------------------------------------
(* The properties are about the times at which an operator runs the gate   *)
(* and the extraction: no other script is running.                         *)
Quiet == script = NoScript

(* When the gate calls the corpus trustworthy, no file of it is torn, and  *)
(* of every query it has plans that were measured in sessions with         *)
(* different join methods off, whatever was killed and resumed before.     *)
TrustedOffersChoice ==
    (Quiet /\ Trusted) =>
        /\ \A cell \in Gated : files[cell].status # "torn"
        /\ \A q \in Expected : \E a, b \in Collected :
              a.query = q /\ b.query = q /\ files[a].off # files[b].off

(* Rows of one and the same variant count as groups of the plan-pick       *)
(* metric, for every model alike and always as hits: with those that the   *)
(* feedback adds the gate still promotes by the queries that offer a       *)
(* choice, up to one in each 10000 groups, since it compares accuracies    *)
(* that are rounded to four decimals; and it agrees with the trainer about *)
(* which model is better.  Fewer queries than folds, or none with two      *)
(* rows, are not evaluated at all.                                         *)
GateFollowsChoices == Quiet => AllFollow
=============================================================================
