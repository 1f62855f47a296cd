---------------------------- MODULE TrainingRows ----------------------------
(***************************************************************************)
(* From the plan files the gate has looked at to the training set: the     *)
(* extraction that turns each file into a feature row                      *)
(* (extract_features.py) and what the rows are good for.  The extraction   *)
(* is a function of the files, so it is an operator here and the           *)
(* properties hold it against the gate in every state in which no script   *)
(* is writing.                                                             *)
(***************************************************************************)
EXTENDS DatasetGate, PlanFeatures

CONSTANTS
    Analyzed(_, _)      \* the plan of a query with some join methods off, and its planning time

ASSUME RowsAssumption ==
    /\ ToSet(VariantNames) \subseteq Variants
    /\ \A cell \in AllCells, off \in SUBSET ToSet(VariantNames) :
          PlanTree(Analyzed(cell.query, off).tree)

\* The record of a cell measured with some join methods off.
Record(cell, off, label) ==
    [query |-> cell.query, variant |-> cell.variant, wall |-> label,
     plan |-> [tree |-> Analyzed(cell.query, off).tree,
               planning |-> Analyzed(cell.query, off).planning, execution |-> label]]

Labels == UNION {{LabelOf(times).label : times \in Attempts(n)} : n \in LabelRuns \cup {1}}

RowOf(cell) == ExtractFeatures(Record(cell, files[cell].off, files[cell].label))

\* The features of a record whose value at the service is not the one of training.
SkewedFeatures(record) ==
    LET row    == ExtractFeatures(record)
        names  == DOMAIN row \ Dropped
        served == AlignFeatures(names, ServedRow(record.plan, record.variant))
    IN  {c \in names : served[c] # row[c]}

\* Those features for every measurement a file may hold.
Skews == {<<m, SkewedFeatures(Record(m[1], m[2], m[3]))>> :
            m \in AllCells \X (SUBSET ToSet(VariantNames)) \X Labels}

\* A file that load_plan_record() cannot read fails, and the others go on.
Extracted(cells)    == {cell \in cells : files[cell].status = "written"}
ExtractFails(cells) == {cell \in cells : files[cell].status = "torn"}

----------------------------------------------------------------------------
(* When the gate calls the corpus trustworthy, every file in it becomes a  *)
(* row, the label of each row is the time the gate has looked at, every    *)
(* query is one the evaluation of plan picks has a choice for, and a model *)
(* trained on the corpus has a feature that tells the sessions apart.      *)
TrustedIsUsable ==
    (Quiet /\ Trusted) =>
        LET cells == Extracted(Gated)
            rows  == {RowOf(cell) : cell \in cells}
        IN  /\ ExtractFails(Gated) = {}
            /\ \A cell \in cells : RowOf(cell).execution_time_ms = files[cell].summary
            /\ Expected \subseteq GroupsEvaluated(rows)
            /\ FeatureNames(rows) \cap DOMAIN KnobState("default") # {}

(* A model of the plan_time regime, whichever columns the corpus leaves it *)
(* as features, sees of a plan at the service what it saw in training: no  *)
(* feature depends on what the execution reported.  The planning time is   *)
(* the one exception: a plain EXPLAIN does not report it, and the model    *)
(* reads 0.                                                                *)
PlanTimeBlind ==
    Quiet => \A cell \in Extracted(AllCells) :
        LET off   == files[cell].off
            skews == IF Analyzed(cell.query, off).planning = 0 THEN {} ELSE {"planning_time_ms"}
        IN  <<<<cell, off, files[cell].label>>, skews>> \in Skews
=============================================================================
