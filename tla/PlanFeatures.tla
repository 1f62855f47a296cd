---------------------------- MODULE PlanFeatures ----------------------------
(***************************************************************************)
(* The feature rows of plans: plan_parser.py, feature_utils.py and         *)
(* extract_features.py (feature_engineering), the choice of the columns a  *)
(* model is trained on (phase3a/feature_selection.py) and the row the ML   *)
(* service gives that model (ml_service/inference.py).                     *)
(*                                                                         *)
(* A node is a record with the fields the extractor reads; a field EXPLAIN *)
(* does not report is 0, as safe_num() makes it.  A column computed as a   *)
(* logarithm, a ratio or a deviation is represented by the values it is    *)
(* computed from.  One column stands for the five sums over blocks.        *)
(***************************************************************************)
EXTENDS PlanVariants, PlanTrees

\* The fields the extractor reads: the estimates, then what an execution adds.
PlanNodes ==
    [type : STRING, cost : Nat, startup : Nat, rows : Nat,
     actual : Nat, time : Nat, loops : Nat, filtered : Nat, blocks : Nat, launched : Nat]

PlanTree(tree) == IsTree(tree) /\ tree \in [DOMAIN tree -> PlanNodes]

----------------------------------------------------------------------------
(* The reducers over the nodes of a plan.                                  *)

\* reduce_subtree() with "sum" and with "max", which both begin with 0.
SumOver(plan, field) == FoldLeft(LAMBDA acc, v : acc + v, 0, NodeValues(plan, field))
MaxOver(plan, field) == Max({0} \cup ToSet(NodeValues(plan, field)))

ScanNodes == {"Seq Scan", "Index Scan", "Index Only Scan", "Bitmap Index Scan",
              "Bitmap Heap Scan", "Tid Scan", "CTE Scan", "Subquery Scan",
              "Function Scan", "Values Scan", "Table Function Scan", "Foreign Scan",
              "Sample Scan", "Named Tuplestore Scan", "WorkTable Scan"}
JoinNodes == {"Hash Join", "Merge Join", "Nested Loop"}
AggNodes  == {"Aggregate", "HashAggregate", "GroupAggregate", "WindowAgg"}
SortNodes == {"Sort", "Incremental Sort"}
TrackedNodeTypes ==
    {"Seq Scan", "Index Scan", "Index Only Scan", "Bitmap Index Scan",
     "Bitmap Heap Scan", "Hash", "Materialize", "Limit", "Gather", "Gather Merge",
     "Unique", "WindowAgg"} \cup JoinNodes \cup SortNodes \cup (AggNodes \ {"WindowAgg"})

CountOf(plan, types) ==
    LET seen == NodeValues(plan, "type") IN Cardinality({i \in DOMAIN seen : seen[i] \in types})

\* init_counter_dict() and bump().
Counters(plan) == [t \in TrackedNodeTypes |-> CountOf(plan, {t})]

----------------------------------------------------------------------------
(* One row.  A record has the query, the variant, the wall time and the    *)
(* envelope EXPLAIN returned.                                              *)

\* {**row, **more}
Merged(row, more) ==
    [c \in DOMAIN row \cup DOMAIN more |-> IF c \in DOMAIN more THEN more[c] ELSE row[c]]

\* The metrics of the estimates alone.
EstimateFeatures(rows) ==
    LET estimates == SelectSeq(rows, LAMBDA r : r > 0)
        most  == Max({0} \cup ToSet(estimates))
        least == IF estimates = <<>> THEN 0 ELSE Min(ToSet(estimates))
    IN  [plan_rows_max_node         |-> most,
         plan_rows_min_nonzero_node |-> least,
         plan_rows_std_to_mean      |-> estimates,
         plan_rows_log_range        |-> <<most, least>>]

\* Those that hold the estimates against what was counted.
MisestimateFeatures(rows, actuals) ==
    LET ratios == SelectSeq([i \in DOMAIN rows |-> <<actuals[i], rows[i]>>],
                            LAMBDA r : r[1] > 0 /\ r[2] > 0)
    IN  [card_misestimate_max  |-> ToSet(ratios),
         card_misestimate_mean |-> ratios,
         card_underest_count   |-> Len(SelectSeq(ratios, LAMBDA r : r[1] > 10 * r[2])),
         card_overest_count    |-> Len(SelectSeq(ratios, LAMBDA r : r[2] > 10 * r[1]))]

CardinalityFeatures(plan) ==
    Merged(EstimateFeatures(NodeValues(plan, "rows")),
           MisestimateFeatures(NodeValues(plan, "rows"), NodeValues(plan, "actual")))

\* The columns of the envelope, of the root and of the reducers.
BaseFeatures(record) ==
    LET tree == record.plan.tree
        root == tree[<<>>]
        cost == MaxOver(tree, "cost")
        size == TreeSize(tree)
    IN  [query_id                     |-> record.query,
         variant                      |-> record.variant,
         tree_depth                   |-> TreeDepth(tree),
         total_nodes                  |-> size,
         num_scans                    |-> CountOf(tree, ScanNodes),
         num_joins                    |-> CountOf(tree, JoinNodes),
         num_aggregates               |-> CountOf(tree, AggNodes),
         num_sorts                    |-> CountOf(tree, SortNodes),
         operator_counts              |-> Counters(tree),
         estimated_total_cost         |-> root.cost,
         estimated_startup_cost       |-> root.startup,
         estimated_rows               |-> root.rows,
         actual_rows                  |-> root.actual,
         actual_total_time_ms         |-> root.time,
         planning_time_ms             |-> record.plan.planning,
         execution_time_ms            |-> record.plan.execution,
         wall_time_ms                 |-> record.wall,
         root_node_type               |-> root.type,
         max_subtree_cost             |-> cost,
         max_actual_loops             |-> MaxOver(tree, "loops"),
         total_rows_removed_by_filter |-> SumOver(tree, "filtered"),
         parallel_worker_count        |-> SumOver(tree, "launched"),
         sum_shared_hit_blocks        |-> SumOver(tree, "blocks"),
         log1p_max_subtree_cost       |-> <<cost, size>>,
         cost_per_estimated_row       |-> <<root.cost, root.rows>>,
         startup_to_total_ratio       |-> <<root.startup, root.cost>>,
         max_to_root_cost_ratio       |-> <<cost, root.cost>>,
         est_rows_per_node            |-> <<root.rows, size>>,
         target_execution_time_ms     |-> record.plan.execution]

ExtractFeatures(record) ==
    Merged(Merged(BaseFeatures(record), KnobState(record.variant)),
           CardinalityFeatures(record.plan.tree))

----------------------------------------------------------------------------
(* The columns a model of the plan_time regime is trained on.              *)

IdColumns    == {"query_id", "variant"}
TargetColumn == "execution_time_ms"

PostExecution ==
    {"actual_rows", "actual_total_time_ms", "max_actual_loops",
     "total_rows_removed_by_filter", "parallel_worker_count",
     "sum_shared_hit_blocks", "wall_time_ms", "target_execution_time_ms"}

\* Seeded fault: the cardinality columns of Phase 3E are forgotten.
LeakyOfPhase3A == PostExecution

LeakyColumns ==
    PostExecution \cup {"card_misestimate_max", "card_misestimate_mean",
                        "card_underest_count", "card_overest_count"}

Dropped == IdColumns \cup LeakyColumns \cup {TargetColumn}

\* A column with one value in all rows is dropped too.
FeatureNames(rows) ==
    {c \in (UNION {DOMAIN r : r \in rows}) \ Dropped :
        Cardinality({r[c] : r \in rows}) > 1}

\* The row the service gives a model with those features.
AlignFeatures(names, row) ==
    [c \in names |-> IF c \in DOMAIN row \ Dropped THEN row[c] ELSE 0]

\* What EXPLAIN without ANALYZE reports of the same plan.
PlainNode(n) ==
    [n EXCEPT !.actual = 0, !.time = 0, !.loops = 0, !.filtered = 0, !.blocks = 0, !.launched = 0]

Plain(tree) == [p \in DOMAIN tree |-> PlainNode(tree[p])]

ServedRow(plan, variant) ==
    ExtractFeatures([query |-> "online", variant |-> variant, wall |-> 0,
                     plan |-> [tree |-> Plain(plan.tree),
                               planning |-> 0, execution |-> 0]])

----------------------------------------------------------------------------
(* The evaluation of plan picks looks at queries with a choice.            *)

GroupsEvaluated(rows) ==
    {q \in {r.query_id : r \in rows} : Cardinality({r \in rows : r.query_id = q}) >= 2}
=============================================================================
