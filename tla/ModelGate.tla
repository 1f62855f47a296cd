------------------------------ MODULE ModelGate ------------------------------
(***************************************************************************)
(* Which model the trainer selects and which one the promotion gate lets   *)
(* replace the current one: evaluate_plan_pick() (phase3b/plan_pick.py),   *)
(* run_cv() and the choice of the winner (phase3b/train_models.py),        *)
(* evaluate_model() (scripts/evaluate_baseline.py), evaluate_candidate()   *)
(* and decide() (automl_service/promotion.py).                             *)
(*                                                                         *)
(* All are functions of the training set and of what a model predicts for  *)
(* its rows.  A row is an execution: the corpus has each variant of a      *)
(* query once, the feedback merged into it repeats the statement and the   *)
(* variant of every request.  The trainer and the gate fit the same        *)
(* estimator on the same folds, so a model has one raw prediction for each *)
(* row, whichever of them asks.  The bootstrap and the q-error are         *)
(* statistics that the picks do not determine: their verdicts are open.    *)
(***************************************************************************)
EXTENDS Integers, FiniteSets, Functions

CONSTANTS
    Datasets,       \* training sets: sequences of rows [query, variant, time]
    Raw,            \* the predictions before the trainer clips them
    Floor, Ceiling, \* what it clips them to
    Folds,          \* n_splits of GroupKFold
    Tenth,          \* so many units of time are a tenth of a millisecond
    MaxRegret,      \* max_regret_regression_ms, in tenths
    Penalty         \* what the regret of no incumbent is more, in tenths

ASSUME ModelGateAssumption ==
    /\ Raw \subseteq Nat /\ Floor \in Nat /\ Ceiling \in Nat /\ Floor <= Ceiling
    /\ Folds \in Nat /\ Tenth \in Nat \ {0} /\ MaxRegret \in Nat /\ Penalty \in Nat
    /\ \A rows \in Datasets :
          /\ DOMAIN rows \subseteq Nat /\ IsFiniteSet(DOMAIN rows)
          /\ \A i \in DOMAIN rows : rows[i].time \in Nat

----------------------------------------------------------------------------
(* evaluate_plan_pick().                                                   *)

Members(rows, q) == {i \in DOMAIN rows : rows[i].query = q}

Queries(rows) == {rows[i].query : i \in DOMAIN rows}

\* groupby() and "no choice to make", which looks at the number of rows.
Groups(rows) == {q \in Queries(rows) : Cardinality(Members(rows, q)) >= 2}

\* idxmin(): the first of the least.
IdxMin(f, S) == CHOOSE i \in S : \A j \in S : f[i] < f[j] \/ (f[i] = f[j] /\ i <= j)

\* Seeded fault: the pick is compared by its row.
HitOfRow(rows, best, pick) == best = pick

Hit(rows, best, pick) == rows[best].variant = rows[pick].variant

\* The groups, those whose pick is a hit, and the regret of all picks.
EvaluatePlanPick(rows, pred) ==
    LET time == [i \in DOMAIN rows |-> rows[i].time]
        best == [q \in Groups(rows) |-> IdxMin(time, Members(rows, q))]
        pick == [q \in Groups(rows) |-> IdxMin(pred, Members(rows, q))]
    IN  [groups |-> Groups(rows),
         hits   |-> {q \in Groups(rows) : Hit(rows, best[q], pick[q])},
         regret |-> FoldFunction(+, 0, [q \in Groups(rows) |-> time[pick[q]] - time[best[q]]])]

----------------------------------------------------------------------------
(* The trainer.                                                            *)

\* A prediction that is not finite becomes the ceiling, too.
Clip(p) == IF p < Floor THEN Floor ELSE IF p > Ceiling THEN Ceiling ELSE p

RunCV(rows, raw) == EvaluatePlanPick(rows, [i \in DOMAIN raw |-> Clip(raw[i])])

\* The winner has the best accuracy of the zoo, whatever breaks a tie.
Selects(cv, other) == Cardinality(cv.hits) >= Cardinality(other.hits)

----------------------------------------------------------------------------
(* The gate.                                                               *)

\* GroupKFold() wants a query for each fold, and the report has no column "hit" when it
\* has no group: either raises, and the retrain has failed.
Evaluable(rows) == Cardinality(Queries(rows)) >= Folds /\ Groups(rows) # {}

\* round() of n / d, half way to the even one.  (Where n / d is no double, half way goes
\* by its last bit.)
Rounded(n, d) ==
    LET q == n \div d
        r == n % d
    IN  IF 2 * r > d \/ (2 * r = d /\ q % 2 = 1) THEN q + 1 ELSE q

\* plan_pick has four decimals, regret_mean_ms has one.
EvaluateModel(rows, raw) ==
    LET report == EvaluatePlanPick(rows, raw)
        groups == Cardinality(report.groups)
    IN  [hits       |-> report.hits,
         planPick   |-> Rounded(10000 * Cardinality(report.hits), groups),
         regretMean |-> Rounded(report.regret, Tenth * groups)]

\* What evaluate_candidate() takes for the incumbent when there is none.
NoIncumbent(cand) ==
    [cand EXCEPT !.hits = {}, !.planPick = 0, !.regretMean = @ + Penalty]

MetricsValid(cand)      == cand.planPick \in 0 .. 10000
PlanPickGain(cand, inc) == cand.planPick >= inc.planPick
RegretKept(cand, inc)   == cand.regretMean - inc.regretMean <= MaxRegret

\* statistics: the verdicts of the confidence bound and of the q-error.
Decide(cand, inc, statistics) ==
    /\ MetricsValid(cand)
    /\ PlanPickGain(cand, inc)
    /\ RegretKept(cand, inc)
    /\ statistics

----------------------------------------------------------------------------
(* What the property in DatasetGate says of a training set.                *)

\* The queries that do offer a choice.
WithChoice(rows) ==
    {q \in Groups(rows) : Cardinality({rows[i].variant : i \in Members(rows, q)}) >= 2}

\* Clipping merges no two predictions of one query.
ClipKeeps(rows, raw) ==
    \A i, j \in DOMAIN rows :
        rows[i].query = rows[j].query /\ Clip(raw[i]) = Clip(raw[j]) => raw[i] = raw[j]

Models(rows) ==
    {[cv |-> RunCV(rows, raw), gate |-> EvaluateModel(rows, raw), kept |-> ClipKeeps(rows, raw)] :
        raw \in [DOMAIN rows -> Raw]}

\* As many of the hits where there is a choice, but for one in each 10000 groups.
PicksAsWell(rows, hits, others) ==
    10000 * (Cardinality(others \cap WithChoice(rows)) - Cardinality(hits \cap WithChoice(rows)))
        <= Cardinality(Groups(rows))

\* A candidate the gate promotes picks the fastest variant where there is a
\* choice in as many queries as the incumbent, but for one in each 10000
\* groups, which the rounding hides; what the trainer selects passes the
\* plan-pick rule against every other model it tried, unless clipping merged
\* predictions; and a first model passes, however it picks.
Follows(rows) ==
    \A c, i \in Models(rows) :
        /\ Decide(c.gate, i.gate, TRUE) => PicksAsWell(rows, c.gate.hits, i.gate.hits)
        /\ c.kept /\ i.kept /\ Selects(c.cv, i.cv) => PlanPickGain(c.gate, i.gate)
        /\ Decide(c.gate, NoIncumbent(c.gate), TRUE)

AllFollow == \A rows \in Datasets : Evaluable(rows) => Follows(rows)
=============================================================================
