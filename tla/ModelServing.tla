---------------------------- MODULE ModelServing ----------------------------
(***************************************************************************)
(* Serving, caching and hot swap in the replicas of the ML service         *)
(* (services/ml_service: server.py, inference.py, plan_pick.py, cache.py,  *)
(* cache_backend.py).  Requests and reloads run on a thread pool: a        *)
(* request keeps the picker it began with, looks its query up in the       *)
(* picker's cache, then every variant in the predictor's cache, and fills  *)
(* both; a reload builds a Predictor and a PlanPicker and swaps them in,   *)
(* while promotions move the registry's pointer.                           *)
(*                                                                         *)
(* A prediction is represented by the model that computed it, a ranking by *)
(* the set of models whose predictions it compares.  One regime and one    *)
(* query; the candidates of a query are the variants.                      *)
(***************************************************************************)
EXTENDS Naturals, Sequences, FiniteSets

CONSTANTS
    Replicas,     \* replicas of the service
    Requests,     \* the threads that run requests
    Reloaders,    \* the threads that run reloads
    Variants,     \* plan variants of the query
    Versions,     \* the versions in the model registry
    MaxPromotes,  \* bound: how often the pointer moves
    MaxReloads,   \* bound: how many reloads begin
    MaxFallbacks  \* bound: how many objects are built while Redis does not answer

ASSUME ServingAssumption ==
    /\ IsFiniteSet(Replicas) /\ Replicas # {} /\ Versions # {}
    /\ Requests \cap Reloaders = {}
    /\ Variants \subseteq Nat \ {0} /\ IsFiniteSet(Variants) /\ Variants # {}
    /\ MaxPromotes \in Nat /\ MaxReloads \in Nat
    /\ MaxFallbacks \in Nat

VARIABLES
    shared,      \* CACHE_BACKEND=redis
    pointer,     \* the registry's current version
    moves,       \* how often the pointer has moved
    models,      \* the Predictor objects built so far
    rankers,     \* the PlanPicker objects built so far
    memo,        \* _predictors of each replica: an index of models, or 0
    predictors,  \* app.state.predictors: an index of models
    pickers,     \* app.state.pickers: an index of rankers
    redis,       \* the shared cache
    pc, job,     \* where each call is, and what it has in hand
    reloads,     \* how many reloads have begun
    fresh        \* history, see SerialReloadsApply

Calls == Requests \cup Reloaders

registry == <<pointer, moves>>
state    == <<models, rankers, memo, predictors, pickers>>
vars     == <<shared, registry, state, redis, pc, job, reloads, fresh>>

\* The key of the query in the cache of a picker.
Query == 0
Keys  == Variants \cup {Query}

\* A cache entry: who computed it ({}: no entry), and is it nearly expired.
Entry   == [by : SUBSET Versions, old : BOOLEAN]
NoEntry == [by |-> {}, old |-> FALSE]

\* fresh[r] once two reloads of r have overlapped.
Overlapped == [since |-> {}, pending |-> {}]

Model  == [model : Versions, remote : BOOLEAN, cache : [Variants -> Entry]]
Ranker == [of : Nat, remote : BOOLEAN, cached : Entry]

Job  == [at : Replicas, use : Nat, ranker : Nat,
         todo : SUBSET Variants, seen : SUBSET Versions]
Idle == [at |-> CHOOSE r \in Replicas : TRUE, use |-> 0, ranker |-> 0,
         todo |-> {}, seen |-> {}]

Requesting == {"query", "score", "infer", "reply"}
Reloading  == {"build", "warm", "swapPredictors", "swapPickers"}

----------------------------------------------------------------------------
(* Registry and caches                                                     *)

\* CACHE_BACKEND=redis falls back to a local cache when Redis does not answer.
Fallbacks == Cardinality({m \in DOMAIN models : ~models[m].remote})
             + Cardinality({k \in DOMAIN rankers : ~rankers[k].remote})

BackendChoices == IF shared /\ Fallbacks < MaxFallbacks THEN BOOLEAN ELSE {shared}

NewModel(model, remote) ==
    [model |-> model, remote |-> remote, cache |-> [v \in Variants |-> NoEntry]]

NewRanker(m, remote) == [of |-> m, remote |-> remote, cached |-> NoEntry]

\* The entry a call finds; an eviction or an error of Redis makes it a miss.
Prediction(m, v) == IF models[m].remote THEN redis[v] ELSE models[m].cache[v]
Ranking(k)       == IF rankers[k].remote THEN redis[Query] ELSE rankers[k].cached

\* An entry is written with a full time to live.  An error of Redis is
\* swallowed.
SharedSet(key, by) ==
    \/ redis' = [redis EXCEPT ![key] = [by |-> by, old |-> FALSE]]
    \/ UNCHANGED redis

SetPrediction(m, v, by) ==
    \/ /\ models[m].remote
       /\ SharedSet(v, by)
       /\ UNCHANGED models
    \/ /\ ~models[m].remote
       /\ models' = [models EXCEPT ![m].cache[v] = [by |-> by, old |-> FALSE]]
       /\ UNCHANGED redis

SetRanking(k, by) ==
    \/ /\ rankers[k].remote
       /\ SharedSet(Query, by)
       /\ UNCHANGED rankers
    \/ /\ ~rankers[k].remote
       /\ rankers' = [rankers EXCEPT ![k].cached = [by |-> by, old |-> FALSE]]
       /\ UNCHANGED redis

\* cache.clear() of a predictor: the namespace of the regime, or its own cache.
ClearPredictions(m) ==
    \/ /\ models[m].remote
       /\ \/ redis' = [k \in Keys |-> IF k \in Variants THEN NoEntry ELSE redis[k]]
          \/ UNCHANGED redis
       /\ UNCHANGED models
    \/ /\ ~models[m].remote
       /\ models' = [models EXCEPT ![m].cache = [v \in Variants |-> NoEntry]]
       /\ UNCHANGED redis

----------------------------------------------------------------------------
\* The service has started: every replica has loaded a model and warmed it up.
Init ==
    /\ shared \in BOOLEAN
    /\ pointer = CHOOSE v \in Versions : TRUE
    /\ moves = 0
    /\ \E index \in [Replicas -> 1 .. Cardinality(Replicas)] :
          /\ \A r, s \in Replicas : index[r] = index[s] => r = s
          /\ memo = index /\ predictors = index /\ pickers = index
    /\ models = [i \in 1 .. Cardinality(Replicas) |-> NewModel(pointer, shared)]
    /\ rankers = [i \in 1 .. Cardinality(Replicas) |-> NewRanker(i, shared)]
    /\ redis = [k \in Keys |-> NoEntry]
    /\ pc = [t \in Calls |-> "idle"]
    /\ job = [t \in Calls |-> Idle]
    /\ reloads = 0
    /\ fresh = [r \in Replicas |-> [since |-> {pointer}, pending |-> {}]]

Go(t, from, to) ==
    /\ pc[t] = from
    /\ pc' = [pc EXCEPT ![t] = to]

----------------------------------------------------------------------------
(* Requests: /predict, /plan-pick and /run-and-learn                       *)

\* Seeded fault: the ranking is cached by the picker, the predictions are made by
\* the predictor installed beside it.
PlanPickMixed(t, r) ==
    /\ Go(t, "idle", "query")
    /\ job' = [job EXCEPT ![t] = [Idle EXCEPT !.ranker = pickers[r], !.use = predictors[r]]]
    /\ UNCHANGED <<shared, registry, state, redis, reloads, fresh>>

\* The handler takes the picker, or the predictor, that is installed by now.
PlanPick(t, r) ==
    /\ Go(t, "idle", "query")
    /\ job' = [job EXCEPT ![t] = [Idle EXCEPT !.ranker = pickers[r],
                                              !.use = rankers[pickers[r]].of]]
    /\ UNCHANGED <<shared, registry, state, redis, reloads, fresh>>

Predict(t, r, v) ==
    /\ Go(t, "idle", "score")
    /\ job' = [job EXCEPT ![t] = [Idle EXCEPT !.use = predictors[r], !.todo = {v}]]
    /\ UNCHANGED <<shared, registry, state, redis, reloads, fresh>>

\* Seeded fault: a hit renews the entry's time to live.
QueryHitRenews(t) ==
    /\ Go(t, "query", "reply")
    /\ Ranking(job[t].ranker).by # {}
    /\ job' = [job EXCEPT ![t].seen = Ranking(job[t].ranker).by]
    /\ SetRanking(job[t].ranker, Ranking(job[t].ranker).by)
    /\ UNCHANGED <<shared, registry, models, memo, predictors, pickers, reloads, fresh>>

QueryHit(t) ==
    /\ Go(t, "query", "reply")
    /\ Ranking(job[t].ranker).by # {}
    /\ job' = [job EXCEPT ![t].seen = Ranking(job[t].ranker).by]
    /\ UNCHANGED <<shared, registry, state, redis, reloads, fresh>>

\* generate_variants() gives up on some of the variants.
QueryMiss(t) ==
    /\ Go(t, "query", "score")
    /\ \E S \in (SUBSET Variants) \ {{}} : job' = [job EXCEPT ![t].todo = S]
    /\ UNCHANGED <<shared, registry, state, redis, reloads, fresh>>

\* The variant predict_one() is called for next.
NextVariant(t) == CHOOSE v \in job[t].todo : \A w \in job[t].todo : v <= w

Scored(t, by) ==
    job' = [job EXCEPT ![t].todo = @ \ {NextVariant(t)}, ![t].seen = @ \cup by]

ScoreHit(t) ==
    /\ job[t].todo # {}
    /\ Go(t, "score", "score")
    /\ Prediction(job[t].use, NextVariant(t)).by # {}
    /\ Scored(t, Prediction(job[t].use, NextVariant(t)).by)
    /\ UNCHANGED <<shared, registry, state, redis, reloads, fresh>>

ScoreMiss(t) ==
    /\ job[t].todo # {}
    /\ Go(t, "score", "infer")
    /\ UNCHANGED <<shared, registry, state, redis, job, reloads, fresh>>

\* _infer() with the model of the predictor, then cache.set().
Infer(t) ==
    LET m == job[t].use IN
    /\ Go(t, "infer", "score")
    /\ Scored(t, {models[m].model})
    /\ SetPrediction(m, NextVariant(t), {models[m].model})
    /\ UNCHANGED <<shared, registry, rankers, memo, predictors, pickers,
                   reloads, fresh>>

\* A plan or a model that cannot be evaluated raises, and nothing is cached.
InferFails(t) ==
    /\ Go(t, "infer", "idle")
    /\ job' = [job EXCEPT ![t] = Idle]
    /\ UNCHANGED <<shared, registry, state, redis, reloads, fresh>>

\* The winner and the ranking are cached under the query.
Rank(t) ==
    /\ job[t].todo = {} /\ job[t].ranker # 0
    /\ Go(t, "score", "reply")
    /\ SetRanking(job[t].ranker, job[t].seen)
    /\ UNCHANGED <<shared, registry, models, memo, predictors, pickers,
                   job, reloads, fresh>>

Predicted(t) ==
    /\ job[t].todo = {} /\ job[t].ranker = 0
    /\ Go(t, "score", "reply")
    /\ UNCHANGED <<shared, registry, state, redis, job, reloads, fresh>>

Respond(t) ==
    /\ Go(t, "reply", "idle")
    /\ job' = [job EXCEPT ![t] = Idle]
    /\ UNCHANGED <<shared, registry, state, redis, reloads, fresh>>

----------------------------------------------------------------------------
(* POST /admin/reload-models                                               *)

\* The thread that runs the next reload: which of the idle ones makes no difference.
FreeThread == CHOOSE t \in Reloaders : pc[t] = "idle"

ReloadsAt(r) == {t \in Reloaders : pc[t] \in Reloading /\ job[t].at = r}

\* Seeded fault: the memo of the predictors is not dropped.
ReloadMemoized(t, r) ==
    /\ reloads < MaxReloads
    /\ Go(t, "idle", "build")
    /\ t = FreeThread
    /\ job' = [job EXCEPT ![t] = [Idle EXCEPT !.at = r]]
    /\ reloads' = reloads + 1
    /\ fresh' = [fresh EXCEPT ![r] = IF fresh[r] # Overlapped /\ ReloadsAt(r) = {}
                                     THEN [@ EXCEPT !.pending = {pointer}] ELSE Overlapped]
    /\ UNCHANGED <<shared, registry, state, redis>>

\* reset_predictors()
Reload(t, r) ==
    /\ reloads < MaxReloads
    /\ Go(t, "idle", "build")
    /\ t = FreeThread
    /\ job' = [job EXCEPT ![t] = [Idle EXCEPT !.at = r]]
    /\ memo' = [memo EXCEPT ![r] = 0]
    /\ reloads' = reloads + 1
    /\ fresh' = [fresh EXCEPT ![r] = IF fresh[r] # Overlapped /\ ReloadsAt(r) = {}
                                     THEN [@ EXCEPT !.pending = {pointer}] ELSE Overlapped]
    /\ UNCHANGED <<shared, registry, models, rankers, predictors, pickers, redis>>

\* get_predictor(), which holds _init_lock: another reload has built one in the
\* meantime,
GetMemo(t) ==
    LET r == job[t].at IN
    /\ memo[r] # 0
    /\ Go(t, "build", "warm")
    /\ job' = [job EXCEPT ![t].use = memo[r]]
    /\ UNCHANGED <<shared, registry, state, redis, reloads, fresh>>

\* or the current version is resolved, its artifact loaded, and memoized,
Load(t) ==
    LET r == job[t].at IN
    /\ memo[r] = 0
    /\ Go(t, "build", "warm")
    /\ \E remote \in BackendChoices : models' = Append(models, NewModel(pointer, remote))
    /\ memo' = [memo EXCEPT ![r] = Len(models) + 1]
    /\ job' = [job EXCEPT ![t].use = Len(models) + 1]
    /\ UNCHANGED <<shared, registry, rankers, predictors, pickers, redis, reloads, fresh>>

\* or the load fails (500: the models of before stay).
LoadFails(t) ==
    LET r == job[t].at IN
    /\ memo[r] = 0
    /\ Go(t, "build", "idle")
    /\ job' = [job EXCEPT ![t] = Idle]
    /\ fresh' = [fresh EXCEPT ![r].pending = {}]
    /\ UNCHANGED <<shared, registry, state, redis, reloads>>

\* The new PlanPicker, and the warm-up, which clears the predict cache when the
\* dummy prediction worked.
WarmUp(t) ==
    /\ Go(t, "warm", "swapPredictors")
    /\ \E remote \in BackendChoices :
          rankers' = Append(rankers, NewRanker(job[t].use, remote))
    /\ job' = [job EXCEPT ![t].ranker = Len(rankers) + 1]
    /\ ClearPredictions(job[t].use) \/ UNCHANGED <<models, redis>>
    /\ UNCHANGED <<shared, registry, memo, predictors, pickers, reloads, fresh>>

SwapPredictors(t) ==
    /\ Go(t, "swapPredictors", "swapPickers")
    /\ predictors' = [predictors EXCEPT ![job[t].at] = job[t].use]
    /\ UNCHANGED <<shared, registry, models, rankers, memo, pickers, redis, job,
                   reloads, fresh>>

SwapPickers(t) ==
    LET r == job[t].at IN
    /\ Go(t, "swapPickers", "idle")
    /\ pickers' = [pickers EXCEPT ![r] = job[t].ranker]
    /\ job' = [job EXCEPT ![t] = Idle]
    /\ fresh' = [fresh EXCEPT ![r] = IF fresh[r] = Overlapped THEN @
                                     ELSE [since |-> @.pending, pending |-> {}]]
    /\ UNCHANGED <<shared, registry, models, rankers, memo, predictors, redis,
                   reloads>>

----------------------------------------------------------------------------
(* The retraining worker, and the clock of Redis                           *)

\* A registered version becomes current; a rollback names an earlier one.
Promote ==
    /\ moves < MaxPromotes
    /\ \E v \in Versions : v # pointer /\ pointer' = v
    /\ moves' = moves + 1
    /\ fresh' = [r \in Replicas |-> 
            IF fresh[r] = Overlapped THEN Overlapped
            ELSE [since   |-> fresh[r].since \cup {pointer'},
                  pending |-> IF ReloadsAt(r) = {} THEN {} ELSE fresh[r].pending \cup {pointer'}]]
    /\ UNCHANGED <<shared, state, redis, pc, job, reloads>>

\* Time passes: an entry expires one to two ticks after it was set.
Tick ==
    /\ \E k \in Keys : redis[k] # NoEntry
    /\ redis' = [k \in Keys |-> IF redis[k] = NoEntry \/ redis[k].old
                                THEN NoEntry ELSE [redis[k] EXCEPT !.old = TRUE]]
    /\ UNCHANGED <<shared, registry, state, pc, job, reloads, fresh>>

RequestStep(t) ==
    \/ QueryHit(t) \/ QueryMiss(t) \/ ScoreHit(t) \/ ScoreMiss(t)
    \/ Infer(t) \/ InferFails(t) \/ Rank(t) \/ Predicted(t) \/ Respond(t)

ReloadStep(t) ==
    \/ GetMemo(t) \/ Load(t) \/ LoadFails(t)
    \/ WarmUp(t) \/ SwapPredictors(t) \/ SwapPickers(t)

Next ==
    \/ \E t \in Requests, r \in Replicas : PlanPick(t, r) \/ \E v \in Variants : Predict(t, r, v)
    \/ \E t \in Reloaders, r \in Replicas : Reload(t, r)
    \/ \E t \in Requests : RequestStep(t)
    \/ \E t \in Reloaders : ReloadStep(t)
    \/ Promote \/ Tick

Spec == Init /\ [][Next]_vars

(* A request in progress ends, and time passes; a reload may take for ever. *)
Fairness ==
    /\ \A t \in Requests : WF_vars(RequestStep(t))
    /\ WF_vars(Tick)

LiveSpec == Spec /\ Fairness

----------------------------------------------------------------------------
(* Properties                                                              *)

TypeOK ==
    /\ shared \in BOOLEAN
    /\ pointer \in Versions /\ moves \in Nat
    /\ models \in Seq(Model) /\ rankers \in Seq(Ranker)
    /\ \A k \in DOMAIN rankers : rankers[k].of \in DOMAIN models
    /\ memo \in [Replicas -> {0} \cup DOMAIN models]
    /\ predictors \in [Replicas -> DOMAIN models]
    /\ pickers \in [Replicas -> DOMAIN rankers]
    /\ redis \in [Keys -> Entry]
    /\ pc \in [Calls -> {"idle"} \cup Requesting \cup Reloading]
    /\ job \in [Calls -> Job]
    /\ reloads \in Nat

\* The answer of a call: the version reported with it, and whose predictions it is
\* made of.
NoAnswer == [said |-> 0, by |-> {0}]
AnswerOf(t) ==
    IF pc[t] = "reply" THEN [said |-> models[job[t].use].model, by |-> job[t].seen]
                       ELSE NoAnswer

Service == INSTANCE AttributedService WITH
    live   <- {models[i].model : i \in DOMAIN models},
    Calls  <- Requests,
    answer <- [t \in Requests |-> AnswerOf(t)]

\* Whatever reloads run meanwhile, an answer is computed by the model it is attributed
\* to: a request on an old picker never reads what a new model has cached, and a
\* ranking never compares the predictions of two models.  With Redis all that is left
\* is that the predictions come from models that were loaded.
Attributed == Service!Spec

\* Reloads of a replica that do not overlap each take effect as a whole: /predict and
\* /plan-pick use one model, and it is one the registry has named since the
\* last reload that succeeded began.
SerialReloadsApply ==
    \A r \in Replicas : fresh[r] # Overlapped /\ ReloadsAt(r) = {} =>
        /\ rankers[pickers[r]].of = predictors[r]
        /\ models[predictors[r]].model \in fresh[r].since

\* Every replica serves what the registry names.
Settled ==
    \A r \in Replicas : /\ models[predictors[r]].model = pointer
                        /\ rankers[pickers[r]].of = predictors[r]
                        /\ ReloadsAt(r) = {}

\* A picker that fell back to a local cache ranks with a predictor that did not.
HalfLocal == \E k \in DOMAIN rankers : ~rankers[k].remote /\ models[rankers[k].of].remote

\* Once every replica serves the registry's model, the answers of older ones die out:
\* the shared entries expire, and what requests that are still in progress
\* put back expires too.
StaleDiesOut ==
    <>[]Settled => \/ []<>HalfLocal
                   \/ <>[](\A t \in Requests : pc[t] = "reply" => job[t].seen = {pointer})

=============================================================================
