# Verification of the Auto-ML Query Optimizer

TLA+ models of the parts of this repository whose correctness depends on the
order in which things happen: threads that share a pool, a breaker and two caches,
worker processes that share a lock, a registry and a dataset, messages that are
delivered twice, scripts that are killed and run again, and everything that
can fail or crash between two of their steps. TLC checks the models on small
instances, TLAPS proves the central invariants for every value of the constants.

```
cd tla
tlc -workers 2 -config Pool.cfg MCConnectionPool.tla     # any run of the table below
tlapm ConnectionPoolProofs.tla                           # any *Proofs module
```

## 1. The system

A FastAPI service (`services/ml_service`) receives SQL, has PostgreSQL plan it
under several planner settings, predicts the run time of each plan with a trained
model and answers with the best one; `/run-and-learn` also executes it and
publishes a feedback record. A background worker (`services/automl_service`)
merges the feedback into the training set, retrains, registers the candidate
model, promotes it if it beats the incumbent, and tells every replica to reload.
The first training set is made by hand: scripts load the benchmarks into PostgreSQL,
run their queries under each variant, write one file per plan, validate the files and
extract one row of features from each.

| component | state | operations | interacts with |
|---|---|---|---|
| connection pool `ml_service/db_pool.py` | idle queue, counter of open connections, closed flag | acquire, release, closeall, ping | request threads, PostgreSQL, the lifespan's shutdown |
| circuit breaker `ml_service/circuit_breaker.py` | state, window of failure times, time it opened | allow, record_success, record_failure | the two request handlers |
| time budget `ml_service/timeout_budget.py` | start time | the time left for each stage | the request handlers |
| caches `ml_service/cache.py`, `cache_backend.py` | LRU per process, or Redis shared by the replicas | get, set, clear | predictor, plan picker, reload |
| predictor, plan picker `inference.py`, `plan_pick.py` | memoised predictors, one per regime | predict_one, pick, pick_default, reset_predictors | registry, caches, plan generator |
| server `ml_service/server.py` | current predictors and pickers | /plan-pick, /run-and-learn, /execute, /admin/reload-models, readiness | all of the above |
| model registry `ml_service/model_registry.py` | artifact store, `registry.json` with one pointer per regime | register, promote, resolve_artifact | worker, replicas, the command line |
| plan generator `services/plan_generator` | none (session settings) | EXPLAIN per variant, EXPLAIN ANALYZE | PostgreSQL |
| execution runner, metrics `services/exec_service` | counters, feedback directory | run_single, run_with_oracle, write | server, publisher |
| feedback bus `services/feedback_bus` | Kafka topic, deduplication log | publish, handle_record, commit | runner, feedback directory |
| merge `automl_service/merge.py`, `watermark.py` | `features.csv`, watermark | merge, validation gate | feedback directory, trainer |
| trigger, state `triggers.py`, `drift.py`, `state.py` | `retrain_state.json` | should_retrain, mark_*, save | worker |
| lock `automl_service/filelock.py` | the lock file | acquire with stale reclaim, release | worker processes |
| worker `automl_service/worker.py`, `trainer.py`, `promotion.py` | the local variables of a cycle | run_cycle | everything above it |
| watchdog `automl_service/watchdog.py` | none | evaluate, run_watchdog | called by nothing in the repository |
| setup and migration `scripts/setup_*.py`, `migrate_to_schemas.py`, `db/` | the tables of three schemas, CSV files, a generated DDL | generate, export, apply the schema, COPY, move tables | an operator, collection |
| collection `scripts/collect_*.py` | one file per query and variant, a session | EXPLAIN ANALYZE, write, resume | PostgreSQL, validation, extraction |
| validation, features `validate_dataset.py`, `feature_engineering`, `phase3a/feature_selection.py` | none (functions of the files) | validate, extract, select columns, align at serving | trainer, predictor |
| training, promotion gate `phase3b`, `evaluate_baseline.py`, `promotion.py` | none (functions of the rows) | cross-validate, select, evaluate, decide | worker |
| metrics, dashboards, deployment | counters, configuration | scrape, restart | compose |

What makes it hard: blocking handlers run on a pool of threads with locks held
only around single reads and writes; a result of the model arrives after the
breaker has changed state; the worker's lock is a file with a time limit; the
registry's lock is local to one process while the registry is not; the state of the
loop is read before its lock is taken and written at the end, under it; a session of
PostgreSQL outlives the request that borrowed it; caches are keyed by the regime, not by
the model; the dataset is rewritten in place by processes that take no lock; any process
may be killed and is restarted by compose.

What makes each part correct:

* **pool** – a connection belongs to one thread; none is lost; the counter is
  right; the number of connections is bounded; every call returns.
* **breaker** – it opens on evidence only, keeps new calls out until the reset timeout
  has passed or a call that was in progress succeeds after all, and always recovers.
* **lock** – one retrain at a time, and no crash blocks it for ever.
* **worker** – the lock is given back on every path; what is registered is what was
  trained; a promotion replaces what the candidate was judged against; retrains
  keep their distance, and never stop; replicas follow the pointer.
* **hot swap, caches** – an answer is attributed to the model that computed it;
  a reload takes effect as a whole; after it old results disappear.
* **request** – every path releases its connection; a statement runs under its own
  knobs; the breaker hears the truth, and a record tells the knobs it ran under; the time taken is bounded,
  if not by one budget.
* **feedback** – a record reaches the training set, and a key once, whatever is redelivered
  or crashes; what the volume rule has counted it does not forget.
* **offline** – a row tells the settings its plan ran under; what the gate trusts is
  whole; the model sees in training what it can see at serving; a migration loses
  nothing; the promotion gate measures picks where there is a choice.

`PROJECT.json` lists every hazard found at its line, and the property that
covers it or why none does.

## 2. The modules

| module | models | extended by |
|---|---|---|
| `ConnectionPool` | `db_pool.py` | `MCConnectionPool`, `ConnectionPoolProofs` |
| `CircuitBreaker` | `circuit_breaker.py` and its use in `server.py` | `MCCircuitBreaker`, `CircuitBreakerProofs` |
| `FileLock` | `filelock.py` | `MCFileLock`, `FileLockProofs`, `RetrainWorker` |
| `RetrainWorker` | `worker.py`, `state.py`, `triggers.py`, `trainer.py`, `model_registry.py`, the reload of `server.py` | `MCRetrainWorker`, `RetrainWorkerProofs` |
| `ModelServing` | `server.py` (serving, reload), `inference.py`, `plan_pick.py`, `cache.py`, `cache_backend.py` | `MCModelServing`, `ModelServingProofs` |
| `PlanPickRequest` | `server.py` (handlers), `timeout_budget.py`, `explain.py`, `pg_variants.py`, `runner.py`, `capture.py` | `MCPlanPickRequest`, `PlanPickRequestProofs` |
| `FeedbackPipeline` | `publisher.py`, `consumer.py`, `capture.py`, `merge.py`, `watermark.py`, the rows in `worker.py` | `MCFeedbackPipeline`, `FeedbackProofs` |
| `BenchmarkSchemas` | `setup_tpch.py`, `setup_tpcds.py`, `migrate_to_schemas.py`, `db/schema.sql` | `PlanCollection` |
| `PlanVariants` | the variants of the collectors and the knob columns of `extract_features.py` | `PlanCollection`, `PlanFeatures` |
| `PlanCollection` | the five `collect_*.py` | `DatasetGate` |
| `PlanTrees` | the walks of `feature_utils.py`, as functions of the tree | `PlanFeatures`, `PlanWalk` |
| `PlanWalk` | the same walks as the recursions they are in the code | `MCDatasetGate` |
| `PlanFeatures` | `feature_engineering`, `feature_selection.py`, the row of `inference.py` | `TrainingRows` |
| `ModelGate` | `phase3b/plan_pick.py`, `phase3b/train_models.py`, `evaluate_baseline.py`, `promotion.py` | `DatasetGate` |
| `DatasetGate` | `validate_dataset.py` | `TrainingRows` |
| `TrainingRows` | the extraction over the files | `MCDatasetGate`, `DatasetGateProofs` |

The abstract specifications, and what implements them:

| module | says | implemented by |
|---|---|---|
| `ConnectionLending` | a connection is lent to one thread at a time | `ConnectionPool` (`LendsExclusively`), proved and checked; `PlanPickRequest` uses it in place of the pool |
| `AttributedService` | an answer is computed by the model it names | `ModelServing` (`Attributed`), proved and checked |
| `FeedbackStore` | a consumer that never crashes | `FeedbackPipeline` (`CrashFree`), proved and checked |

Operators whose comment begins with "Seeded fault" are not part of a model: each
is a plausible bug of the definition that follows it. `PROJECT.json` says which
property each must break; this shows that the property is able to fail.

### ConnectionPool

One action per critical section or per call on a connection. `status` is what
PostgreSQL and the client know of each connection, `idle` is the queue `_idle`, `created`
is `_created`, `closed` is `_closed`; `pc` and `conn` are the position and the local
variable `conn` of each thread. The code's `acquire()` is `Acquire`, then
`GetIdle`/`QueueEmpty`, `Validate` (`_is_alive`), `Retire` and `RetireClose`
(`_discard`), `CheckCapacity` (`can_create`), `Connect`, `CountCreated` (`_open_one`),
`AtCapacity`, `WaitTake`, `WaitEmpty`. `release()` is `Release`, `InspectReleased`,
`PutIdle`/`PutFull`, `Drop`, `DropClose`. `closeall()` is the four `Close` steps; the
lifespan calls it while requests may still be running. `Break` is PostgreSQL.

The queue is a set, since no decision depends on its order, and the deadline is a
flag that the clock may raise at any moment. A broken connection passes
`release()` unless the borrower touched it, so both are possible. Connections are
identities that may be reopened; there are enough of them for every thread to open one
(`PoolAssumption`).

### CircuitBreaker

Every method holds the lock from its first to its last line, so each is one
action; what interleaves is the prediction between `allow()` and its result. A time
is kept as an age that `Tick` advances, up to the value from which the code cannot
tell it apart (`Window + 1`, `Reset`); this makes the state space finite without a
bound on time. A call that ends in a PostgreSQL or runtime error reports nothing
(`EndUnrecorded`), as in both handlers. `call` and `callAge` are where each thread's
call was let through and how long ago. `seen` and `answered` are history variables: the failures
since the last success, against which the code's own window is compared, and whether a call has
reported a success since the last opening.

### FileLock

One action per file-system call. `file` is the lock file, with the process that created it and
whether it is older than `stale_after_s`; `at` is where each process is. Two calls are
short enough to be one step: the create with the write of the holder (nobody reads the
holder) and the test of the age. `GoStale` is the clock: it may strike a crashed
holder's file at any time, and a running holder's at most `MaxLongRuns` times.
`reclaims` counts the lock files that were removed as stale.

### RetrainWorker

Extends `FileLock`: the actions of the lock are conjoined with the step of the loop
that performs them, so what holds of the lock alone holds of the loop. A cycle is `Poll` (load the state, decide), `Locking`/`LockTaken`/`LockLost`,
`Train`, `HashArtifact`, `RegisterLoad`, `CopyArtifact`, `RegisterSave`, `ReadIncumbent`,
`Judge`, `PromoteLoad`, `Promote`, `Reload`/`ReloadFails` once per replica, `Save`,
`Unlock`. `register()` and `promote()` are split where another process can come in:
the registry's lock is a `threading.Lock`, and each process has its own. `Fail` is an
exception or a failed gate at any step before the lock is released; `CrashWorker` may happen
anywhere and the state file, the registry and the lock file survive it.

The state file is the age of the last saved retrain; the dataset is left out, and the
volume and drift rules are one Boolean input of `Poll`. Either verdict of the
promotion gate is possible. A version is the hash of an artifact's contents and is
modelled by them; every training writes its time into the artifact, so no two are the
same. The registry holds one regime: regimes do not touch. Before the first
registration `resolve_artifact()` falls back on a legacy path which is also the
trainer's output path: a replica on the worker's disk then loads the newest
artifact, one in a container of its own the bundled model, and `Resolved` allows both.

`own`, `started`, `overlapped` and `lapse` are history variables: they are only read by
properties.

### ModelServing

`models` and `rankers` are the `Predictor` and `PlanPicker` objects built so far, each with
its cache; `memo`, `predictors` and `pickers` are `_predictors` and the two attributes of
`app.state`, per replica; `redis` is the shared cache, `pointer` the registry. A request takes the installed picker
(`PlanPick`) or predictor (`Predict`), looks the query up (`QueryHit`, `QueryMiss`), then each
variant (`ScoreHit`, `ScoreMiss`, `Infer`), caches the ranking (`Rank`) and answers. A reload
drops the memo (`Reload`), finds another's or loads the current version (`GetMemo`, `Load`,
`LoadFails`), builds the picker and warms it up (`WarmUp`), and swaps in the predictors and the
pickers, one attribute after the other. `Promote` moves the pointer, also backwards. A cache
entry is the set of models whose predictions it is made of; it is never a number, since all that
matters is who computed it. An entry of Redis expires one to two ticks after it was set; an
error of Redis makes a lookup a miss, a write or a clear a no-op, and at the construction of
an object the object falls back to a cache of its own. `cache.clear()` clears the
predictions and, as in the code, never the rankings.

`fresh` is a history variable for `SerialReloadsApply`: the versions the registry has named since the
last reload of a replica that succeeded began.

### PlanPickRequest

One action per statement sent to PostgreSQL or call of another component. `lent` is the
state of `ConnectionLending`, so this module composes with the pool by its abstract
specification; `session` is what each PostgreSQL session was last set to, and outlives the
loan; `req` is what a handler has in its local variables; `feedback` what it published last.
`/plan-pick`, `/execute`, `/run-and-learn` and the oracle differ in the stage that
follows `acquire` and in what `Choose` leaves to execute; `/execute` takes a variant name, a list of knobs and a
`selected_by` from its caller, each free of the others. `spent` is the time the wait and the statements of the planning stage
may have taken, of a budget that is the configured one less the response reserve, `sent` how many statements that
were; `TimeoutOf` is `statement_timeout_ms()`, computed once. The answers of the breaker, the
model and PostgreSQL are free. `RequestAssumption` asks that twice the minimum of a
statement timeout fits the budget: the defaults are 100 ms of 7750 ms, but
`ML_REQUEST_BUDGET_MS` is configurable and the code does not check it.

### FeedbackPipeline

The way of a record: `PublishFile`, or `PublishKafka`, `Delivers`, `Stores`, `Remembers`,
`Commits`, or `Rejects` of a foreign message; then `Scan`, `ReadSet`, `OpenSet`, `WriteSet`, `Bump` of each merging process, and
`Trained`, `SaveState` of the worker. `memory` is the bounded deduplication set, `seen` its log on
disk, `committed` the offset. A crash of the consumer forgets `memory` and what is not
committed. `Poison` are the messages that are JSON but not an object: `Raises` ends the consumer at each of them, whenever it
starts. Two records may come
with the same `x-request-id` (`SameRequest`: one deduplication key), or with request ids that
begin alike in the same second (`SameName`: one file name). `csv` is the sequence of the rows;
`to_csv()` truncates, then writes at an offset of its own, so two overlapping writers mix. A merge that dies in its
write leaves any number of rows, and perhaps one cut short (`Pieces`): before its key, the time of the execution, which the next
merge then misses (`early`), or behind it (`late`); without rows the file may have a header, which reads as an empty base, or none, which
does not read (`headed`). `overlapped` and `torn`, the number of the writes that died, are history variables.

### The offline modules

`BenchmarkSchemas` is where the tables are: `db[schema][table]` says which benchmark's
columns a table has and how often data were copied into it. A script is a program counter with the
tables it has left; each transaction is one action, and `Killed` may strike before any of
them. `table_schema()` may answer with either schema when both have the table.
`PlanCollection` adds the collectors: the five scripts are one algorithm with the differences
named in five records. `files` is a plan file per cell, which may be missing, torn or
written; a written one records which join methods were off, whether the table `customer` it
read had data, and the two labels. `PlanFeatures` is pure: the reducers over a plan, the columns, the ones dropped for a model of
the `plan_time` regime, and the row the service builds from a plain EXPLAIN. A logarithm, ratio or deviation is
represented by the values it is computed from, so two columns differ when those do.
`PlanVariants` has the two definitions that collection and extraction must agree on.

A plan is a function from the places of its nodes to the nodes, where a place is the path from the
root (`<<2, 1>>` is the first child of the second child). `PlanTrees` says what the walk and the
two measures of `feature_utils.py` come to: the walk visits the places in the
order `Before`, which is a first-difference order, and the node number *i* is the one that *i* - 1 others come
before. The code gets there by recursion. `PlanWalk` has that recursion, line by line, and
`WalksAgree` compares the two on each of the 43 trees whose nodes are among ten places of four levels; TLC
evaluates it before the run `offline`. The reason for two forms is that the prover cannot work with recursive
operators: all that is proved uses `PlanTrees`.

`DatasetGate` is the verdict of `validate_dataset.py` (`Trusted`) over the files,
`TrainingRows` the extraction, and states what each must mean for the other. `ModelGate` evaluates plan picks as the
trainer and the promotion gate do, over every dataset and every prediction of the
instance, with the gate's rounding (`Rounded`: the accuracy to 1/10000, the regret to a tenth of a millisecond) and its
cross-validation, which raises when there are fewer queries than `Folds` (`Evaluable`).

## 3. What TLC checks

| run | instance | checks | result |
|---|---|---|---|
| `pool` | 2 threads, 3 connections, `MaxConn` 1, 2 breaks; 114 thousand states | `TypeOK` `NoneLost` `CountedExactly` `BoundedOvershoot` `CapWhenQuiet`, refinement `LendsExclusively`, liveness `CallsReturn` | holds |
| `pool_cap` | 3 threads, `MaxConn` 2, symmetry | `CreatedWithinCap` | violated |
| `breaker` | 3 threads, threshold 3, window 3, reset 2; 19 thousand states | `OpeningHolds` `ClosedCountsWindow`, action property `OpensOnEvidence`, liveness `Recovers` | holds |
| `breaker_trial` | 2 threads, threshold 2 | `SingleTrial` | violated |
| `lock_overlap` | 2 processes, 1 crash | `SingleFlight` | violated |
| `worker` | 2 workers, 2 replicas, 2 versions, 1 crash, up to an overlap; 233 thousand states | `LockHeldInside` `CandidateIsOwn` `IndexComplete` `JudgedAgainstReplaced` `ReplicasFollow`, action property `OwnCooldown` | holds |
| `worker_loop` | 2 workers, 1 replica, 1 version, 1 crash, 1 long run; 128 thousand states | `OverlapNeedsReclaim`, liveness `NeverWedged` `Heartbeat` | holds |
| `worker_cooldown` | 1 worker, no crash | `CooldownKept` | violated |
| `serving` | 1 replica, 1 request, 2 reloads, 2 versions, 1 promotion, local or shared caches, 1 fallback; 535 thousand states | `SerialReloadsApply`, refinement `Attributed`, liveness `StaleDiesOut` | holds |
| `request` | 2 requests, 1 connection, 3 variants, budget 2, minimum 1; 51 thousand states | `SessionIsOwn` `FeedbackHonest` `BreakerHears` `OverrunBounded`, liveness `RequestsEnd` | holds |
| `feedback` | 2 records, 1 foreign and 1 poison message, of which 2 are sent, capacity 1, worker and script, 1 crash; 531 thousand states | `MergedOnce` `WatermarkNeverAhead`, action property `VolumeKeepsCount`, refinement `CrashFree`, liveness `EveryDeliveredIsMerged` | holds |
| `offline` | 3 scripts from 4 databases, 2 parameterized queries and 1 of each other corpus, 3 variants; 130 training sets, 96 of them evaluable; 704 thousand states | `RowsTellTheKnobs` `TrustedOffersChoice` `TrustedIsUsable` `PlanTimeBlind` `MigrationRestores` `GateFollowsChoices` | holds |

### The four disagreements

* **`pool_cap`** – `acquire()` looks at `_created` in one critical section and raises it
  in another, with the connection attempt between them. Two threads one below the
  cap both open. The documentation promises `created ≤ maxconn`. `BoundedOvershoot`
  says how far it goes (never more than one connection for each thread, because a thread
  opens one only after it has found the queue empty) and `CapWhenQuiet`
  that it does not last.
* **`breaker_trial`** – HALF_OPEN lets everybody through, not one trial.
* **`lock_overlap`** – two processes find the lock of a crashed third stale; the first
  reclaims it, the second unlinks the first's new file. Both retrain.
* **`worker_cooldown`** – a failed retrain saves no state, so the cooldown does not
  apply to what follows it and the worker retrains at every poll until one succeeds. `OwnCooldown`
  is what does hold: the cooldown of a retrain that was saved, by the worker that
  saved it, also after a crash.

### Why the bounds are enough

* Pool: two threads and `MaxConn` 1 are one thread more than the cap: they overshoot it,
  fill the queue, have the excess turned away, and both can wait; two breaks let a waiter
  find a dead connection twice. There are as many connections as `PoolAssumption` asks
  for. `pool_cap` has one thread and one connection more. The proofs cover any number of threads, connections and breaks.
* Breaker: a threshold of 3 with a window of 3 lets failures of different ages
  leave the window while others arrive, and three calls let two be late for the
  third. Time is not bounded.
* Lock: two processes are the two that race for a crashed one's file, one of which may be
  the crashed one restarted, or a displaced holder and its successor. `MaxCrashes` and `MaxLongRuns` only
  limit how often the environment acts; the bound on the overlap is proved for any number of
  processes, crashes and long runs.
* Worker: two versions are an incumbent and a candidate; two replicas are one that was told and one
  that was not. `Cooldown` 1 and `Schedule` 2 make an age below, at and above
  each limit. After two retrains have overlapped, the
  documentation itself expects corruption (`filelock.py:6-8`), and all properties but
  `LockHeldInside` claim nothing; the run stops there (constraint `BeforeOverlap`), and the proof of
  that one does not. `worker_loop` goes on beyond it. Workers and
  versions are interchangeable, which the run uses as symmetry (it checks no
  liveness).

* Serving: one request that is in progress while two reloads and a promotion go on is an
  old picker, an old predictor, a new one and a newer one; replicas share nothing but Redis,
  which two pickers of one replica share already. One variant and the
  query key are the two namespaces of the cache. `MaxFallbacks` lets one object of the shared
  deployment have a cache of its own. The threads that reload are interchangeable and the next reload takes
  a fixed one of the idle (`FreeThread`). The proofs cover any number of all of these.
* Request: two requests and one connection make every session a used one; three variants are the
  default and two that leave different knobs behind. Budget 2 and minimum 1 make
  a timeout above, at and below what is left.
* Feedback: the two records share a request id and a file name: over Kafka the second is a duplicate, through files
  it overwrites the first, before or after a merge has read that. Two of the four messages are sent in a
  behaviour, in any order, one crash may hit any process, a writer in the middle of a row too, and one script may merge beside
  the worker. Keys that are evicted, and records that share only one of the two, are beyond this instance; `ConsumerCrashFree`
  and `NoRowTwice` cover them.
* Offline: three scripts are enough for a setup, a migration and a collection, or a killed
  collection, another script and a resumed one. One query reads `customer`, the table the two
  benchmarks contend for, and one does not. `Slow` pairs may time out so that a query can be left with one variant,
  or the corpus with too few files. Training sets have seven rows of five
  statements, as many as there are folds, two variants and two times: one statement with three rows or two with two, with a choice,
  repeated without, and both together; others are too small to be evaluated. The raw predictions are below, inside and above
  the clip. With three groups at most the rounding never hides a query; what it hides beyond 10000 is proved.

Deadlock is checked in every run but `offline`, whose scripts are bounded. No action is
left out of a run that passes.

### Fairness

* `ConnectionPool`: each thread's next step in `acquire()` and `release()` (threads
  keep running; `_connect` and the statements have timeouts) and the clock. Not: that a
  borrower releases, that PostgreSQL breaks or comes back, or that the pool is
  closed.
* `CircuitBreaker`: the clock, the end of each call (statements have a timeout; the
  model is in-process) and *some* request after another. Not: that any particular
  thread asks, nor how a call ends.
* `FileLock`: the steps of each process, a retrain that ends, and the clock.
* `RetrainWorker`: `main()` polls for ever and a cycle's next step is taken, the clock
  of the state and that of the lock file. Fairness is on the whole cycle, so it
  promises nothing of training succeeding: `Heartbeat` holds even if every retrain
  fails. The volume and drift rules need never fire.
* `ModelServing`: the next step of a request in progress and the clock of
  Redis. Not: that anybody asks, reloads or promotes, or that a reload ends. `StaleDiesOut` is therefore about behaviours that
  settle: every replica serves what the registry names from some point on.
* `PlanPickRequest`: the next step of a request in progress. A statement ends at its timeout
  at the latest, and `acquire()` returns or raises, which is `CallsReturn` of the pool. How anything ends is free.
* `FeedbackPipeline`: the consumer's next step, its restart included (compose has `restart:
  unless-stopped`); the worker retrains again and again, which is `Heartbeat` of `RetrainWorker`, and a merge
  that has begun ends or crashes. Not: that the producer delivers, or that a script is ever run.
* `MCDatasetGate` has no fairness: nobody has to run a script.

## 4. What is proved

All for any values of the constants that meet the named assumptions
(`PoolAssumption`, `BreakerAssumption`, `LockAssumption`, `WorkerAssumption`,
`ServingAssumption`, `RequestAssumption`, `FeedbackAssumption`, `SchemaAssumption`,
`CollectionAssumption`, `ModelGateAssumption`, `GateAssumption`, `RowsAssumption`), which TLC
evaluates in the runs.

**`ConnectionPoolProofs`.** `TypeOK` alone is not inductive: a `_discard` needs to know that the
thread has a connection. The strengthening is *Ownership* (`HandsMatch`: a
thread has a connection exactly at the steps where the code does; with
`Exclusive` and `NoneLost`). From it `PoolTypes`, `ConnectionsOwned` and `PoolLends`: with `Exclusive`, every step that ends in `held` is a `Lend`, and `Release` is a `GiveBack`. *Capacity*
adds, before the shutdown, that the counter is the size of the queue plus the threads past
`CountCreated` and before `_discard`, and that the queue is within `MaxConn`; the steps compare
cardinalities of sets that differ by one thread or one connection (`OneThreadMoves`,
`FiniteSubsets`): `CounterExact`. *Claims* counts the
claimants, the threads that hold a connection or have found the queue empty and may
still open one: the queue and the claimants together are at most `MostConns`. A
thread becomes a claimant either by taking a connection out of the queue or when the
queue is empty, and then the claimants are at most the threads; the cap plays no part. From it `OvershootBounded` and `QuietWithinCap`.

**`CircuitBreakerProofs`.** `PrunedSuffix` and `PruneExact` say that popping from
the left of an ordered queue keeps exactly the fresh failures. `WindowInv` (the types and
`OldestFirst`, with the length below the threshold) is inductive: `BreakerTypes`,
`WindowInOrder`. `OpeningHolds` (the breaker stays open, and no call is let through,
between an opening and the end of the reset timeout or a late success) is inductive with the types:
`OpenShutsOut`. `ClosedCountsWindow` compares two totals and is not inductive: equal totals
may become unequal when the ages move on. `WindowCounted` says the same of each
age alone, and a tick moves every count by one place. `SumCounts` brings the two
together: the sum that a fold adds up is the number of elements counted, age by age. The
provers cannot do an induction along the fold, so `SumsUnique` takes two functions that
satisfy the fold's equation, and the smallest set they differ on (the subsets
of a finite set are well-founded) gives the contradiction. From it `WindowComplete` and
`OpensOnlyOnEvidence`.

**`FileLockProofs`.** `LockTypes`, `HolderOwnsItsFile`, and `OverlapIsPaidFor`. The bound
1 + `reclaims` on the holders is not inductive, since a process may create the file
while another still holds; the invariant `PaidFor` is one sharper when there is no file.

**`RetrainWorkerProofs`.** The loop is put together from the actions of the lock, so every theorem of `FileLockProofs` holds of
it (the lemma `LoopImplementsLock`). Then
`WorkerTypes`, `LockAlwaysReleased`, and three results about the registry until an overlap: `CandidatesOwn`,
`IndexNeverLosesAVersion`, `PromotionsWereJudged`. They share one invariant: `OneHolder` (with
no overlap, one worker is inside) and `Sound` (`RegistrySound`: the store and the
index are whole; `StepSound`: what a worker's local variables say at each step). A step
of the worker inside changes the registry and is checked against its own
`StepSound`; all the others are outside, where `StepSound` says nothing of the
registry, so it cannot be disturbed. `ReplicasAlwaysFollow` adds what the reloading worker knows
(`Told`): the replicas before the one whose turn it is follow the pointer, so the last answer
completes them. `CooldownOfOwnRetrains` is an action property; its invariant
`AgesInOrder` orders three dates: the state file is never older than what any worker has saved, a retrain
that was marked is newer than the file it will be saved in (a worker must not put an older date back),
and a worker on its way to the lock read a date no older than its own.

**`ModelServingProofs`.** `TypeOK` needs to know which objects a call has in hand (`RequestsMatch`,
`ReloadsMatch`): `ServingTypes`. `AnswersAttributed` is the refinement. Its invariant adds
`CachesAttributed` (a predictor's own cache has only its own predictions, a picker's own those of its
predictor unless caches are shared, every other entry those of loaded models) and
`RequestsAttributed` (the same of what a request has collected, which is never nothing when it
answers). Objects are only ever added and never change their model, so a
reload cannot disturb a request; each step of a request is a `Reply`, a `Forget` or a stutter, and
`Load` is the abstract one. This shows that the attribution is lost only by sharing: it is
the one case distinction of the invariant. `SerialReloadsTakeEffect` rests on `InSeries`: while no two reloads
of a replica overlap, the pointer is among the versions the registry has named since the reload
began, whatever the reload holds at its step is a model of such a version, and between the two swaps
only the picker is behind.

**`PlanPickRequestProofs`.** `Borrows` (a connection is lent to one request, exactly at the stages past
`acquire`) is a theorem of its own (`ConnectionsReturned`) and makes the session private, from which `OwnSession` and `HonestRecords`. `Fits` says what a handler's local
variables hold at each stage; it contains `BreakerHears` at the stage before (`BreakerInformed`), and the account of the
time (`Accounted`): the first statement may end at the deadline, and each later one adds a timeout. That there
are no more statements than variants and the fallback's is not inductive; `ToSend`, those sent and those that may
still be, is bounded and never grows (`OverrunWithinBound`).

**`FeedbackProofs`.** `SetInv` is one merge at a time until an overlap (`OneAtATime`), rows to be written that repeat no key, extend
the file and have no more cuts than writes have died (`SetWhole`), and a watermark behind the file or behind what is being written
(`Bookmarked`): `NoRowTwice`, `BookmarkBehind`. A crash inside the write is the case that makes `SetWhole` what it is: the piece it
leaves is the first part of a row that the writer had in hand, so its key, if it has one left, is nowhere else in the file
(`PieceRows`), and if it has none the next merge appends the row again, under a key that the file does not have (`NewRowsList`).
`VolumeCountKept` needs the watermark never to fall, which is `Bookmarked`, and the state never to be
marked but by a retrain that has trained. `ConsumerCrashFree` is the refinement of
`FeedbackStore`: `ConsumerInv` says that the running consumer's memory is the recent part of the log
and that, at each of its steps, the message at the committed offset is as far as the step
requires. A redelivery then writes a file that is already there with a key that is
remembered, or stores what an evicted key has let in again, which the abstract
consumer would, too; a crash and a restart are stutters.

**`DatasetGateProofs`.** `MigrationsRestore`: `Migrating` holds the database against the one the migration found,
step by step (`Carried`); moving tables is a fold whose effect on one table is stated by
`MoveTpcdsCarries` and `MoveTpchCarries`, and no other script can run in between. `RowsTruthful` and `TrustedChoices` rest on
`KnobsKept`: from the configuration of the session to the write, the session has off exactly what the cell's
variant turns off, and a file keeps that through every kill and resume.
`GateFollowsEveryChoice` says of any training set that can be evaluated and any predictions what the run sees of 96 sets: a query without a
choice is a hit for every model (`NoChoiceIsHit`), so the hits of two models
differ as their hits among the others do (`HitsWithChoice`); the rounded accuracy is within half a unit of the exact one (`RoundedNear`), so one
that is not lower stands for at most one hit less in each 10000 groups, and more hits never give a lower one (`AccuracyRounded`); clipping that merges nothing keeps every pick
(`SamePick`); and the regret is a sum of natural numbers (`SumIsNatural`, by the smallest set whose sum is not).
`ModelGateAssumption` asks of a training set what any has: finitely many rows, and times that are not negative.

The rest of the module is about plans and rows. `Before` is a strict total order on paths (`BeforeIrreflexive`, `BeforeTransitive`,
`BeforeTotal`, by the least index where two differ), so the number of places before one grows along it
(`RankOrder`), and a one-to-one map of *n* places into 0 .. *n* - 1 leaves none out (`PlaceOfRank`): every index of
the walk has a node and every node an index. This gives `WalkVisitsAll` (each node once, the root first, a node before all below it, an
elder child's subtree before the next) and `ReducersSeeEveryNode` (maxima and counts are those of the set of nodes).
For `FeaturesBlind`, a tree and the same tree without what an execution adds have the same places, so the same walk, and agree
on the fields an EXPLAIN reports (`PlainSameEstimates`); then they agree on every column that is not dropped but
`planning_time_ms` (`RowsAlike`, `PlanningSkewed`). `PlanTimeBlind` says this of the labels and settings a
file may hold, so it needs to know that a file holds no others: `LabelsKept`, with `KnobsKept`, is the
inductive invariant `RowsInv`. `TrustedRows` takes from the gate that a query has two plans of
different variants, which differ in a knob column (`KnobsDiffer`) and name their query: a group of two rows, and a column with
two values. `RowsAssumption` asks that the variants are among the four the collectors know and that what
EXPLAIN returns is a tree whose nodes have the fields the extractor reads.

**Only model-checked.** The liveness properties (`CallsReturn`, `Recovers`,
`NeverWedged`, `Heartbeat`, `StaleDiesOut`, `RequestsEnd`, `EveryDeliveredIsMerged`): liveness under fairness is
beyond the prover here. And `WalksAgree`, that the recursive walk of the code is the one of `PlanTrees`: it is an
induction over trees, and is compared on the 43 trees `PlanWalk` builds.
Every invariant, refinement and action property of the passing runs is a theorem.

## 5. What the models show beside the four disagreements

Each of these was met while modelling, and is how the models behave. Where a
document or a comment of the repository says otherwise, it is named.

* **The volume rule does not count what waits.** `triggers.py:9` ("enough NEW feedback rows since the last retrain") and
  `docs/PHASE5D_TRIGGERS.md:22`, `:28-29` and `:35-36` have it fire when enough feedback has come in. The watermark's
  `features_rows` moves only in a merge, and the worker merges only inside a retrain, whose end saves the watermark it
  finds: without a merge by hand or a failed retrain `new_rows` is 0 at every poll, however much feedback waits. Two more ways to
  miscount: rows a script merges while a retrain trains are saved as trained (`worker.py:192` reads the watermark at the end), and the first
  bookmark counts the whole offline set as new. `VolumeKeepsCount` says what does hold: a row that was counted is
  counted until a retrain succeeds. The drift rule reads `/metrics`, which answers JSON by default
  (`server.py:618`), so in the deployment of `docker-compose.yml` the schedule alone starts retrains.
* **The breaker may close early.** The state machine of `circuit_breaker.py:17-26` and `docs/PHASE4A_RESILIENCE.md:62-74` leaves
  OPEN only when the reset timeout has passed. `record_success()` (`circuit_breaker.py:95-99`) does not look at the state: a call let through before the
  opening, whose success comes after it, closes the breaker at once and the next calls reach the model. `OpeningHolds` says that nothing else does.
* **A group of one variant.** `evaluate_plan_pick` skips groups of fewer than two rows
  (`phase3b/plan_pick.py:66`), where its docstring says variants. Repeated executions of one statement and
  variant are groups and always hits. `GateFollowsChoices` shows that the sign of the gain is not
  changed by them; the accuracies are, and with them the tolerance of the confidence bound, and the rounding to four decimals
  (`evaluate_baseline.py:120`) before the comparison: with more than 10000 groups a candidate with fewer hits may pass.
* **The first model.** `promotion.py:182-183` says that any finite candidate clears the gate when there is no incumbent. One is evaluated only if
  the training set has five queries or more (`GroupKFold`, `evaluate_baseline.py:65`) and a query with two rows (else the report has no column `hit`, `:114`):
  otherwise the evaluation raises and the cycle fails.
* **The first shared answers.** With Redis a reload clears the predictions but no ranking, and a
  request in progress may put an old prediction back: until the time to live is over, an answer may name one model and be computed by another. `inference.py:141-144` and
  `docs/PHASE4B_CACHE_REGISTRY.md:72-74` promise that the version in a record traces a prediction to its artifact.
  `Attributed` promises nothing more there, `StaleDiesOut` that it ends, except for a picker that fell back to a local cache over a
  predictor that did not: its entries never expire.
* **Overlapping reloads** may leave `/predict` and `/plan-pick` on different models, or on the older one;
  `SerialReloadsApply` claims nothing of them.
* **The budget** is not the "single deadline" for "the *whole* request" of `timeout_budget.py:9-11` and `docs/PHASE4A_RESILIENCE.md:91-102`, nor the
  "end-to-end per-request deadline" of its line 159. The statement timeout is computed once, after the wait for a connection, and
  each EXPLAIN and then the fallback may take it in full: one deadline holds up to the first statement, and each later one adds a
  timeout (`OverrunBounded`).
* **What a record says of an `/execute`** is what its caller says: explicit `knobs` go with any variant name and any `selected_by`
  (`server.py:439-463`, `exec_service/schemas.py:19-27`), and the extraction takes the knob columns of the training row from the name. Of an oracle run,
  `selected_by` is "ml" also for a pick of the fallback (`runner.py:177`). `FeedbackHonest` demands of both the knobs that ran and that no
  prediction is claimed without one.
* **Executions without a row.** A repeated `x-request-id` is a duplicate to the consumer, and two alike ids within a second
  share a file name (`capture.py:104`), whose uniqueness `capture.py:146-148` promises "even when the same SQL is executed twice in the same
  millisecond": another execution's row stands for them (`StandsFor`). A crash
  between the truncation of `features.csv` and its header leaves a file no later merge can read, which
  `EveryDeliveredIsMerged` excepts.
* **A poison message ends the consumer.** What is JSON but not an object raises at `consumer.py:129`, outside the `try` whose comment
  (`:165`) names poison messages: it is not committed, and compose restarts the consumer at the same offset. `EveryDeliveredIsMerged` speaks of the messages before it.
* **A torn row.** `merge.py:23-24` promises that merging twice adds nothing. A crash inside `to_csv` (`merge.py:111`) may cut a row short: before `collected_at`
  the row has another key and the next merge appends the execution again; behind it the row stays with empty columns. `MergedOnce` counts them: no
  more than writes that died.
* **A migration run again** is not the no-op `migrate_to_schemas.py:37` promises for a database that has TPC-H
  alone: it takes `tpch.customer` for the missing table's namesake, moves it to `tpcds` and regenerates it; and with both
  loaded the `LIMIT 1` over a tie decides whether it does nothing or fails. `MigrationRestores` is
  what holds of a migration that gets to its end.
* **`planning_time_ms`** is a feature, but the plain EXPLAIN of the service reports none, so
  the model always reads 0: the one exception of `PlanTimeBlind`.
* **`--resume`** never collects a torn file again; the validation refuses the corpus until it is deleted.

## 6. What is not modelled

* Fitting, tuning, bootstrap and q-error: numeric programs; their outcomes are free
  choices of the models. `ModelGate` ranges over predictions instead.
* The registry's index torn by a crash of `_save`: the write goes through a temporary file and a
  rename. `scripts/retrain.py` and the command line of the registry, which register and promote without the
  `FileLock`, are not interleaved with the worker: `CandidateIsOwn`, `IndexComplete` and `JudgedAgainstReplaced` are about workers.
  A promotion by hand is `Promote` of `ModelServing`.
* A connection that a late `release()` puts into the drained queue of a closed pool stays open: it is `idle`, and no
  property says that it must be closed.
* The index files of the collectors (only appended to, read by no program), the optional check of
  `features.csv` in the validation, plan files whose statement has changed since (another
  hash in the name), an export killed in the middle of a CSV file.
* Ablations, audits, demos, smoke and load tests, the notebook, dashboards, nginx: they keep no state that
  the service reads.
* Metrics, logging and tracing: no decision reads them, except the drift rule,
  whose outcome is a free input.
* The drift rule and the watchdog: pure comparisons; nothing calls the watchdog.

## 7. Plan

1. *(done)* Pool, breaker, lock and worker; serving, request and feedback, with their
   proofs; the offline modules.
2. *(done)* The consumer's refinement, the window of the breaker, reloads, cooldown and
   replicas, and the offline properties that need no plan tree, as theorems.
3. *(done)* The walk over a plan without recursion, and the properties of the feature rows as theorems.
4. *(done)* Records of `/execute`, torn rows, poison messages, the rounding and the folds of the gate.
5. `ModelRegistry`: the command line beside the worker, and torn copies; `RetrainWorker`
   refines it.
6. The watchdog's rollback beside a promotion, once something runs it.
