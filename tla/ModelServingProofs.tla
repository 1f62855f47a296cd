------------------------- MODULE ModelServingProofs -------------------------
(***************************************************************************)
(* Theorems about ModelServing for any number of replicas, requests,       *)
(* reloads, variants and versions: the types of the objects and of the     *)
(* calls' variables, that the answers are attributed to the models that    *)
(* computed them, as AttributedService says, and that reloads which do not *)
(* overlap take effect.                                                    *)
(***************************************************************************)
EXTENDS ModelServing, FiniteSetTheorems, SequenceTheorems, WellFoundedInduction, TLAPS

USE DEF Go

----------------------------------------------------------------------------
(* Types                                                                   *)

\* What the types of the calls rest on: a call has the objects it needs.
RequestsMatch ==
    \A t \in Requests :
        /\ pc[t] \in {"idle"} \cup Requesting
        /\ pc[t] # "idle" => job[t].use \in DOMAIN models
        /\ pc[t] = "query" => job[t].ranker # 0
        /\ pc[t] # "idle" /\ job[t].ranker # 0 =>
              /\ job[t].ranker \in DOMAIN rankers
              /\ rankers[job[t].ranker].of = job[t].use

ReloadsMatch ==
    \A t \in Reloaders :
        /\ pc[t] \in {"idle"} \cup Reloading
        /\ pc[t] \in {"warm", "swapPredictors", "swapPickers"} => job[t].use \in DOMAIN models
        /\ pc[t] \in {"swapPredictors", "swapPickers"} => job[t].ranker \in DOMAIN rankers

Typed == TypeOK /\ RequestsMatch /\ ReloadsMatch

----------------------------------------------------------------------------
(* Whose predictions                                                       *)

Live == {models[i].model : i \in DOMAIN models}

\* A predictor's own cache has nothing but its own predictions, every other cache those
\* of loaded models, and a picker's own cache those of its predictor unless the
\* replicas share their caches.
CachesAttributed ==
    /\ \A i \in DOMAIN models, v \in Variants : models[i].cache[v].by \subseteq {models[i].model}
    /\ \A k \in DOMAIN rankers : rankers[k].cached.by \subseteq Live
    /\ \A k \in Keys : redis[k].by \subseteq Live
    /\ ~shared => /\ \A i \in DOMAIN models : ~models[i].remote
                  /\ \A k \in DOMAIN rankers :
                        /\ ~rankers[k].remote
                        /\ rankers[k].cached.by \subseteq {models[rankers[k].of].model}

\* So are the predictions a request has collected, and it answers with one at least.
RequestsAttributed ==
    \A t \in Requests :
        /\ pc[t] # "idle" =>
              /\ job[t].seen \subseteq Live
              /\ ~shared => job[t].seen \subseteq {models[job[t].use].model}
        /\ pc[t] = "score" => job[t].todo # {} \/ job[t].seen # {}
        /\ pc[t] = "infer" => job[t].todo # {}
        /\ pc[t] = "reply" => job[t].seen # {}

----------------------------------------------------------------------------
(* What writing a cache changes                                            *)

\* No step takes an object away, or changes which model it serves and where it caches.
ModelsKept ==
    /\ models' \in Seq(Model)
    /\ DOMAIN models \subseteq DOMAIN models'
    /\ \A i \in DOMAIN models : /\ models'[i].model = models[i].model
                                /\ models'[i].remote = models[i].remote

RankersKept ==
    /\ rankers' \in Seq(Ranker)
    /\ DOMAIN rankers \subseteq DOMAIN rankers'
    /\ \A k \in DOMAIN rankers : /\ rankers'[k].of = rankers[k].of
                                 /\ rankers'[k].remote = rankers[k].remote

LEMMA SharedSetEffect ==
    ASSUME redis \in [Keys -> Entry], NEW key \in Keys, NEW by \in SUBSET Versions,
           SharedSet(key, by) \/ UNCHANGED redis
    PROVE  /\ redis' \in [Keys -> Entry]
           /\ \A k \in Keys : redis'[k].by = redis[k].by \/ redis'[k].by = by
<1>1. [by |-> by, old |-> FALSE] \in Entry
  BY DEF Entry
<1>2. CASE redis' = [redis EXCEPT ![key] = [by |-> by, old |-> FALSE]]
  BY <1>1, <1>2
<1>3. CASE UNCHANGED redis
  BY <1>3
<1>4. QED
  BY <1>2, <1>3 DEF SharedSet

LEMMA SetPredictionEffect ==
    ASSUME models \in Seq(Model), redis \in [Keys -> Entry], NEW m \in DOMAIN models,
           NEW v \in Variants, NEW by \in SUBSET Versions, SetPrediction(m, v, by)
    PROVE  /\ ModelsKept /\ DOMAIN models' = DOMAIN models
           /\ \A i \in DOMAIN models, w \in Variants :
                 \/ models'[i].cache[w].by = models[i].cache[w].by
                 \/ i = m /\ models'[i].cache[w].by = by
           /\ redis' \in [Keys -> Entry]
           /\ \A k \in Keys : redis'[k].by = redis[k].by \/ redis'[k].by = by
<1>1. CASE UNCHANGED models /\ SharedSet(v, by)
  BY <1>1, SharedSetEffect DEF ModelsKept, Keys
<1>2. CASE models' = [models EXCEPT ![m].cache[v] = [by |-> by, old |-> FALSE]] /\ UNCHANGED redis
  <2> DEFINE e == [by |-> by, old |-> FALSE]
             changed == [models[m] EXCEPT !.cache = [models[m].cache EXCEPT ![v] = e]]
  <2>1. e \in Entry /\ e.by = by /\ models[m] \in Model
    BY LenProperties, ElementOfSeq DEF Entry
  <2> HIDE DEF e
  <2>2. /\ changed \in Model /\ changed.model = models[m].model /\ changed.remote = models[m].remote
        /\ \A w \in Variants : changed.cache[w] = IF w = v THEN e ELSE models[m].cache[w]
    BY <2>1 DEF Model
  <2>3. models' = [models EXCEPT ![m] = changed]
    BY <1>2 DEF e
  <2> HIDE DEF changed
  <2>4. models' \in Seq(Model) /\ DOMAIN models' = DOMAIN models
    BY <2>2, <2>3, ExceptSeq, LenProperties
  <2>5. \A i \in DOMAIN models : models'[i] = IF i = m THEN changed ELSE models[i]
    BY <2>3
  <2>6. QED
    BY <1>2, <2>1, <2>2, <2>4, <2>5 DEF ModelsKept
<1>3. QED
  BY <1>1, <1>2 DEF SetPrediction

LEMMA ClearPredictionsEffect ==
    ASSUME models \in Seq(Model), redis \in [Keys -> Entry], NEW m \in DOMAIN models,
           ClearPredictions(m) \/ UNCHANGED <<models, redis>>
    PROVE  /\ ModelsKept /\ DOMAIN models' = DOMAIN models
           /\ \A i \in DOMAIN models, w \in Variants :
                 models'[i].cache[w].by = models[i].cache[w].by \/ models'[i].cache[w].by = {}
           /\ redis' \in [Keys -> Entry]
           /\ \A k \in Keys : redis'[k].by = redis[k].by \/ redis'[k].by = {}
<1>0. PICK none \in Entry : none = NoEntry /\ none.by = {}
  <2>1. NoEntry \in Entry /\ NoEntry.by = {}
    BY DEF NoEntry, Entry
  <2>2. QED
    BY <2>1, Zenon
<1>1. CASE UNCHANGED <<models, redis>>
  <2>1. models' = models /\ redis' = redis
    BY <1>1, Zenon
  <2>2. QED
    BY <2>1 DEF ModelsKept
<1>2. CASE /\ redis' = [k \in Keys |-> IF k \in Variants THEN NoEntry ELSE redis[k]]
           /\ UNCHANGED models
  <2>1. \A k \in Keys : redis'[k] = IF k \in Variants THEN none ELSE redis[k]
    BY <1>0, <1>2, Zenon
  <2>2. redis' \in [Keys -> Entry]
    <3>1. redis' = [k \in Keys |-> IF k \in Variants THEN none ELSE redis[k]]
      BY <1>0, <1>2, Zenon
    <3>2. QED
      BY <3>1
  <2>3. ModelsKept /\ models' = models
    BY <1>2, Zenon DEF ModelsKept
  <2>4. QED
    BY <1>0, <2>1, <2>2, <2>3
<1>3. CASE models' = [models EXCEPT ![m].cache = [v \in Variants |-> NoEntry]] /\ UNCHANGED redis
  <2> DEFINE changed == [models[m] EXCEPT !.cache = [v \in Variants |-> none]]
  <2>1. models[m] \in Model
    BY LenProperties, ElementOfSeq
  <2>2. /\ changed \in Model /\ changed.model = models[m].model /\ changed.remote = models[m].remote
        /\ \A w \in Variants : changed.cache[w] = none
    BY <2>1 DEF Model
  <2>3. models' = [models EXCEPT ![m] = changed]
    BY <1>0, <1>3, Zenon
  <2> HIDE DEF changed
  <2>4. models' \in Seq(Model) /\ DOMAIN models' = DOMAIN models
    BY <2>2, <2>3, ExceptSeq, LenProperties
  <2>5. \A i \in DOMAIN models : models'[i] = IF i = m THEN changed ELSE models[i]
    BY <2>3
  <2>6. redis' = redis
    BY <1>3, Zenon
  <2>7. QED
    BY <1>0, <2>2, <2>4, <2>5, <2>6 DEF ModelsKept
<1>4. QED
  BY <1>1, <1>2, <1>3, Zenon DEF ClearPredictions

LEMMA SetRankingEffect ==
    ASSUME rankers \in Seq(Ranker), redis \in [Keys -> Entry], NEW k \in DOMAIN rankers,
           NEW by \in SUBSET Versions, SetRanking(k, by)
    PROVE  /\ RankersKept /\ DOMAIN rankers' = DOMAIN rankers
           /\ \A i \in DOMAIN rankers :
                 \/ rankers'[i].cached.by = rankers[i].cached.by
                 \/ i = k /\ rankers'[i].cached.by = by
           /\ redis' \in [Keys -> Entry]
           /\ \A q \in Keys : redis'[q].by = redis[q].by \/ redis'[q].by = by
<1>1. CASE UNCHANGED rankers /\ SharedSet(Query, by)
  BY <1>1, SharedSetEffect DEF RankersKept, Keys
<1>2. CASE rankers' = [rankers EXCEPT ![k].cached = [by |-> by, old |-> FALSE]] /\ UNCHANGED redis
  <2> DEFINE e == [by |-> by, old |-> FALSE]
             changed == [rankers[k] EXCEPT !.cached = e]
  <2>1. e \in Entry /\ e.by = by /\ rankers[k] \in Ranker
    BY LenProperties, ElementOfSeq DEF Entry
  <2> HIDE DEF e
  <2>2. /\ changed \in Ranker /\ changed.of = rankers[k].of /\ changed.remote = rankers[k].remote
        /\ changed.cached = e
    BY <2>1 DEF Ranker
  <2>3. rankers' = [rankers EXCEPT ![k] = changed]
    BY <1>2 DEF e
  <2> HIDE DEF changed
  <2>4. rankers' \in Seq(Ranker) /\ DOMAIN rankers' = DOMAIN rankers
    BY <2>2, <2>3, ExceptSeq, LenProperties
  <2>5. \A i \in DOMAIN rankers : rankers'[i] = IF i = k THEN changed ELSE rankers[i]
    BY <2>3
  <2>6. QED
    BY <1>2, <2>1, <2>2, <2>4, <2>5 DEF RankersKept
<1>3. QED
  BY <1>1, <1>2 DEF SetRanking

\* A new object comes after the others.
LEMMA Appended ==
    ASSUME NEW S, NEW s \in Seq(S), NEW e \in S
    PROVE  /\ Append(s, e) \in Seq(S)
           /\ Len(s) + 1 \in DOMAIN Append(s, e)
           /\ DOMAIN Append(s, e) = DOMAIN s \cup {Len(s) + 1}
           /\ \A i \in DOMAIN s : i # Len(s) + 1 /\ Append(s, e)[i] = s[i]
           /\ Append(s, e)[Len(s) + 1] = e
BY LenProperties

----------------------------------------------------------------------------
(* Steps of the calls                                                      *)

LEMMA HasLeast ==
    ASSUME NEW S \in SUBSET Nat, S # {}
    PROVE  \E v \in S : \A w \in S : v <= w
<1>1. PICK v \in S : \A y \in S : ~(<<y, v>> \in OpToRel(<, Nat))
  BY NatLessThanWellFounded, WFMin
<1>2. \A y \in S : <<y, v>> \in Nat \X Nat /\ <<y, v>>[1] = y /\ <<y, v>>[2] = v
  OBVIOUS
<1>3. \A y \in S : ~ (y < v)
  BY <1>1, <1>2 DEF OpToRel
<1>4. QED
  BY <1>3

\* The variants are numbers, so there is a next one to score.
LEMMA NextVariantIn ==
    ASSUME NEW t, job[t] \in Job, job[t].todo # {}
    PROVE  NextVariant(t) \in job[t].todo /\ NextVariant(t) \in Variants
<1>1. job[t].todo \in SUBSET Nat /\ job[t].todo \subseteq Variants
  BY ServingAssumption DEF Job
<1>2. \E v \in job[t].todo : \A w \in job[t].todo : v <= w
  BY <1>1, HasLeast
<1>3. QED
  BY <1>1, <1>2 DEF NextVariant

LEMMA IdleType ==
    Idle \in Job /\ Idle.use = 0 /\ Idle.ranker = 0 /\ Idle.todo = {} /\ Idle.seen = {}
<1>1. (CHOOSE r \in Replicas : TRUE) \in Replicas
  BY ServingAssumption
<1>2. QED
  BY <1>1 DEF Idle, Job

\* A request t that goes to s with j in hand has what it needs there.
RequestFits(t, s, j) ==
    /\ s \in {"idle"} \cup Requesting /\ j \in Job
    /\ s # "idle" => j.use \in DOMAIN models
    /\ s = "query" => j.ranker # 0
    /\ s # "idle" /\ j.ranker # 0 => /\ j.ranker \in DOMAIN rankers
                                   /\ rankers[j.ranker].of = j.use
    /\ s # "idle" =>
          /\ j.seen \subseteq Live
          /\ ~shared => j.seen \subseteq {models[j.use].model}
    /\ s = "score" => j.todo # {} \/ j.seen # {}
    /\ s = "infer" => j.todo # {}
    /\ s = "reply" => j.seen # {}

Goes(t, s, j) ==
    /\ pc' = [pc EXCEPT ![t] = s]
    /\ job' = [job EXCEPT ![t] = j]

\* Its step is then typed, and disturbs no other request.
LEMMA RequestGoes ==
    ASSUME Typed, RequestsAttributed, NEW t \in Requests, NEW s, NEW j,
           RequestFits(t, s, j), Goes(t, s, j),
           ModelsKept, DOMAIN models' = DOMAIN models,
           RankersKept, DOMAIN rankers' = DOMAIN rankers,
           redis' \in [Keys -> Entry],
           UNCHANGED <<shared, pointer, moves, memo, predictors, pickers, reloads>>
    PROVE  Typed' /\ RequestsAttributed'
<1>1. /\ shared' = shared /\ pointer' = pointer /\ moves' = moves /\ memo' = memo
      /\ predictors' = predictors /\ pickers' = pickers /\ reloads' = reloads
  BY Zenon
<1>2. TypeOK'
  BY <1>1 DEF Typed, TypeOK, ModelsKept, RankersKept, RequestFits, Goes, Calls
<1>3. Live' = Live
  BY DEF Live, ModelsKept
<1>4. \A u \in Requests : u # t => pc'[u] = pc[u] /\ job'[u] = job[u]
  BY DEF Typed, TypeOK, Goes, Calls
<1>5. \A u \in Reloaders : pc'[u] = pc[u] /\ job'[u] = job[u]
  BY ServingAssumption DEF Typed, TypeOK, Goes, Calls
<1>6. pc'[t] = s /\ job'[t] = j
  BY DEF Typed, TypeOK, Goes, Calls
<1>7. RequestsMatch'
  <2> SUFFICES ASSUME NEW u \in Requests
               PROVE  /\ pc'[u] \in {"idle"} \cup Requesting
                      /\ pc'[u] # "idle" => job'[u].use \in DOMAIN models
                      /\ pc'[u] = "query" => job'[u].ranker # 0
                      /\ pc'[u] # "idle" /\ job'[u].ranker # 0 =>
                            /\ job'[u].ranker \in DOMAIN rankers
                            /\ rankers[job'[u].ranker].of = job'[u].use
    BY DEF RequestsMatch, RankersKept
  <2>1. CASE u = t
    BY <2>1, <1>6 DEF RequestFits
  <2>2. CASE u # t
    BY <2>2, <1>4 DEF Typed, RequestsMatch
  <2>3. QED
    BY <2>1, <2>2
<1>8. ReloadsMatch'
  BY <1>5 DEF Typed, ReloadsMatch
<1>9. RequestsAttributed'
  <2> SUFFICES ASSUME NEW u \in Requests
               PROVE  /\ pc'[u] # "idle" =>
                            /\ job'[u].seen \subseteq Live
                            /\ ~shared => job'[u].seen \subseteq {models[job'[u].use].model}
                      /\ pc'[u] = "score" => job'[u].todo # {} \/ job'[u].seen # {}
                      /\ pc'[u] = "infer" => job'[u].todo # {}
                      /\ pc'[u] = "reply" => job'[u].seen # {}
    BY <1>1, <1>3, <1>7, ServingAssumption DEF RequestsAttributed, RequestsMatch, ModelsKept
  <2>1. CASE u = t
    BY <2>1, <1>6 DEF RequestFits
  <2>2. CASE u # t
    BY <2>2, <1>4 DEF RequestsAttributed
  <2>3. QED
    BY <2>1, <2>2
<1>10. QED
  BY <1>2, <1>7, <1>8, <1>9 DEF Typed

\* Steps of others that add to the objects do not disturb the requests.
LEMMA RequestsUndisturbed ==
    ASSUME Typed, RequestsAttributed, ModelsKept, RankersKept, shared' = shared,
           \A u \in Requests : pc'[u] = pc[u] /\ job'[u] = job[u]
    PROVE  RequestsMatch' /\ RequestsAttributed'
<1>1. Live \subseteq Live'
  BY DEF Live, ModelsKept
<1>2. SUFFICES ASSUME NEW u \in Requests
               PROVE  /\ pc[u] \in {"idle"} \cup Requesting
                      /\ pc[u] # "idle" => job[u].use \in DOMAIN models'
                      /\ pc[u] = "query" => job[u].ranker # 0
                      /\ pc[u] # "idle" /\ job[u].ranker # 0 =>
                            /\ job[u].ranker \in DOMAIN rankers'
                            /\ rankers'[job[u].ranker].of = job[u].use
                      /\ pc[u] # "idle" =>
                            /\ job[u].seen \subseteq Live'
                            /\ ~shared => job[u].seen \subseteq {models'[job[u].use].model}
                      /\ pc[u] = "score" => job[u].todo # {} \/ job[u].seen # {}
                      /\ pc[u] = "infer" => job[u].todo # {}
                      /\ pc[u] = "reply" => job[u].seen # {}
  BY DEF RequestsMatch, RequestsAttributed
<1>3. pc[u] # "idle" =>
         models'[job[u].use].model = models[job[u].use].model
  BY DEF Typed, RequestsMatch, ModelsKept
<1>4. QED
  BY <1>1, <1>3 DEF Typed, RequestsMatch, RequestsAttributed, ModelsKept, RankersKept

\* A reload t that goes to s with j in hand has what it needs there, and its step is typed.
LEMMA ReloadGoes ==
    ASSUME Typed, RequestsAttributed, NEW t \in Reloaders,
           NEW s \in {"idle"} \cup Reloading, NEW j \in Job, Goes(t, s, j),
           s \in {"warm", "swapPredictors", "swapPickers"} => j.use \in DOMAIN models',
           s \in {"swapPredictors", "swapPickers"} => j.ranker \in DOMAIN rankers',
           ModelsKept, RankersKept, \A k \in DOMAIN rankers' : rankers'[k].of \in DOMAIN models',
           memo' \in [Replicas -> {0} \cup DOMAIN models'],
           predictors' \in [Replicas -> DOMAIN models'],
           pickers' \in [Replicas -> DOMAIN rankers'],
           redis' \in [Keys -> Entry], reloads' \in Nat,
           UNCHANGED <<shared, pointer, moves>>
    PROVE  Typed' /\ RequestsAttributed'
<1>1. shared' = shared /\ pointer' = pointer /\ moves' = moves
  BY Zenon
<1>2. TypeOK'
  BY <1>1 DEF Typed, TypeOK, ModelsKept, RankersKept, Goes, Calls
<1>3. \A u \in Requests : pc'[u] = pc[u] /\ job'[u] = job[u]
  BY ServingAssumption DEF Typed, TypeOK, Goes, Calls
<1>4. RequestsMatch' /\ RequestsAttributed'
  BY <1>1, <1>3, RequestsUndisturbed
<1>5. \A u \in Reloaders : /\ u # t => pc'[u] = pc[u] /\ job'[u] = job[u]
                           /\ u = t => pc'[u] = s /\ job'[u] = j
  BY DEF Typed, TypeOK, Goes, Calls
<1>6. ReloadsMatch'
  BY <1>5 DEF Typed, ReloadsMatch, ModelsKept, RankersKept
<1>7. QED
  BY <1>2, <1>4, <1>6 DEF Typed

----------------------------------------------------------------------------
(* Caches                                                                  *)

\* The caches stay attributed when each entry is one of before, or empty, or the work
\* of somebody who may write it.
LEMMA CachesStay ==
    ASSUME Typed, CachesAttributed, ModelsKept, RankersKept, shared' = shared,
           DOMAIN models' = DOMAIN models, DOMAIN rankers' = DOMAIN rankers,
           \A i \in DOMAIN models, v \in Variants :
              \/ models'[i].cache[v].by = models[i].cache[v].by
              \/ models'[i].cache[v].by \subseteq {models[i].model},
           \A k \in DOMAIN rankers :
              \/ rankers'[k].cached.by = rankers[k].cached.by
              \/ /\ rankers'[k].cached.by \subseteq Live
                 /\ ~shared => rankers'[k].cached.by \subseteq {models[rankers[k].of].model},
           \A k \in Keys : redis'[k].by = redis[k].by \/ redis'[k].by \subseteq Live
    PROVE  CachesAttributed'
<1>1. Live' = Live
  BY DEF Live, ModelsKept
<1>2. \A i \in DOMAIN models, v \in Variants : models'[i].cache[v].by \subseteq {models'[i].model}
  BY DEF CachesAttributed, ModelsKept
<1>3. \A k \in DOMAIN rankers : rankers'[k].cached.by \subseteq Live
  BY DEF CachesAttributed
<1>4. \A k \in Keys : redis'[k].by \subseteq Live
  BY DEF CachesAttributed
<1>5. ASSUME ~shared
      PROVE  /\ \A i \in DOMAIN models : ~models'[i].remote
             /\ \A k \in DOMAIN rankers :
                   /\ ~rankers'[k].remote
                   /\ rankers'[k].cached.by \subseteq {models'[rankers'[k].of].model}
  <2>1. \A k \in DOMAIN rankers : /\ rankers'[k].of = rankers[k].of
                                  /\ models'[rankers[k].of].model = models[rankers[k].of].model
    BY DEF Typed, TypeOK, ModelsKept, RankersKept
  <2>2. QED
    BY <1>5, <2>1 DEF CachesAttributed, ModelsKept, RankersKept
<1>6. QED
  BY <1>1, <1>2, <1>3, <1>4, <1>5 DEF CachesAttributed

----------------------------------------------------------------------------
(* Answers                                                                 *)

Answers == [t \in Requests |-> AnswerOf(t)]

\* A request that keeps its place and what it has keeps its answer.
LEMMA AnswerKept ==
    ASSUME Typed, ModelsKept, NEW u \in Requests, pc'[u] = pc[u], job'[u] = job[u]
    PROVE  (AnswerOf(u))' = AnswerOf(u)
<1>1. pc[u] = "reply" => models'[job[u].use].model = models[job[u].use].model
  BY DEF Typed, RequestsMatch, ModelsKept
<1>2. QED
  BY <1>1 DEF AnswerOf

LEMMA AnswersKept ==
    ASSUME Typed, ModelsKept, \A u \in Requests : pc'[u] = pc[u] /\ job'[u] = job[u]
    PROVE  Answers' = Answers
<1>1. \A u \in Requests : (AnswerOf(u))' = AnswerOf(u)
  BY AnswerKept
<1>2. QED
  BY <1>1 DEF Answers

LEMMA OneAnswers ==
    ASSUME Typed, ModelsKept, NEW t \in Requests, NEW s, NEW j, Goes(t, s, j)
    PROVE  Answers' = [Answers EXCEPT ![t] = (AnswerOf(t))']
<1>1. \A u \in Requests : u # t => pc'[u] = pc[u] /\ job'[u] = job[u]
  BY DEF Typed, TypeOK, Goes, Calls
<1>2. \A u \in Requests : u # t => (AnswerOf(u))' = AnswerOf(u)
  BY <1>1, AnswerKept
<1>3. QED
  BY <1>2 DEF Answers

Inv == Typed /\ CachesAttributed /\ RequestsAttributed

\* What a step is of the abstract service.
Promised ==
    \/ \E v \in Versions : Service!Load(v)
    \/ \E t \in Requests : Service!Reply(t) \/ Service!Forget(t)
    \/ UNCHANGED <<shared, Live, Answers>>

\* A request that neither answers nor has answered does not change the answers,
LEMMA QuietRequest ==
    ASSUME Typed, ModelsKept, DOMAIN models' = DOMAIN models, shared' = shared,
           NEW t \in Requests, NEW s, NEW j, Goes(t, s, j), s # "reply", pc[t] # "reply"
    PROVE  Promised
<1>1. pc'[t] = s
  BY DEF Typed, TypeOK, Goes, Calls
<1>2. (AnswerOf(t))' = AnswerOf(t)
  BY <1>1 DEF AnswerOf, NoAnswer
<1>3. Answers' = Answers
  BY <1>2, OneAnswers DEF Answers
<1>4. Live' = Live
  BY DEF Live, ModelsKept
<1>5. QED
  BY <1>3, <1>4 DEF Promised

\* one that comes to its reply answers with the model it has used,
LEMMA RequestReplies ==
    ASSUME Typed, ModelsKept, DOMAIN models' = DOMAIN models, shared' = shared,
           NEW t \in Requests, NEW j, RequestFits(t, "reply", j), Goes(t, "reply", j)
    PROVE  Promised
<1> DEFINE v == models[j.use].model
<1>1. pc'[t] = "reply" /\ job'[t] = j
  BY DEF Typed, TypeOK, Goes, Calls
<1>2. j.use \in DOMAIN models /\ models'[j.use].model = v
  BY DEF RequestFits, ModelsKept, Requesting
<1>3. (AnswerOf(t))' = [said |-> v, by |-> j.seen]
  BY <1>1, <1>2 DEF AnswerOf
<1>4. Answers' = [Answers EXCEPT ![t] = [said |-> v, by |-> j.seen]]
  BY <1>3, OneAnswers
<1>5. v \in Live /\ j.seen \in SUBSET Live /\ (~shared => j.seen = {v})
  BY <1>2 DEF RequestFits, Live
<1>6. Live' = Live
  BY DEF Live, ModelsKept
<1> HIDE DEF v
<1>7. Service!Reply(t)
  BY <1>4, <1>5, <1>6 DEF Service!Reply, Answers, Live
<1>8. QED
  BY <1>7 DEF Promised

\* and one that is answered has no answer any more.
LEMMA RequestForgets ==
    ASSUME Typed, ModelsKept, DOMAIN models' = DOMAIN models, shared' = shared,
           NEW t \in Requests, NEW j, Goes(t, "idle", j)
    PROVE  Promised
<1>1. pc'[t] = "idle"
  BY DEF Typed, TypeOK, Goes, Calls
<1>2. (AnswerOf(t))' = NoAnswer
  BY <1>1 DEF AnswerOf
<1>3. Answers' = [Answers EXCEPT ![t] = NoAnswer]
  BY <1>2, OneAnswers
<1>4. Live' = Live
  BY DEF Live, ModelsKept
<1>5. Service!Forget(t)
  BY <1>3, <1>4 DEF Service!Forget, Answers, Live
<1>6. QED
  BY <1>5 DEF Promised

----------------------------------------------------------------------------
(* One lemma per kind of step                                              *)

\* A request that touches no object and no cache.
LEMMA RequestOnly ==
    ASSUME Inv, NEW t \in Requests, NEW s, NEW j, RequestFits(t, s, j), Goes(t, s, j),
           UNCHANGED <<shared, registry, state, redis, reloads, fresh>>
    PROVE  Inv' /\ ModelsKept /\ DOMAIN models' = DOMAIN models /\ shared' = shared
<1>1. /\ shared' = shared /\ pointer' = pointer /\ moves' = moves /\ memo' = memo
      /\ predictors' = predictors /\ pickers' = pickers /\ reloads' = reloads
      /\ models' = models /\ rankers' = rankers /\ redis' = redis
  BY Zenon DEF registry, state
<1>2. ModelsKept /\ RankersKept /\ redis' \in [Keys -> Entry]
  BY <1>1 DEF Inv, Typed, TypeOK, ModelsKept, RankersKept
<1>3. Typed' /\ RequestsAttributed'
  BY <1>1, <1>2, RequestGoes DEF Inv
<1>4. CachesAttributed'
  BY <1>1, <1>2, CachesStay DEF Inv
<1>5. QED
  BY <1>1, <1>2, <1>3, <1>4 DEF Inv

LEMMA RequestBegins ==
    ASSUME Inv, NEW t \in Requests, NEW r \in Replicas,
           PlanPick(t, r) \/ \E v \in Variants : Predict(t, r, v)
    PROVE  Inv' /\ Promised
<1>1. ASSUME PlanPick(t, r)
      PROVE  Inv' /\ Promised
  <2> DEFINE j == [Idle EXCEPT !.ranker = pickers[r], !.use = rankers[pickers[r]].of]
  <2>1. /\ pickers[r] \in DOMAIN rankers /\ rankers[pickers[r]].of \in DOMAIN models
        /\ DOMAIN rankers \subseteq Nat \ {0} /\ DOMAIN models \subseteq Nat \ {0}
    BY LenProperties DEF Inv, Typed, TypeOK
  <2>2. RequestFits(t, "query", j)
    BY <2>1, IdleType DEF RequestFits, Job, Requesting
  <2>3. Goes(t, "query", j) /\ pc[t] # "reply"
    BY <1>1 DEF PlanPick, Goes
  <2>4. UNCHANGED <<shared, registry, state, redis, reloads, fresh>>
    BY <1>1 DEF PlanPick
  <2> HIDE DEF j
  <2>5. Inv' /\ ModelsKept /\ DOMAIN models' = DOMAIN models /\ shared' = shared
    BY <2>2, <2>3, <2>4, RequestOnly
  <2>6. QED
    BY <2>3, <2>5, QuietRequest DEF Inv
<1>2. ASSUME NEW v \in Variants, Predict(t, r, v)
      PROVE  Inv' /\ Promised
  <2> DEFINE j == [Idle EXCEPT !.use = predictors[r], !.todo = {v}]
  <2>1. predictors[r] \in DOMAIN models /\ DOMAIN models \subseteq Nat \ {0}
    BY LenProperties DEF Inv, Typed, TypeOK
  <2>2. RequestFits(t, "score", j)
    BY <2>1, IdleType DEF RequestFits, Job, Requesting
  <2>3. Goes(t, "score", j) /\ pc[t] # "reply"
    BY <1>2 DEF Predict, Goes
  <2>4. UNCHANGED <<shared, registry, state, redis, reloads, fresh>>
    BY <1>2 DEF Predict
  <2> HIDE DEF j
  <2>5. Inv' /\ ModelsKept /\ DOMAIN models' = DOMAIN models /\ shared' = shared
    BY <2>2, <2>3, <2>4, RequestOnly
  <2>6. QED
    BY <2>3, <2>5, QuietRequest DEF Inv
<1>3. QED
  BY <1>1, <1>2

\* What a request has in hand.
LEMMA InHand ==
    ASSUME Inv, NEW t \in Requests
    PROVE  /\ job[t] \in Job
           /\ pc[t] # "idle" => job[t].use \in DOMAIN models
           /\ pc[t] # "idle" /\ job[t].ranker # 0 =>
                 /\ job[t].ranker \in DOMAIN rankers
                 /\ rankers[job[t].ranker].of = job[t].use
BY DEF Inv, Typed, TypeOK, RequestsMatch, Calls

\* What a lookup finds are predictions of models that were loaded, and of the model that
\* is asked unless the replicas share their caches.
LEMMA LookupsAttributed ==
    ASSUME Inv
    PROVE  /\ \A m \in DOMAIN models, v \in Variants :
                 /\ Prediction(m, v).by \subseteq Live
                 /\ ~shared => Prediction(m, v).by \subseteq {models[m].model}
           /\ \A k \in DOMAIN rankers :
                 /\ Ranking(k).by \subseteq Live
                 /\ ~shared => Ranking(k).by \subseteq {models[rankers[k].of].model}
<1>1. \A m \in DOMAIN models : models[m].model \in Live
  BY DEF Live
<1>2. \A v \in Variants : v \in Keys
  BY DEF Keys
<1>3. Query \in Keys
  BY DEF Keys
<1>4. ASSUME NEW m \in DOMAIN models, NEW v \in Variants
      PROVE  /\ Prediction(m, v).by \subseteq Live
             /\ ~shared => Prediction(m, v).by \subseteq {models[m].model}
  BY <1>1, <1>2 DEF Inv, CachesAttributed, Prediction
<1>5. ASSUME NEW k \in DOMAIN rankers
      PROVE  /\ Ranking(k).by \subseteq Live
             /\ ~shared => Ranking(k).by \subseteq {models[rankers[k].of].model}
  BY <1>3 DEF Inv, CachesAttributed, Ranking
<1>6. QED
  BY <1>4, <1>5

LEMMA LiveVersions ==
    ASSUME Inv
    PROVE  Live \subseteq Versions
<1>1. \A i \in DOMAIN models : models[i] \in Model
  BY LenProperties, ElementOfSeq DEF Inv, Typed, TypeOK
<1>2. QED
  BY <1>1 DEF Live, Model

LEMMA QueryStep ==
    ASSUME Inv, NEW t \in Requests, QueryHit(t) \/ QueryMiss(t)
    PROVE  Inv' /\ Promised
<1>1. /\ job[t] \in Job /\ pc[t] = "query" /\ job[t].ranker # 0
      /\ job[t].use \in DOMAIN models /\ job[t].ranker \in DOMAIN rankers
      /\ rankers[job[t].ranker].of = job[t].use
  BY InHand DEF QueryHit, QueryMiss, Inv, Typed, RequestsMatch
<1>2. UNCHANGED <<shared, registry, state, redis, reloads, fresh>>
  BY DEF QueryHit, QueryMiss
<1>3. ASSUME QueryHit(t)
      PROVE  Inv' /\ Promised
  <2> DEFINE found == Ranking(job[t].ranker).by
             j == [job[t] EXCEPT !.seen = found]
  <2>1. /\ found # {} /\ found \subseteq Live
        /\ ~shared => found \subseteq {models[job[t].use].model}
    BY <1>1, <1>3, LookupsAttributed DEF QueryHit
  <2>2. Live \subseteq Versions
    BY LiveVersions
  <2>3. Goes(t, "reply", j)
    BY <1>3 DEF QueryHit, Goes
  <2> HIDE DEF found
  <2>4. RequestFits(t, "reply", j)
    BY <1>1, <2>1, <2>2 DEF RequestFits, Job, Requesting
  <2> HIDE DEF j
  <2>5. Inv' /\ ModelsKept /\ DOMAIN models' = DOMAIN models /\ shared' = shared
    BY <1>2, <2>3, <2>4, RequestOnly
  <2>6. QED
    BY <2>3, <2>4, <2>5, RequestReplies DEF Inv
<1>4. ASSUME QueryMiss(t)
      PROVE  Inv' /\ Promised
  <2>1. PICK S \in SUBSET Variants : S # {} /\ job' = [job EXCEPT ![t].todo = S]
    BY <1>4 DEF QueryMiss
  <2> DEFINE j == [job[t] EXCEPT !.todo = S]
  <2>2. Goes(t, "score", j)
    BY <1>4, <2>1 DEF QueryMiss, Goes
  <2>3. pc[t] # "reply" /\ job[t].seen \subseteq Live
        /\ (~shared => job[t].seen \subseteq {models[job[t].use].model})
    BY <1>1 DEF Inv, RequestsAttributed
  <2>4. RequestFits(t, "score", j)
    BY <1>1, <2>1, <2>3 DEF RequestFits, Job, Requesting
  <2> HIDE DEF j
  <2>5. Inv' /\ ModelsKept /\ DOMAIN models' = DOMAIN models /\ shared' = shared
    BY <1>2, <2>2, <2>4, RequestOnly
  <2>6. QED
    BY <2>2, <2>3, <2>5, QuietRequest DEF Inv
<1>5. QED
  BY <1>3, <1>4

LEMMA ScoreStep ==
    ASSUME Inv, NEW t \in Requests, ScoreHit(t) \/ ScoreMiss(t)
    PROVE  Inv' /\ Promised
<1> DEFINE m == job[t].use
           v == NextVariant(t)
<1>1. /\ job[t] \in Job /\ pc[t] = "score" /\ m \in DOMAIN models /\ job[t].todo # {}
      /\ job[t].ranker # 0 => /\ job[t].ranker \in DOMAIN rankers
                             /\ rankers[job[t].ranker].of = m
  BY InHand DEF ScoreHit, ScoreMiss
<1>2. /\ job[t].seen \subseteq Live
      /\ ~shared => job[t].seen \subseteq {models[m].model}
  BY <1>1 DEF Inv, RequestsAttributed
<1>3. v \in Variants
  BY <1>1, NextVariantIn
<1>4. UNCHANGED <<shared, registry, state, redis, reloads, fresh>>
  BY DEF ScoreHit, ScoreMiss
<1>5. ASSUME ScoreHit(t)
      PROVE  Inv' /\ Promised
  <2> DEFINE found == Prediction(m, v).by
             j == [job[t] EXCEPT !.todo = job[t].todo \ {v}, !.seen = job[t].seen \cup found]
  <2>1. found # {}
    BY <1>5 DEF ScoreHit
  <2>2. found \subseteq Live /\ (~shared => found \subseteq {models[m].model})
    BY <1>1, <1>3, LookupsAttributed
  <2>3. Live \subseteq Versions
    BY LiveVersions
  <2>4. Goes(t, "score", j) /\ pc[t] # "reply"
    BY <1>5 DEF ScoreHit, Scored, Goes
  <2> HIDE DEF found, v
  <2>5. RequestFits(t, "score", j)
    BY <1>1, <1>2, <2>1, <2>2, <2>3 DEF RequestFits, Job, Requesting
  <2> HIDE DEF j
  <2>6. Inv' /\ ModelsKept /\ DOMAIN models' = DOMAIN models /\ shared' = shared
    BY <1>4, <2>4, <2>5, RequestOnly
  <2>7. QED
    BY <2>4, <2>6, QuietRequest DEF Inv
<1>6. ASSUME ScoreMiss(t)
      PROVE  Inv' /\ Promised
  <2> DEFINE j == job[t]
  <2>1. Goes(t, "infer", j) /\ pc[t] # "reply"
    BY <1>6 DEF ScoreMiss, Goes, Inv, Typed, TypeOK, Calls
  <2>2. RequestFits(t, "infer", j)
    BY <1>1, <1>2 DEF RequestFits, Requesting
  <2> HIDE DEF j
  <2>3. Inv' /\ ModelsKept /\ DOMAIN models' = DOMAIN models /\ shared' = shared
    BY <1>4, <2>1, <2>2, RequestOnly
  <2>4. QED
    BY <2>1, <2>3, QuietRequest DEF Inv
<1>7. QED
  BY <1>5, <1>6

LEMMA EndStep ==
    ASSUME Inv, NEW t \in Requests, InferFails(t) \/ Respond(t)
    PROVE  Inv' /\ Promised
<1>1. Goes(t, "idle", Idle)
  BY DEF InferFails, Respond, Goes
<1>2. UNCHANGED <<shared, registry, state, redis, reloads, fresh>>
  BY DEF InferFails, Respond
<1>3. RequestFits(t, "idle", Idle)
  BY IdleType DEF RequestFits
<1>4. Inv' /\ ModelsKept /\ DOMAIN models' = DOMAIN models /\ shared' = shared
  BY <1>1, <1>2, <1>3, RequestOnly
<1>5. QED
  BY <1>1, <1>4, RequestForgets DEF Inv

LEMMA PredictedStep ==
    ASSUME Inv, NEW t \in Requests, Predicted(t)
    PROVE  Inv' /\ Promised
<1> DEFINE j == job[t]
<1>1. /\ j \in Job /\ pc[t] = "score" /\ j.use \in DOMAIN models
      /\ j.todo = {} /\ j.ranker = 0
  BY InHand DEF Predicted
<1>2. j.seen # {} /\ j.seen \subseteq Live /\ (~shared => j.seen \subseteq {models[j.use].model})
  BY <1>1 DEF Inv, RequestsAttributed
<1>3. Goes(t, "reply", j)
  BY DEF Predicted, Goes, Inv, Typed, TypeOK, Calls
<1>4. UNCHANGED <<shared, registry, state, redis, reloads, fresh>>
  BY DEF Predicted
<1>5. RequestFits(t, "reply", j)
  BY <1>1, <1>2 DEF RequestFits, Requesting
<1> HIDE DEF j
<1>6. Inv' /\ ModelsKept /\ DOMAIN models' = DOMAIN models /\ shared' = shared
  BY <1>3, <1>4, <1>5, RequestOnly
<1>7. QED
  BY <1>3, <1>5, <1>6, RequestReplies DEF Inv

\* Rank, which caches the ranking that the request answers with.
LEMMA RankStep ==
    ASSUME Inv, NEW t \in Requests, Rank(t)
    PROVE  Inv' /\ Promised
<1> DEFINE j == job[t]
           k == job[t].ranker
<1>1. /\ j \in Job /\ pc[t] = "score" /\ j.use \in DOMAIN models /\ j.todo = {}
      /\ k # 0 /\ k \in DOMAIN rankers /\ rankers[k].of = j.use
  BY InHand DEF Rank
<1>2. j.seen # {} /\ j.seen \subseteq Live /\ (~shared => j.seen \subseteq {models[j.use].model})
  BY <1>1 DEF Inv, RequestsAttributed
<1>3. Goes(t, "reply", j)
  BY DEF Rank, Goes, Inv, Typed, TypeOK, Calls
<1>4. RequestFits(t, "reply", j)
  BY <1>1, <1>2 DEF RequestFits, Requesting
<1>5. j.seen \in SUBSET Versions
  BY <1>2, LiveVersions
<1>6. /\ shared' = shared /\ models' = models
      /\ UNCHANGED <<shared, pointer, moves, memo, predictors, pickers, reloads>>
  BY DEF Rank, registry
<1>7. ModelsKept
  BY <1>6 DEF ModelsKept, Inv, Typed, TypeOK
<1>8. rankers \in Seq(Ranker) /\ redis \in [Keys -> Entry] /\ SetRanking(k, j.seen)
  BY DEF Rank, Inv, Typed, TypeOK
<1> HIDE DEF j, k
<1>9. /\ RankersKept /\ DOMAIN rankers' = DOMAIN rankers
      /\ \A i \in DOMAIN rankers :
            \/ rankers'[i].cached.by = rankers[i].cached.by
            \/ i = k /\ rankers'[i].cached.by = j.seen
      /\ redis' \in [Keys -> Entry]
      /\ \A q \in Keys : redis'[q].by = redis[q].by \/ redis'[q].by = j.seen
  BY <1>1, <1>5, <1>8, SetRankingEffect
<1>10. Typed' /\ RequestsAttributed'
  BY <1>3, <1>4, <1>6, <1>7, <1>9, RequestGoes DEF Inv
<1>11. CachesAttributed'
  BY <1>1, <1>2, <1>6, <1>7, <1>9, CachesStay DEF Inv
<1>12. QED
  BY <1>3, <1>4, <1>6, <1>7, <1>10, <1>11, RequestReplies DEF Inv

\* Infer, which caches a prediction of the predictor that is asked.
LEMMA InferStep ==
    ASSUME Inv, NEW t \in Requests, Infer(t)
    PROVE  Inv' /\ Promised
<1> DEFINE m == job[t].use
           v == NextVariant(t)
           by == {models[m].model}
           j == [job[t] EXCEPT !.todo = job[t].todo \ {v}, !.seen = job[t].seen \cup by]
<1>1. /\ job[t] \in Job /\ pc[t] = "infer" /\ m \in DOMAIN models
      /\ job[t].ranker # 0 => /\ job[t].ranker \in DOMAIN rankers
                             /\ rankers[job[t].ranker].of = m
  BY InHand DEF Infer
<1>2. /\ job[t].todo # {} /\ job[t].seen \subseteq Live
      /\ ~shared => job[t].seen \subseteq {models[m].model}
  BY <1>1 DEF Inv, RequestsAttributed
<1>3. v \in Variants
  BY <1>1, <1>2, NextVariantIn
<1>4. by \subseteq Live /\ by \in SUBSET Versions /\ by # {}
  BY <1>1, LiveVersions DEF Live
<1>5. Goes(t, "score", j) /\ pc[t] # "reply"
  BY <1>1 DEF Infer, Scored, Goes
<1>6. SetPrediction(m, v, by)
  BY DEF Infer
<1>7. /\ shared' = shared /\ rankers' = rankers
      /\ UNCHANGED <<shared, pointer, moves, memo, predictors, pickers, reloads>>
  BY DEF Infer, registry
<1>8. RankersKept /\ models \in Seq(Model) /\ redis \in [Keys -> Entry]
  BY <1>7 DEF RankersKept, Inv, Typed, TypeOK
<1>9. Live \subseteq Versions
  BY LiveVersions
<1> HIDE DEF v
<1>10. RequestFits(t, "score", j)
  BY <1>1, <1>2, <1>4, <1>9 DEF RequestFits, Job, Requesting
<1>11. \A i \in DOMAIN models : i = m => by = {models[i].model}
  OBVIOUS
<1> HIDE DEF m, by, j
<1>12. /\ ModelsKept /\ DOMAIN models' = DOMAIN models
       /\ \A i \in DOMAIN models, w \in Variants :
             \/ models'[i].cache[w].by = models[i].cache[w].by
             \/ i = m /\ models'[i].cache[w].by = by
       /\ redis' \in [Keys -> Entry]
       /\ \A k \in Keys : redis'[k].by = redis[k].by \/ redis'[k].by = by
  BY <1>1, <1>3, <1>4, <1>6, <1>8, SetPredictionEffect
<1>13. Typed' /\ RequestsAttributed'
  BY <1>5, <1>7, <1>8, <1>10, <1>12, RequestGoes DEF Inv
<1>14. CachesAttributed'
  BY <1>4, <1>7, <1>8, <1>11, <1>12, CachesStay DEF Inv
<1>15. QED
  BY <1>5, <1>7, <1>12, <1>13, <1>14, QuietRequest DEF Inv

\* A reload answers nobody.
LEMMA QuietReload ==
    ASSUME Typed, ModelsKept, NEW t \in Reloaders, NEW s, NEW j, Goes(t, s, j), shared' = shared,
           Live' = Live \/ \E v \in Versions : Live' = Live \cup {v}
    PROVE  Promised
<1>1. \A u \in Requests : pc'[u] = pc[u] /\ job'[u] = job[u]
  BY ServingAssumption DEF Typed, TypeOK, Goes, Calls
<1>2. Answers' = Answers
  BY <1>1, AnswersKept
<1>3. CASE Live' = Live
  BY <1>2, <1>3 DEF Promised
<1>4. ASSUME NEW v \in Versions, Live' = Live \cup {v}
      PROVE  Promised
  <2>1. Service!Load(v)
    BY <1>2, <1>4 DEF Service!Load, Live, Answers
  <2>2. QED
    BY <2>1 DEF Promised
<1>5. QED
  BY <1>3, <1>4

\* A reload that touches no object and no cache.
LEMMA ReloadOnly ==
    ASSUME Inv, NEW t \in Reloaders,
           NEW s \in {"idle"} \cup Reloading, NEW j \in Job, Goes(t, s, j),
           s \in {"warm", "swapPredictors", "swapPickers"} => j.use \in DOMAIN models,
           s \in {"swapPredictors", "swapPickers"} => j.ranker \in DOMAIN rankers,
           memo' \in [Replicas -> {0} \cup DOMAIN models],
           predictors' \in [Replicas -> DOMAIN models],
           pickers' \in [Replicas -> DOMAIN rankers],
           reloads' \in Nat, UNCHANGED <<shared, pointer, moves, models, rankers, redis>>
    PROVE  Inv' /\ Promised
<1>1. /\ shared' = shared /\ models' = models /\ rankers' = rankers /\ redis' = redis
      /\ UNCHANGED <<shared, pointer, moves>>
  OBVIOUS
<1>2. ModelsKept /\ RankersKept /\ redis' \in [Keys -> Entry] /\ Live' = Live
  BY <1>1 DEF Inv, Typed, TypeOK, ModelsKept, RankersKept, Live
<1>3. \A k \in DOMAIN rankers' : rankers'[k].of \in DOMAIN models'
  BY <1>1 DEF Inv, Typed, TypeOK
<1>4. Typed' /\ RequestsAttributed'
  BY <1>1, <1>2, <1>3, ReloadGoes DEF Inv
<1>5. CachesAttributed'
  BY <1>1, <1>2, CachesStay DEF Inv
<1>6. QED
  BY <1>1, <1>2, <1>4, <1>5, QuietReload DEF Inv

\* What a reload has in hand.
LEMMA ReloadInHand ==
    ASSUME Inv, NEW t \in Reloaders
    PROVE  /\ job[t] \in Job /\ job[t].at \in Replicas
           /\ pc[t] \in {"warm", "swapPredictors", "swapPickers"} => job[t].use \in DOMAIN models
           /\ pc[t] \in {"swapPredictors", "swapPickers"} => job[t].ranker \in DOMAIN rankers
           /\ memo \in [Replicas -> {0} \cup DOMAIN models]
           /\ predictors \in [Replicas -> DOMAIN models]
           /\ pickers \in [Replicas -> DOMAIN rankers]
           /\ models \in Seq(Model) /\ rankers \in Seq(Ranker) /\ redis \in [Keys -> Entry]
           /\ reloads \in Nat
<1>1. job[t] \in Job
  BY DEF Inv, Typed, TypeOK, Calls
<1>2. job[t].at \in Replicas
  BY <1>1 DEF Job
<1>3. QED
  BY <1>1, <1>2 DEF Inv, Typed, TypeOK, ReloadsMatch

LEMMA ReloadBegins ==
    ASSUME Inv, NEW t \in Reloaders, NEW r \in Replicas, Reload(t, r)
    PROVE  Inv' /\ Promised
<1> DEFINE j == [Idle EXCEPT !.at = r]
<1>1. j \in Job /\ Goes(t, "build", j)
  BY IdleType DEF Reload, Goes, Job
<1>2. UNCHANGED <<shared, pointer, moves, models, rankers, redis>>
  BY DEF Reload, registry
<1>3. /\ memo' \in [Replicas -> {0} \cup DOMAIN models]
      /\ predictors' \in [Replicas -> DOMAIN models]
      /\ pickers' \in [Replicas -> DOMAIN rankers]
      /\ reloads' \in Nat
  BY ReloadInHand DEF Reload
<1> HIDE DEF j
<1>4. "build" \in {"idle"} \cup Reloading
  BY DEF Reloading
<1>5. QED
  BY <1>1, <1>2, <1>3, <1>4, ReloadOnly

LEMMA MemoStep ==
    ASSUME Inv, NEW t \in Reloaders, GetMemo(t)
    PROVE  Inv' /\ Promised
<1> DEFINE j == [job[t] EXCEPT !.use = memo[job[t].at]]
<1>1. memo[job[t].at] \in DOMAIN models /\ DOMAIN models \subseteq Nat
  BY ReloadInHand, LenProperties DEF GetMemo
<1>2. j \in Job /\ j.use \in DOMAIN models /\ Goes(t, "warm", j)
  BY <1>1, ReloadInHand DEF GetMemo, Goes, Job
<1>3. UNCHANGED <<shared, pointer, moves, models, rankers, redis>>
  BY DEF GetMemo, registry, state
<1>4. /\ memo' \in [Replicas -> {0} \cup DOMAIN models]
      /\ predictors' \in [Replicas -> DOMAIN models]
      /\ pickers' \in [Replicas -> DOMAIN rankers]
      /\ reloads' \in Nat
  BY ReloadInHand DEF GetMemo, state
<1> HIDE DEF j
<1>5. "warm" \in {"idle"} \cup Reloading
  BY DEF Reloading
<1>6. QED
  BY <1>2, <1>3, <1>4, <1>5, ReloadOnly

LEMMA LoadFailsStep ==
    ASSUME Inv, NEW t \in Reloaders, LoadFails(t)
    PROVE  Inv' /\ Promised
<1>1. Idle \in Job /\ Goes(t, "idle", Idle)
  BY IdleType DEF LoadFails, Goes
<1>2. UNCHANGED <<shared, pointer, moves, models, rankers, redis>>
  BY DEF LoadFails, registry, state
<1>3. /\ memo' \in [Replicas -> {0} \cup DOMAIN models]
      /\ predictors' \in [Replicas -> DOMAIN models]
      /\ pickers' \in [Replicas -> DOMAIN rankers]
      /\ reloads' \in Nat
  BY ReloadInHand DEF LoadFails, state
<1>4. QED
  BY <1>1, <1>2, <1>3, ReloadOnly

LEMMA SwapStep ==
    ASSUME Inv, NEW t \in Reloaders, SwapPredictors(t) \/ SwapPickers(t)
    PROVE  Inv' /\ Promised
<1>1. UNCHANGED <<shared, pointer, moves, models, rankers, redis>>
  BY DEF SwapPredictors, SwapPickers, registry
<1>2. ASSUME SwapPredictors(t)
      PROVE  Inv' /\ Promised
  <2> DEFINE j == job[t]
  <2>1. /\ j \in Job /\ j.use \in DOMAIN models
    BY <1>2, ReloadInHand DEF SwapPredictors
  <2>2. pc[t] = "swapPredictors"
    BY <1>2 DEF SwapPredictors
  <2>3. Goes(t, "swapPickers", j)
    BY <1>2 DEF SwapPredictors, Goes, Inv, Typed, TypeOK, Calls
  <2>4. j.ranker \in DOMAIN rankers
    BY <2>2, ReloadInHand
  <2>5. /\ memo' \in [Replicas -> {0} \cup DOMAIN models]
        /\ predictors' \in [Replicas -> DOMAIN models]
        /\ pickers' \in [Replicas -> DOMAIN rankers]
        /\ reloads' \in Nat
    BY <1>2, <2>1, ReloadInHand DEF SwapPredictors
  <2> HIDE DEF j
  <2>6. "swapPickers" \in {"idle"} \cup Reloading
    BY DEF Reloading
  <2>7. QED
    BY <1>1, <2>1, <2>3, <2>4, <2>5, <2>6, ReloadOnly
<1>3. ASSUME SwapPickers(t)
      PROVE  Inv' /\ Promised
  <2>1. Idle \in Job /\ Goes(t, "idle", Idle)
    BY <1>3, IdleType DEF SwapPickers, Goes
  <2>2. pc[t] = "swapPickers"
    BY <1>3 DEF SwapPickers
  <2>3. /\ memo' \in [Replicas -> {0} \cup DOMAIN models]
        /\ predictors' \in [Replicas -> DOMAIN models]
        /\ pickers' \in [Replicas -> DOMAIN rankers]
        /\ reloads' \in Nat
    BY <1>3, <2>2, ReloadInHand DEF SwapPickers
  <2>4. QED
    BY <1>1, <2>1, <2>3, ReloadOnly
<1>4. QED
  BY <1>2, <1>3

LEMMA Backends ==
    ASSUME shared \in BOOLEAN, NEW remote \in BackendChoices
    PROVE  remote \in BOOLEAN /\ (~shared => ~remote)
BY DEF BackendChoices

\* Load, which adds a predictor with empty caches.
LEMMA LoadStep ==
    ASSUME Inv, NEW t \in Reloaders, Load(t)
    PROVE  Inv' /\ Promised
<1>1. PICK remote \in BackendChoices : models' = Append(models, NewModel(pointer, remote))
  BY DEF Load
<1> DEFINE r == job[t].at
           i == Len(models) + 1
           j == [job[t] EXCEPT !.use = i]
           new == NewModel(pointer, remote)
<1>2. /\ shared \in BOOLEAN /\ pointer \in Versions /\ models \in Seq(Model)
      /\ job[t] \in Job /\ r \in Replicas /\ memo \in [Replicas -> {0} \cup DOMAIN models]
      /\ predictors \in [Replicas -> DOMAIN models] /\ pickers \in [Replicas -> DOMAIN rankers]
      /\ rankers \in Seq(Ranker) /\ redis \in [Keys -> Entry] /\ reloads \in Nat
  BY ReloadInHand DEF Inv, Typed, TypeOK
<1>3. remote \in BOOLEAN /\ (~shared => ~remote)
  BY <1>2, Backends
<1>4. /\ new \in Model /\ new.model = pointer /\ new.remote = remote
      /\ \A v \in Variants : new.cache[v].by = {}
  BY <1>2, <1>3 DEF NewModel, Model, Entry, NoEntry
<1>5. /\ shared' = shared /\ pointer' = pointer /\ rankers' = rankers /\ redis' = redis
      /\ predictors' = predictors /\ pickers' = pickers /\ reloads' = reloads
      /\ UNCHANGED <<shared, pointer, moves>>
  BY DEF Load, registry
<1>6. memo' = [memo EXCEPT ![r] = i] /\ Goes(t, "warm", j)
  BY DEF Load, Goes
<1> HIDE DEF new
<1>7. /\ models' \in Seq(Model) /\ i \in DOMAIN models' /\ DOMAIN models' = DOMAIN models \cup {i}
      /\ \A k \in DOMAIN models : models'[k] = models[k]
      /\ models'[i] = new
  <2>1. models' = Append(models, new)
    BY <1>1 DEF new
  <2>2. QED
    BY <1>2, <1>4, <2>1, Appended
<1>8. i \in Nat
  BY <1>2, LenProperties
<1>9. j \in Job /\ j.use = i
  BY <1>2, <1>8 DEF Job
<1> HIDE DEF i, j
<1>10. ModelsKept /\ RankersKept
  BY <1>2, <1>5, <1>7 DEF ModelsKept, RankersKept
<1>11. Live' = Live \cup {pointer}
  BY <1>4, <1>7 DEF Live
<1>12. \A k \in DOMAIN rankers : rankers[k].of \in DOMAIN models
  BY DEF Inv, Typed, TypeOK
<1>13. /\ memo' \in [Replicas -> {0} \cup DOMAIN models']
       /\ predictors' \in [Replicas -> DOMAIN models']
       /\ pickers' \in [Replicas -> DOMAIN rankers']
       /\ redis' \in [Keys -> Entry] /\ reloads' \in Nat
       /\ \A k \in DOMAIN rankers' : rankers'[k].of \in DOMAIN models'
  BY <1>2, <1>5, <1>6, <1>7, <1>12
<1>14. "warm" \in {"idle"} \cup Reloading
  BY DEF Reloading
<1>15. Typed' /\ RequestsAttributed'
  BY <1>5, <1>6, <1>7, <1>9, <1>10, <1>13, <1>14, ReloadGoes DEF Inv
<1>16. CachesAttributed'
  <2>1. \A k \in DOMAIN models', v \in Variants : models'[k].cache[v].by \subseteq {models'[k].model}
    BY <1>4, <1>7 DEF Inv, CachesAttributed
  <2>2. \A k \in DOMAIN rankers' : rankers'[k].cached.by \subseteq Live'
    BY <1>5, <1>11 DEF Inv, CachesAttributed
  <2>3. \A k \in Keys : redis'[k].by \subseteq Live'
    BY <1>5, <1>11 DEF Inv, CachesAttributed
  <2>4. ASSUME ~shared
        PROVE  /\ \A k \in DOMAIN models' : ~models'[k].remote
               /\ \A k \in DOMAIN rankers' :
                     /\ ~rankers'[k].remote
                     /\ rankers'[k].cached.by \subseteq {models'[rankers'[k].of].model}
    BY <2>4, <1>3, <1>4, <1>5, <1>7, <1>12 DEF Inv, CachesAttributed
  <2>5. QED
    BY <1>5, <2>1, <2>2, <2>3, <2>4 DEF CachesAttributed
<1>17. Promised
  BY <1>2, <1>5, <1>6, <1>10, <1>11, QuietReload DEF Inv
<1>18. QED
  BY <1>15, <1>16, <1>17 DEF Inv

\* WarmUp, which adds a picker and empties the predictor's cache.
LEMMA WarmStep ==
    ASSUME Inv, NEW t \in Reloaders, WarmUp(t)
    PROVE  Inv' /\ Promised
<1>1. PICK remote \in BackendChoices : rankers' = Append(rankers, NewRanker(job[t].use, remote))
  BY DEF WarmUp
<1> DEFINE m == job[t].use
           k == Len(rankers) + 1
           j == [job[t] EXCEPT !.ranker = k]
           new == NewRanker(m, remote)
<1>2. /\ shared \in BOOLEAN /\ models \in Seq(Model) /\ rankers \in Seq(Ranker)
      /\ job[t] \in Job /\ m \in DOMAIN models /\ memo \in [Replicas -> {0} \cup DOMAIN models]
      /\ predictors \in [Replicas -> DOMAIN models] /\ pickers \in [Replicas -> DOMAIN rankers]
      /\ redis \in [Keys -> Entry] /\ reloads \in Nat
      /\ \A q \in DOMAIN rankers : rankers[q].of \in DOMAIN models
  BY ReloadInHand DEF WarmUp, Inv, Typed, TypeOK
<1>3. remote \in BOOLEAN /\ (~shared => ~remote) /\ m \in Nat
  BY <1>2, Backends DEF Job
<1>4. /\ new \in Ranker /\ new.of = m /\ new.remote = remote /\ new.cached.by = {}
  BY <1>3 DEF NewRanker, Ranker, Entry, NoEntry
<1>5. /\ shared' = shared /\ memo' = memo
      /\ predictors' = predictors /\ pickers' = pickers /\ reloads' = reloads
      /\ UNCHANGED <<shared, pointer, moves>>
  BY DEF WarmUp, registry
<1>6. Goes(t, "swapPredictors", j)
  BY DEF WarmUp, Goes
<1>7. ClearPredictions(m) \/ UNCHANGED <<models, redis>>
  BY DEF WarmUp
<1> HIDE DEF new
<1>8. /\ rankers' \in Seq(Ranker) /\ k \in DOMAIN rankers' /\ DOMAIN rankers' = DOMAIN rankers \cup {k}
      /\ \A q \in DOMAIN rankers : rankers'[q] = rankers[q]
      /\ rankers'[k] = new
  <2>1. rankers' = Append(rankers, new)
    BY <1>1 DEF new
  <2>2. QED
    BY <1>2, <1>4, <2>1, Appended
<1>9. k \in Nat
  BY <1>2, LenProperties
<1>10. j \in Job /\ j.use = m /\ j.ranker = k
  BY <1>2, <1>9 DEF Job
<1> HIDE DEF m, k, j
<1>11. /\ ModelsKept /\ DOMAIN models' = DOMAIN models
       /\ \A i \in DOMAIN models, w \in Variants :
             models'[i].cache[w].by = models[i].cache[w].by \/ models'[i].cache[w].by = {}
       /\ redis' \in [Keys -> Entry]
       /\ \A q \in Keys : redis'[q].by = redis[q].by \/ redis'[q].by = {}
  BY <1>2, <1>7, ClearPredictionsEffect
<1>12. RankersKept
  BY <1>8 DEF RankersKept
<1>13. Live' = Live
  BY <1>11 DEF Live, ModelsKept
<1>14. /\ memo' \in [Replicas -> {0} \cup DOMAIN models']
       /\ predictors' \in [Replicas -> DOMAIN models']
       /\ pickers' \in [Replicas -> DOMAIN rankers']
       /\ reloads' \in Nat
       /\ \A q \in DOMAIN rankers' : rankers'[q].of \in DOMAIN models'
  BY <1>2, <1>4, <1>5, <1>8, <1>11
<1>15. "swapPredictors" \in {"idle"} \cup Reloading
  BY DEF Reloading
<1>16. j.use \in DOMAIN models' /\ j.ranker \in DOMAIN rankers'
  BY <1>2, <1>8, <1>10, <1>11
<1>17. Typed' /\ RequestsAttributed'
  BY <1>5, <1>6, <1>10, <1>11, <1>12, <1>14, <1>15, <1>16, ReloadGoes DEF Inv
<1>18. CachesAttributed'
  <2>1. \A i \in DOMAIN models', v \in Variants : models'[i].cache[v].by \subseteq {models'[i].model}
    BY <1>11 DEF Inv, CachesAttributed, ModelsKept
  <2>2. \A q \in DOMAIN rankers' : rankers'[q].cached.by \subseteq Live'
    BY <1>4, <1>8, <1>13 DEF Inv, CachesAttributed
  <2>3. \A q \in Keys : redis'[q].by \subseteq Live'
    BY <1>11, <1>13 DEF Inv, CachesAttributed
  <2>4. ASSUME ~shared
        PROVE  /\ \A i \in DOMAIN models' : ~models'[i].remote
               /\ \A q \in DOMAIN rankers' :
                     /\ ~rankers'[q].remote
                     /\ rankers'[q].cached.by \subseteq {models'[rankers'[q].of].model}
    <3>1. \A i \in DOMAIN models' : ~models'[i].remote
      BY <2>4, <1>11 DEF Inv, CachesAttributed, ModelsKept
    <3>2. \A q \in DOMAIN rankers : models'[rankers[q].of].model = models[rankers[q].of].model
      BY <1>2, <1>11 DEF ModelsKept
    <3>3. ASSUME NEW q \in DOMAIN rankers'
          PROVE  /\ ~rankers'[q].remote
                 /\ rankers'[q].cached.by \subseteq {models'[rankers'[q].of].model}
      BY <2>4, <3>2, <1>3, <1>4, <1>8 DEF Inv, CachesAttributed
    <3>4. QED
      BY <3>1, <3>3
  <2>5. QED
    BY <1>5, <2>1, <2>2, <2>3, <2>4 DEF CachesAttributed
<1>19. Promised
  BY <1>5, <1>6, <1>11, <1>13, QuietReload DEF Inv
<1>20. QED
  BY <1>17, <1>18, <1>19 DEF Inv

LEMMA PromoteStep ==
    ASSUME Inv, Promote
    PROVE  Inv' /\ Promised
<1>1. /\ shared' = shared /\ models' = models /\ rankers' = rankers /\ redis' = redis
      /\ memo' = memo /\ predictors' = predictors /\ pickers' = pickers
      /\ pc' = pc /\ job' = job /\ reloads' = reloads
  BY DEF Promote, state
<1>2. pointer' \in Versions /\ moves' \in Nat
  BY DEF Promote, Inv, Typed, TypeOK
<1>3. ModelsKept /\ RankersKept /\ Live' = Live
  BY <1>1 DEF Inv, Typed, TypeOK, ModelsKept, RankersKept, Live
<1>4. TypeOK'
  BY <1>1, <1>2 DEF Inv, Typed, TypeOK
<1>5. RequestsMatch' /\ RequestsAttributed'
  BY <1>1, <1>3, RequestsUndisturbed DEF Inv
<1>6. ReloadsMatch'
  BY <1>1 DEF Inv, Typed, ReloadsMatch
<1>7. CachesAttributed'
  BY <1>1, <1>3, CachesStay DEF Inv
<1>8. Answers' = Answers
  BY <1>1, <1>3, AnswersKept DEF Inv
<1>9. QED
  BY <1>1, <1>3, <1>4, <1>5, <1>6, <1>7, <1>8 DEF Inv, Typed, Promised

LEMMA TickStep ==
    ASSUME Inv, Tick
    PROVE  Inv' /\ Promised
<1>1. /\ shared' = shared /\ models' = models /\ rankers' = rankers
      /\ memo' = memo /\ predictors' = predictors /\ pickers' = pickers
      /\ pc' = pc /\ job' = job /\ reloads' = reloads /\ pointer' = pointer /\ moves' = moves
  BY DEF Tick, state, registry
<1>2. /\ redis' \in [Keys -> Entry]
      /\ \A q \in Keys : redis'[q].by = redis[q].by \/ redis'[q].by = {}
  <2>1. PICK none \in Entry : none = NoEntry /\ none.by = {}
    <3>1. NoEntry \in Entry /\ NoEntry.by = {}
      BY DEF NoEntry, Entry
    <3>2. QED
      BY <3>1, Zenon
  <2>2. redis \in [Keys -> Entry]
    BY DEF Inv, Typed, TypeOK
  <2>3. redis' = [q \in Keys |-> IF redis[q] = none \/ redis[q].old
                                 THEN none ELSE [redis[q] EXCEPT !.old = TRUE]]
    BY <2>1, Zenon DEF Tick
  <2>4. \A q \in Keys : /\ [redis[q] EXCEPT !.old = TRUE] \in Entry
                        /\ [redis[q] EXCEPT !.old = TRUE].by = redis[q].by
    BY <2>2 DEF Entry
  <2>5. QED
    BY <2>1, <2>2, <2>3, <2>4
<1>3. ModelsKept /\ RankersKept /\ Live' = Live
  BY <1>1 DEF Inv, Typed, TypeOK, ModelsKept, RankersKept, Live
<1>4. TypeOK'
  BY <1>1, <1>2 DEF Inv, Typed, TypeOK
<1>5. RequestsMatch' /\ RequestsAttributed'
  BY <1>1, <1>3, RequestsUndisturbed DEF Inv
<1>6. ReloadsMatch'
  BY <1>1 DEF Inv, Typed, ReloadsMatch
<1>7. CachesAttributed'
  BY <1>1, <1>2, <1>3, CachesStay DEF Inv
<1>8. Answers' = Answers
  BY <1>1, <1>3, AnswersKept DEF Inv
<1>9. QED
  BY <1>1, <1>3, <1>4, <1>5, <1>6, <1>7, <1>8 DEF Inv, Typed, Promised

----------------------------------------------------------------------------
(* Theorems                                                                *)

LEMMA InitEstablishes == Init => Inv /\ Service!Init
<1> SUFFICES ASSUME Init PROVE Inv /\ Service!Init
  OBVIOUS
<1> DEFINE n == Cardinality(Replicas)
<1>1. n \in Nat /\ pointer \in Versions /\ shared \in BOOLEAN
  <2>1. n \in Nat
    BY ServingAssumption, FS_CardinalityType
  <2>2. pointer \in Versions
    BY ServingAssumption DEF Init
  <2>3. QED
    BY <2>1, <2>2 DEF Init
<1>2. PICK none \in Entry : none = NoEntry /\ none.by = {}
  <2>1. NoEntry \in Entry /\ NoEntry.by = {}
    BY DEF NoEntry, Entry
  <2>2. QED
    BY <2>1, Zenon
<1>3. PICK index \in [Replicas -> 1 .. n] : memo = index /\ predictors = index /\ pickers = index
  BY Zenon DEF Init
<1> HIDE DEF n
<1>4. /\ models \in Seq(Model) /\ DOMAIN models = 1 .. n
      /\ \A i \in 1 .. n : /\ models[i].model = pointer /\ models[i].remote = shared
                           /\ \A v \in Variants : models[i].cache[v].by = {}
  <2> DEFINE new == NewModel(pointer, shared)
  <2>1. /\ new \in Model /\ new.model = pointer /\ new.remote = shared
        /\ \A v \in Variants : new.cache[v].by = {}
    BY <1>1 DEF NewModel, Model, Entry, NoEntry
  <2>2. models = [i \in 1 .. n |-> new]
    BY Zenon DEF Init, n
  <2> HIDE DEF new
  <2>3. QED
    BY <1>1, <2>1, <2>2
<1>5. /\ rankers \in Seq(Ranker) /\ DOMAIN rankers = 1 .. n
      /\ \A i \in 1 .. n : rankers[i].of = i /\ rankers[i].remote = shared /\ rankers[i].cached.by = {}
  <2>1. rankers = [i \in 1 .. n |-> NewRanker(i, shared)]
    BY Zenon DEF Init, n
  <2>2. \A i \in 1 .. n : /\ NewRanker(i, shared) \in Ranker /\ NewRanker(i, shared).of = i
                          /\ NewRanker(i, shared).remote = shared
                          /\ NewRanker(i, shared).cached.by = {}
    BY <1>1 DEF NewRanker, Ranker, Entry, NoEntry
  <2>3. QED
    BY <1>1, <2>1, <2>2
<1>6. redis \in [Keys -> Entry] /\ \A k \in Keys : redis[k].by = {}
  <2>1. redis = [k \in Keys |-> none]
    BY <1>2, Zenon DEF Init
  <2>2. QED
    BY <1>2, <2>1
<1>7. /\ pc \in [Calls -> {"idle"}] /\ job \in [Calls -> Job] /\ moves = 0 /\ reloads = 0
      /\ \A t \in Calls : pc[t] = "idle"
  BY IdleType DEF Init
<1>8. TypeOK
  BY <1>1, <1>3, <1>4, <1>5, <1>6, <1>7 DEF TypeOK
<1>9. RequestsMatch /\ ReloadsMatch /\ RequestsAttributed
  BY <1>7 DEF RequestsMatch, ReloadsMatch, RequestsAttributed, Calls
<1>10. CachesAttributed
  BY <1>4, <1>5, <1>6 DEF CachesAttributed
<1>11. Service!Init
  <2>1. \A t \in Requests : AnswerOf(t) = NoAnswer
    BY <1>7 DEF AnswerOf, Calls
  <2>2. Live \in SUBSET Versions
    BY <1>1, <1>4 DEF Live
  <2>3. QED
    BY <1>1, <2>1, <2>2 DEF Service!Init, Live
<1>12. QED
  BY <1>8, <1>9, <1>10, <1>11 DEF Inv, Typed

LEMMA StepKeeps ==
    ASSUME Inv, [Next]_vars
    PROVE  Inv' /\ Promised
<1>1. ASSUME NEW t \in Requests, NEW r \in Replicas,
             PlanPick(t, r) \/ \E v \in Variants : Predict(t, r, v)
      PROVE  Inv' /\ Promised
  BY <1>1, RequestBegins
<1>2. ASSUME NEW t \in Reloaders, NEW r \in Replicas, Reload(t, r)
      PROVE  Inv' /\ Promised
  BY <1>2, ReloadBegins
<1>3. ASSUME NEW t \in Requests, RequestStep(t)
      PROVE  Inv' /\ Promised
  BY <1>3, QueryStep, ScoreStep, InferStep, EndStep, RankStep, PredictedStep DEF RequestStep
<1>4. ASSUME NEW t \in Reloaders, ReloadStep(t)
      PROVE  Inv' /\ Promised
  BY <1>4, MemoStep, LoadStep, LoadFailsStep, WarmStep, SwapStep DEF ReloadStep
<1>5. CASE UNCHANGED vars
  <2>1. /\ shared' = shared /\ models' = models /\ rankers' = rankers /\ redis' = redis
        /\ memo' = memo /\ predictors' = predictors /\ pickers' = pickers
        /\ pc' = pc /\ job' = job /\ reloads' = reloads /\ pointer' = pointer /\ moves' = moves
    <3>1. /\ shared' = shared /\ registry' = registry /\ state' = state /\ redis' = redis
          /\ pc' = pc /\ job' = job /\ reloads' = reloads
      BY <1>5, Zenon DEF vars
    <3>2. QED
      BY <3>1, Zenon DEF registry, state
  <2>2. ModelsKept /\ RankersKept /\ Live' = Live
    BY <2>1 DEF Inv, Typed, TypeOK, ModelsKept, RankersKept, Live
  <2>3. TypeOK'
    BY <2>1 DEF Inv, Typed, TypeOK
  <2>4. RequestsMatch' /\ RequestsAttributed'
    BY <2>1, <2>2, RequestsUndisturbed DEF Inv
  <2>5. ReloadsMatch'
    BY <2>1 DEF Inv, Typed, ReloadsMatch
  <2>6. CachesAttributed'
    BY <2>1, <2>2, CachesStay DEF Inv
  <2>7. Answers' = Answers
    BY <2>1, <2>2, AnswersKept DEF Inv
  <2>8. QED
    BY <2>1, <2>2, <2>3, <2>4, <2>5, <2>6, <2>7 DEF Inv, Typed, Promised
<1>6. QED
  BY <1>1, <1>2, <1>3, <1>4, <1>5, PromoteStep, TickStep DEF Next

\* The variables of the service have their types, for any number of models loaded,
\* and every call has the predictor and the picker it works with.
THEOREM ServingTypes == Spec => []Typed
<1>1. Init => Inv
  BY InitEstablishes
<1>2. Inv /\ [Next]_vars => Inv'
  BY StepKeeps
<1>3. Inv => Typed
  BY DEF Inv
<1>4. QED
  BY <1>1, <1>2, <1>3, PTL DEF Spec

\* Whatever requests, reloads and promotions overlap, the replicas answer as
\* AttributedService says.
THEOREM AnswersAttributed == Spec => Attributed
<1>1. Init => Inv /\ Service!Init
  BY InitEstablishes
<1>2. Inv /\ [Next]_vars => Inv'
  BY StepKeeps
<1>3. Inv /\ [Next]_vars => [Service!Next]_(Service!vars)
  <2> SUFFICES ASSUME Inv, [Next]_vars PROVE [Service!Next]_(Service!vars)
    OBVIOUS
  <2>1. \A v \in Versions : Service!Load(v) => Service!Next
    BY DEF Service!Next
  <2>2. \A t \in Requests : Service!Reply(t) \/ Service!Forget(t) => Service!Next
    BY DEF Service!Next
  <2>3. UNCHANGED <<shared, Live, Answers>> => UNCHANGED Service!vars
    BY DEF Service!vars, Live, Answers
  <2>4. Promised
    BY StepKeeps
  <2>5. QED
    BY <2>1, <2>2, <2>3, <2>4 DEF Promised
<1>4. QED
  BY <1>1, <1>2, <1>3, PTL DEF Spec, Attributed, Service!Spec

----------------------------------------------------------------------------
(* Reloads that do not overlap                                             *)

\* The predictor and the picker of a replica belong together, and their model is one
\* the registry has named since the last reload began.
Whole(r) ==
    /\ rankers[pickers[r]].of = predictors[r]
    /\ models[predictors[r]].model \in fresh[r].since

\* A reload t of replica r builds its own predictor, from a version the registry has
\* named since it began, and its picker upon it, and installs both.
Carries(t, r) ==
    /\ pc[t] = "build" => memo[r] = 0
    /\ pc[t] # "build" => models[job[t].use].model \in fresh[r].pending
    /\ pc[t] \in {"swapPredictors", "swapPickers"} => rankers[job[t].ranker].of = job[t].use
    /\ pc[t] = "swapPickers" => predictors[r] = job[t].use

Serial(r) ==
    fresh[r] # Overlapped =>
        /\ pointer \in fresh[r].since
        /\ \A t, u \in ReloadsAt(r) : t = u
        /\ \A t \in ReloadsAt(r) : pointer \in fresh[r].pending /\ Carries(t, r)
        /\ (\A t \in ReloadsAt(r) : pc[t] # "swapPickers") => Whole(r)

FreshTyped == fresh \in [Replicas -> [since : SUBSET Versions, pending : SUBSET Versions]]

InSeries == FreshTyped /\ \A r \in Replicas : Serial(r)

LEMMA SeriesInit == Init => InSeries
<1> SUFFICES ASSUME Init PROVE InSeries
  OBVIOUS
<1>1. Inv
  BY InitEstablishes
<1>2. pointer \in Versions
  BY <1>1 DEF Inv, Typed, TypeOK
<1>3. FreshTyped /\ \A r \in Replicas : fresh[r].since = {pointer}
  BY <1>2 DEF Init, FreshTyped
<1>4. \A r \in Replicas : ReloadsAt(r) = {}
  BY DEF Init, ReloadsAt, Reloading, Calls
<1>5. \A r \in Replicas : /\ rankers[pickers[r]].of = predictors[r]
                         /\ models[predictors[r]].model = pointer
  <2>1. PICK index \in [Replicas -> 1 .. Cardinality(Replicas)] :
           predictors = index /\ pickers = index
    BY Zenon DEF Init
  <2>2. \A i \in 1 .. Cardinality(Replicas) : models[i].model = pointer /\ rankers[i].of = i
    BY DEF Init, NewModel, NewRanker
  <2>3. QED
    BY <2>1, <2>2
<1>6. QED
  BY <1>3, <1>4, <1>5 DEF InSeries, Serial, Whole

\* Nothing of replica r changes, whatever is added to the objects.
LEMMA SerialStays ==
    ASSUME Inv, NEW r \in Replicas, Serial(r), ModelsKept, RankersKept,
           pointer' = pointer, fresh'[r] = fresh[r], memo'[r] = memo[r],
           predictors'[r] = predictors[r], pickers'[r] = pickers[r],
           ReloadsAt(r)' = ReloadsAt(r),
           \A t \in ReloadsAt(r) : pc'[t] = pc[t] /\ job'[t] = job[t]
    PROVE  Serial(r)'
<1>1. predictors[r] \in DOMAIN models /\ pickers[r] \in DOMAIN rankers
  BY DEF Inv, Typed, TypeOK
<1>2. Whole(r) => Whole(r)'
  BY <1>1 DEF Whole, ModelsKept, RankersKept
<1>3. \A t \in ReloadsAt(r) :
         /\ pc[t] # "build" => job[t].use \in DOMAIN models
         /\ pc[t] \in {"swapPredictors", "swapPickers"} => job[t].ranker \in DOMAIN rankers
  BY DEF Inv, Typed, ReloadsMatch, ReloadsAt, Reloading
<1>4. \A t \in ReloadsAt(r) : Carries(t, r) => Carries(t, r)'
  BY <1>3 DEF Carries, ModelsKept, RankersKept
<1>5. QED
  BY <1>2, <1>4 DEF Serial, Overlapped

\* So it is with all replicas when no reload moves.
LEMMA SeriesStays ==
    ASSUME Inv, InSeries, ModelsKept, RankersKept,
           UNCHANGED <<pointer, fresh, memo, predictors, pickers>>,
           \A t \in Reloaders : pc'[t] = pc[t] /\ job'[t] = job[t]
    PROVE  InSeries'
<1>1. \A r \in Replicas : ReloadsAt(r)' = ReloadsAt(r)
  BY DEF ReloadsAt
<1>2. \A r \in Replicas : \A t \in ReloadsAt(r) : t \in Reloaders
  BY DEF ReloadsAt
<1>3. \A r \in Replicas : Serial(r)'
  BY <1>1, <1>2, SerialStays DEF InSeries
<1>4. QED
  BY <1>3 DEF InSeries, FreshTyped

\* A request fills caches, and moves neither the objects nor the reloads.
LEMMA RequestMoves ==
    ASSUME Inv, NEW t \in Requests,
           \/ \E r \in Replicas : PlanPick(t, r) \/ \E v \in Variants : Predict(t, r, v)
           \/ RequestStep(t)
    PROVE  /\ ModelsKept /\ RankersKept
           /\ UNCHANGED <<pointer, fresh, memo, predictors, pickers>>
           /\ \A u \in Reloaders : pc'[u] = pc[u] /\ job'[u] = job[u]
<1>0. /\ models \in Seq(Model) /\ rankers \in Seq(Ranker) /\ redis \in [Keys -> Entry]
      /\ pc \in [Calls -> {"idle"} \cup Requesting \cup Reloading] /\ job \in [Calls -> Job]
  BY DEF Inv, Typed, TypeOK
<1>1. \A u \in Reloaders : u # t /\ u \in Calls
  BY ServingAssumption DEF Calls
<1>2. CASE \/ \E r \in Replicas : PlanPick(t, r) \/ \E v \in Variants : Predict(t, r, v)
           \/ QueryHit(t) \/ QueryMiss(t) \/ ScoreHit(t) \/ ScoreMiss(t)
           \/ InferFails(t) \/ Predicted(t) \/ Respond(t)
  <2>1. /\ registry' = registry /\ state' = state /\ fresh' = fresh
        /\ \A u \in Reloaders : pc'[u] = pc[u] /\ job'[u] = job[u]
    BY <1>0, <1>1, <1>2
       DEF PlanPick, Predict, QueryHit, QueryMiss, ScoreHit, Scored, ScoreMiss, InferFails,
           Predicted, Respond
  <2>2. /\ models' = models /\ rankers' = rankers /\ memo' = memo /\ pointer' = pointer
        /\ predictors' = predictors /\ pickers' = pickers
    BY <2>1, Zenon DEF registry, state
  <2>3. QED
    BY <1>0, <2>1, <2>2 DEF ModelsKept, RankersKept
<1>3. CASE Infer(t)
  <2>1. /\ rankers' = rankers /\ memo' = memo /\ pointer' = pointer /\ fresh' = fresh
        /\ predictors' = predictors /\ pickers' = pickers
        /\ \A u \in Reloaders : pc'[u] = pc[u] /\ job'[u] = job[u]
    BY <1>0, <1>1, <1>3 DEF Infer, Scored, registry
  <2>2. job[t].use \in DOMAIN models /\ NextVariant(t) \in Variants
    BY <1>3, InHand, NextVariantIn DEF Infer, Inv, RequestsAttributed
  <2>3. {models[job[t].use].model} \in SUBSET Versions
    BY <2>2, LiveVersions DEF Live
  <2>4. ModelsKept
    BY <1>0, <1>3, <2>2, <2>3, SetPredictionEffect DEF Infer
  <2>5. QED
    BY <1>0, <2>1, <2>4 DEF RankersKept
<1>4. CASE Rank(t)
  <2>1. /\ models' = models /\ memo' = memo /\ pointer' = pointer /\ fresh' = fresh
        /\ predictors' = predictors /\ pickers' = pickers
        /\ \A u \in Reloaders : pc'[u] = pc[u] /\ job'[u] = job[u]
    BY <1>0, <1>1, <1>4 DEF Rank, registry
  <2>2. job[t].ranker \in DOMAIN rankers /\ job[t].seen \in SUBSET Versions
    BY <1>4, InHand, LiveVersions DEF Rank, Inv, RequestsAttributed
  <2>3. RankersKept
    BY <1>0, <1>4, <2>2, SetRankingEffect DEF Rank
  <2>4. QED
    BY <1>0, <2>1, <2>3 DEF ModelsKept
<1>5. QED
  BY <1>2, <1>3, <1>4 DEF RequestStep

\* A reload moves on at its own replica; the others are as they were.
LEMMA OthersStay ==
    ASSUME Inv, InSeries, NEW t \in Reloaders, NEW r \in Replicas, NEW s, NEW j,
           pc[t] = "idle" \/ job[t].at = r, s \in Reloading => j.at = r, Goes(t, s, j),
           ModelsKept, RankersKept, pointer' = pointer,
           \A q \in Replicas : q # r => /\ fresh'[q] = fresh[q] /\ memo'[q] = memo[q]
                                        /\ predictors'[q] = predictors[q]
                                        /\ pickers'[q] = pickers[q],
           NEW q \in Replicas, q # r
    PROVE  Serial(q)'
<1>1. \A u \in Reloaders : /\ u # t => pc'[u] = pc[u] /\ job'[u] = job[u]
                           /\ u = t => pc'[u] = s /\ job'[u] = j
  BY DEF Goes, Inv, Typed, TypeOK, Calls
<1>2. t \notin ReloadsAt(q) /\ t \notin ReloadsAt(q)'
  BY <1>1 DEF ReloadsAt, Reloading
<1>3. ReloadsAt(q)' = ReloadsAt(q) /\ \A u \in ReloadsAt(q) : pc'[u] = pc[u] /\ job'[u] = job[u]
  BY <1>1, <1>2 DEF ReloadsAt
<1>4. QED
  BY <1>3, SerialStays DEF InSeries

\* Where reloads come one after the other, the reload that moves is the only one.
LEMMA OnlyReload ==
    ASSUME Inv, InSeries, NEW t \in Reloaders, pc[t] \in Reloading,
           NEW r \in Replicas, job[t].at = r, fresh[r] # Overlapped, NEW s, NEW j, Goes(t, s, j),
           s \in Reloading => j.at = r
    PROVE  /\ ReloadsAt(r) = {t} /\ Carries(t, r)
           /\ pointer \in fresh[r].since /\ pointer \in fresh[r].pending
           /\ pc[t] # "swapPickers" => Whole(r)
           /\ s \in Reloading => ReloadsAt(r)' = {t}
           /\ s \notin Reloading => ReloadsAt(r)' = {}
           /\ pc'[t] = s /\ job'[t] = j
<1>1. t \in ReloadsAt(r)
  BY DEF ReloadsAt
<1>2. /\ \A u \in ReloadsAt(r) : u = t
      /\ pointer \in fresh[r].since /\ pointer \in fresh[r].pending /\ Carries(t, r)
      /\ (\A u \in ReloadsAt(r) : pc[u] # "swapPickers") => Whole(r)
  BY <1>1 DEF InSeries, Serial
<1>3. \A u \in Reloaders : /\ u # t => pc'[u] = pc[u] /\ job'[u] = job[u]
                           /\ u = t => pc'[u] = s /\ job'[u] = j
  BY DEF Goes, Inv, Typed, TypeOK, Calls
<1>4. \A u \in Reloaders : u # t => u \notin ReloadsAt(r)'
  BY <1>2, <1>3 DEF ReloadsAt
<1>5. t \in ReloadsAt(r)' <=> s \in Reloading
  BY <1>3 DEF ReloadsAt
<1>6. ReloadsAt(r)' \subseteq Reloaders
  BY DEF ReloadsAt
<1>7. QED
  BY <1>1, <1>2, <1>3, <1>4, <1>5, <1>6

\* A reload that begins where none is running drops the memo; where one is running, the
\* replica's reloads overlap from now on.
LEMMA SeriesBegins ==
    ASSUME Inv, InSeries, NEW t \in Reloaders, NEW r \in Replicas, Reload(t, r)
    PROVE  InSeries'
<1> DEFINE j == [Idle EXCEPT !.at = r]
<1>1. Goes(t, "build", j) /\ j.at = r /\ pc[t] = "idle"
  BY IdleType DEF Reload, Goes, Job
<1> HIDE DEF j
<1>2. /\ models' = models /\ rankers' = rankers /\ pointer' = pointer
      /\ predictors' = predictors /\ pickers' = pickers
      /\ memo' = [memo EXCEPT ![r] = 0]
  BY DEF Reload, registry
<1>3. /\ models \in Seq(Model) /\ rankers \in Seq(Ranker) /\ pointer \in Versions
      /\ memo \in [Replicas -> {0} \cup DOMAIN models]
      /\ fresh \in [Replicas -> [since : SUBSET Versions, pending : SUBSET Versions]]
  BY DEF Inv, Typed, TypeOK, InSeries, FreshTyped
<1>4. ModelsKept /\ RankersKept
  BY <1>2, <1>3 DEF ModelsKept, RankersKept
<1> DEFINE serial == fresh[r] # Overlapped /\ ReloadsAt(r) = {}
           next == IF serial THEN [fresh[r] EXCEPT !.pending = {pointer}] ELSE Overlapped
<1>5. fresh' = [fresh EXCEPT ![r] = next]
  BY DEF Reload
<1>6. next \in [since : SUBSET Versions, pending : SUBSET Versions]
  BY <1>3 DEF Overlapped
<1>7. serial => next.since = fresh[r].since /\ next.pending = {pointer}
  BY <1>3
<1> HIDE DEF serial, next
<1>8. FreshTyped'
  BY <1>3, <1>5, <1>6 DEF FreshTyped
<1>9. ASSUME NEW q \in Replicas, q # r PROVE Serial(q)'
  BY <1>1, <1>2, <1>3, <1>4, <1>5, <1>9, OthersStay
<1>10. Serial(r)'
  <2>1. CASE ~serial
    BY <1>3, <1>5, <2>1 DEF serial, next, Serial, Overlapped
  <2>2. CASE serial
    <3>1. fresh[r] # Overlapped /\ ReloadsAt(r) = {}
      BY <2>2 DEF serial
    <3>2. pointer \in fresh[r].since /\ Whole(r)
      BY <3>1 DEF InSeries, Serial
    <3>3. \A u \in Reloaders : /\ u # t => pc'[u] = pc[u] /\ job'[u] = job[u]
                               /\ u = t => pc'[u] = "build" /\ job'[u] = j
      BY <1>1 DEF Goes, Inv, Typed, TypeOK, Calls
    <3>4. ReloadsAt(r)' = {t}
      BY <1>1, <3>1, <3>3 DEF ReloadsAt, Reloading
    <3>5. fresh'[r].since = fresh[r].since /\ fresh'[r].pending = {pointer}
      BY <1>3, <1>5, <1>7, <2>2
    <3>6. Whole(r)'
      BY <1>2, <3>2, <3>5 DEF Whole
    <3>7. Carries(t, r)'
      BY <1>2, <1>3, <3>3 DEF Carries
    <3>8. QED
      BY <1>2, <3>2, <3>4, <3>5, <3>6, <3>7 DEF Serial
  <2>3. QED
    BY <2>1, <2>2
<1>11. QED
  BY <1>8, <1>9, <1>10 DEF InSeries

\* A reload moves on without installing anything, and leaves what is installed whole.
LEMMA SeriesGoes ==
    ASSUME Inv, InSeries, NEW t \in Reloaders, pc[t] \in Reloading, pc[t] # "swapPickers",
           NEW r \in Replicas, job[t].at = r,
           NEW s \in Reloading, s # "build", s # "swapPickers",
           NEW j, Goes(t, s, j), j.at = r,
           ModelsKept, RankersKept, pointer' = pointer, fresh' = fresh,
           predictors' = predictors, pickers' = pickers,
           \A q \in Replicas : q # r => memo'[q] = memo[q],
           fresh[r] # Overlapped /\ Carries(t, r) =>
               /\ models'[j.use].model \in fresh[r].pending
               /\ s = "swapPredictors" => rankers'[j.ranker].of = j.use
    PROVE  InSeries'
<1>1. \A q \in Replicas : q # r => Serial(q)'
  BY OthersStay
<1>2. FreshTyped'
  BY DEF InSeries, FreshTyped
<1>3. Serial(r)'
  <2> SUFFICES ASSUME fresh[r] # Overlapped PROVE Serial(r)'
    BY DEF Serial, Overlapped
  <2>1. /\ Carries(t, r) /\ Whole(r) /\ ReloadsAt(r)' = {t}
        /\ pointer \in fresh[r].since /\ pointer \in fresh[r].pending
        /\ pc'[t] = s /\ job'[t] = j
    BY OnlyReload
  <2>2. Carries(t, r)'
    BY <2>1 DEF Carries
  <2>3. Whole(r)'
    <3>1. predictors[r] \in DOMAIN models /\ pickers[r] \in DOMAIN rankers
      BY DEF Inv, Typed, TypeOK
    <3>2. QED
      BY <2>1, <3>1 DEF Whole, ModelsKept, RankersKept
  <2>4. QED
    BY <2>1, <2>2, <2>3 DEF Serial
<1>4. QED
  BY <1>1, <1>2, <1>3 DEF InSeries

LEMMA SeriesMemo ==
    ASSUME Inv, InSeries, NEW t \in Reloaders, GetMemo(t)
    PROVE  InSeries'
<1>0. PICK r \in Replicas : r = job[t].at
  BY ReloadInHand
<1> USE <1>0
<1> DEFINE j == [job[t] EXCEPT !.use = memo[r]]
<1>1. pc[t] = "build" /\ Goes(t, "warm", j) /\ memo[r] # 0
  BY DEF GetMemo, Goes
<1>2. j.at = r
  BY ReloadInHand DEF Job
<1> HIDE DEF j
<1>3. /\ registry' = registry /\ state' = state /\ fresh' = fresh
  BY DEF GetMemo
<1>4. /\ models' = models /\ rankers' = rankers /\ memo' = memo /\ pointer' = pointer
      /\ predictors' = predictors /\ pickers' = pickers
  BY <1>3, Zenon DEF registry, state
<1>5. ModelsKept /\ RankersKept
  BY <1>4 DEF Inv, Typed, TypeOK, ModelsKept, RankersKept
<1>6. ~Carries(t, r)
  BY <1>1 DEF Carries
<1>7. "warm" \in Reloading /\ "build" \in Reloading
  BY DEF Reloading
<1>8. QED
  BY <1>1, <1>2, <1>3, <1>4, <1>5, <1>6, <1>7, SeriesGoes

LEMMA SeriesLoad ==
    ASSUME Inv, InSeries, NEW t \in Reloaders, Load(t)
    PROVE  InSeries'
<1>0. PICK r \in Replicas : r = job[t].at
  BY ReloadInHand
<1> USE <1>0
<1>1. PICK remote \in BackendChoices : models' = Append(models, NewModel(pointer, remote))
  BY DEF Load
<1> DEFINE i == Len(models) + 1
           j == [job[t] EXCEPT !.use = i]
           new == NewModel(pointer, remote)
<1>2. /\ models \in Seq(Model) /\ rankers \in Seq(Ranker) /\ pointer \in Versions
      /\ shared \in BOOLEAN /\ r \in Replicas
      /\ memo \in [Replicas -> {0} \cup DOMAIN models]
  BY ReloadInHand DEF Inv, Typed, TypeOK
<1>3. new \in Model /\ new.model = pointer
  BY <1>2, Backends DEF NewModel, Model, Entry, NoEntry
<1> HIDE DEF new
<1>4. /\ models' \in Seq(Model) /\ DOMAIN models' = DOMAIN models \cup {i}
      /\ \A k \in DOMAIN models : models'[k] = models[k]
      /\ models'[i] = new
  <2>1. models' = Append(models, new)
    BY <1>1 DEF new
  <2>2. QED
    BY <1>2, <1>3, <2>1, Appended
<1>5. pc[t] = "build" /\ Goes(t, "warm", j)
  BY DEF Load, Goes
<1>6. j.at = r /\ j.use = i
  BY ReloadInHand DEF Job
<1> HIDE DEF i, j
<1>7. /\ rankers' = rankers /\ pointer' = pointer /\ fresh' = fresh
      /\ predictors' = predictors /\ pickers' = pickers
      /\ \A q \in Replicas : q # r => memo'[q] = memo[q]
  BY <1>2 DEF Load, registry
<1>8. ModelsKept /\ RankersKept
  BY <1>2, <1>4, <1>7 DEF ModelsKept, RankersKept
<1>9. "warm" \in Reloading /\ "build" \in Reloading
  BY DEF Reloading
<1>10. fresh[r] # Overlapped => pointer \in fresh[r].pending
  BY <1>5, <1>6, <1>9, OnlyReload
<1>11. fresh[r] # Overlapped => models'[j.use].model \in fresh[r].pending
  BY <1>3, <1>4, <1>6, <1>10
<1>12. QED
  BY <1>5, <1>6, <1>7, <1>8, <1>9, <1>11, SeriesGoes

LEMMA SeriesWarms ==
    ASSUME Inv, InSeries, NEW t \in Reloaders, WarmUp(t)
    PROVE  InSeries'
<1>0. PICK r \in Replicas : r = job[t].at
  BY ReloadInHand
<1> USE <1>0
<1>1. PICK remote \in BackendChoices : rankers' = Append(rankers, NewRanker(job[t].use, remote))
  BY DEF WarmUp
<1> DEFINE m == job[t].use
           k == Len(rankers) + 1
           j == [job[t] EXCEPT !.ranker = k]
           new == NewRanker(m, remote)
<1>2. /\ models \in Seq(Model) /\ rankers \in Seq(Ranker) /\ redis \in [Keys -> Entry]
      /\ shared \in BOOLEAN /\ job[t] \in Job /\ m \in DOMAIN models
  BY ReloadInHand DEF WarmUp, Inv, Typed, TypeOK
<1>3. new \in Ranker /\ new.of = m
  BY <1>2, Backends DEF NewRanker, Ranker, Entry, NoEntry, Job
<1> HIDE DEF new
<1>4. /\ rankers' \in Seq(Ranker) /\ DOMAIN rankers' = DOMAIN rankers \cup {k}
      /\ \A q \in DOMAIN rankers : rankers'[q] = rankers[q]
      /\ rankers'[k] = new
  <2>1. rankers' = Append(rankers, new)
    BY <1>1 DEF new
  <2>2. QED
    BY <1>2, <1>3, <2>1, Appended
<1>5. pc[t] = "warm" /\ Goes(t, "swapPredictors", j)
  BY DEF WarmUp, Goes
<1>6. j.at = r /\ j.use = m /\ j.ranker = k
  BY <1>2 DEF Job
<1>7. ClearPredictions(m) \/ UNCHANGED <<models, redis>>
  BY DEF WarmUp
<1> HIDE DEF k, j
<1>8. ModelsKept
  BY <1>2, <1>7, ClearPredictionsEffect
<1>9. RankersKept
  BY <1>4 DEF RankersKept
<1>10. /\ pointer' = pointer /\ fresh' = fresh /\ memo' = memo
       /\ predictors' = predictors /\ pickers' = pickers
  BY DEF WarmUp, registry
<1>11. models'[m].model = models[m].model
  BY <1>2, <1>8 DEF ModelsKept
<1>12. Carries(t, r) =>
          /\ models'[j.use].model \in fresh[r].pending
          /\ rankers'[j.ranker].of = j.use
  BY <1>3, <1>4, <1>5, <1>6, <1>11 DEF Carries
<1>13. "warm" \in Reloading /\ "swapPredictors" \in Reloading
  BY DEF Reloading
<1>14. QED
  BY <1>5, <1>6, <1>8, <1>9, <1>10, <1>12, <1>13, SeriesGoes

\* The load fails: what is installed stays as whole as it was.
LEMMA SeriesFails ==
    ASSUME Inv, InSeries, NEW t \in Reloaders, LoadFails(t)
    PROVE  InSeries'
<1>0. PICK r \in Replicas : r = job[t].at
  BY ReloadInHand
<1> USE <1>0
<1> DEFINE next == [fresh[r] EXCEPT !.pending = {}]
<1>1. pc[t] = "build" /\ pc[t] \in Reloading /\ Goes(t, "idle", Idle)
  BY ReloadInHand DEF LoadFails, Goes, Reloading
<1>2. registry' = registry /\ state' = state /\ fresh' = [fresh EXCEPT ![r] = next]
  BY DEF LoadFails
<1>3. /\ models' = models /\ rankers' = rankers /\ memo' = memo /\ pointer' = pointer
      /\ predictors' = predictors /\ pickers' = pickers
  BY <1>2, Zenon DEF registry, state
<1>4. ModelsKept /\ RankersKept
  BY <1>3 DEF Inv, Typed, TypeOK, ModelsKept, RankersKept
<1>5. fresh \in [Replicas -> [since : SUBSET Versions, pending : SUBSET Versions]]
  BY DEF InSeries, FreshTyped
<1>6. /\ next \in [since : SUBSET Versions, pending : SUBSET Versions]
      /\ next.since = fresh[r].since
      /\ fresh[r] = Overlapped => next = Overlapped
  <2>1. /\ next \in [since : SUBSET Versions, pending : SUBSET Versions]
        /\ next.since = fresh[r].since /\ next.pending = {}
    BY <1>5
  <2> HIDE DEF next
  <2>2. ASSUME fresh[r] = Overlapped PROVE next = Overlapped
    <3>1. next.since = {} /\ next.pending = {}
      BY <2>1, <2>2 DEF Overlapped
    <3>2. QED
      BY <2>1, <3>1 DEF Overlapped
  <2>3. QED
    BY <2>1, <2>2
<1> HIDE DEF next
<1>7. FreshTyped'
  BY <1>1, <1>2, <1>5, <1>6 DEF FreshTyped
<1>8. "idle" \notin Reloading
  BY DEF Reloading
<1>9. ASSUME NEW q \in Replicas, q # r PROVE Serial(q)'
  BY <1>1, <1>2, <1>3, <1>4, <1>5, <1>8, <1>9, OthersStay
<1>10. Serial(r)'
  <2> SUFFICES ASSUME fresh[r] # Overlapped PROVE Serial(r)'
    BY <1>1, <1>2, <1>5, <1>6 DEF Serial, Overlapped
  <2>1. Whole(r) /\ ReloadsAt(r)' = {} /\ pointer \in fresh[r].since
    BY <1>1, <1>8, OnlyReload
  <2>2. fresh'[r].since = fresh[r].since
    BY <1>1, <1>2, <1>5, <1>6
  <2>3. Whole(r)'
    BY <1>3, <2>1, <2>2 DEF Whole
  <2>4. QED
    BY <1>3, <2>1, <2>2, <2>3 DEF Serial
<1>11. QED
  BY <1>7, <1>9, <1>10 DEF InSeries

\* The new predictor is installed, and answers /predict while the old picker still
\* answers /plan-pick ...
LEMMA SeriesSwapsPredictors ==
    ASSUME Inv, InSeries, NEW t \in Reloaders, SwapPredictors(t)
    PROVE  InSeries'
<1>0. PICK r \in Replicas : r = job[t].at
  BY ReloadInHand
<1> USE <1>0
<1> DEFINE j == job[t]
<1>1. pc[t] = "swapPredictors" /\ pc[t] \in Reloading
  BY ReloadInHand DEF SwapPredictors, Reloading
<1>2. Goes(t, "swapPickers", j) /\ "swapPickers" \in Reloading
  BY DEF SwapPredictors, Goes, Inv, Typed, TypeOK, Calls, Reloading
<1>3. /\ models' = models /\ rankers' = rankers /\ memo' = memo /\ pointer' = pointer
      /\ pickers' = pickers /\ fresh' = fresh
      /\ predictors' = [predictors EXCEPT ![r] = job[t].use]
  BY DEF SwapPredictors, registry
<1>4. ModelsKept /\ RankersKept /\ predictors \in [Replicas -> DOMAIN models]
  BY <1>3 DEF Inv, Typed, TypeOK, ModelsKept, RankersKept
<1>5. ASSUME NEW q \in Replicas, q # r PROVE Serial(q)'
  BY <1>1, <1>2, <1>3, <1>4, <1>5, OthersStay
<1>6. Serial(r)'
  <2> SUFFICES ASSUME fresh[r] # Overlapped PROVE Serial(r)'
    BY <1>3 DEF Serial, Overlapped
  <2>1. /\ Carries(t, r) /\ ReloadsAt(r)' = {t}
        /\ pointer \in fresh[r].since /\ pointer \in fresh[r].pending
        /\ pc'[t] = "swapPickers" /\ job'[t] = job[t]
    BY <1>1, <1>2, OnlyReload
  <2>2. Carries(t, r)'
    BY <1>1, <1>3, <1>4, <2>1 DEF Carries
  <2>3. QED
    BY <1>3, <2>1, <2>2 DEF Serial
<1>7. QED
  BY <1>3, <1>5, <1>6 DEF InSeries, FreshTyped

\* ... until its picker is installed too: then the reload has taken effect.
LEMMA SeriesSwapsPickers ==
    ASSUME Inv, InSeries, NEW t \in Reloaders, SwapPickers(t)
    PROVE  InSeries'
<1>0. PICK r \in Replicas : r = job[t].at
  BY ReloadInHand
<1> USE <1>0
<1> DEFINE next == IF fresh[r] = Overlapped THEN fresh[r]
                   ELSE [since |-> fresh[r].pending, pending |-> {}]
<1>1. /\ pc[t] = "swapPickers" /\ pc[t] \in Reloading
      /\ Goes(t, "idle", Idle) /\ "idle" \notin Reloading
  BY ReloadInHand DEF SwapPickers, Goes, Reloading
<1>2. /\ models' = models /\ rankers' = rankers /\ memo' = memo /\ pointer' = pointer
      /\ predictors' = predictors /\ pickers' = [pickers EXCEPT ![r] = job[t].ranker]
      /\ fresh' = [fresh EXCEPT ![r] = next]
  BY DEF SwapPickers, registry
<1>3. ModelsKept /\ RankersKept /\ pickers \in [Replicas -> DOMAIN rankers]
  BY <1>2 DEF Inv, Typed, TypeOK, ModelsKept, RankersKept
<1>4. fresh \in [Replicas -> [since : SUBSET Versions, pending : SUBSET Versions]]
  BY DEF InSeries, FreshTyped
<1>5. FreshTyped'
  BY <1>1, <1>2, <1>4 DEF FreshTyped
<1>6. ASSUME NEW q \in Replicas, q # r PROVE Serial(q)'
  BY <1>1, <1>2, <1>3, <1>4, <1>6, OthersStay
<1>7. Serial(r)'
  <2> SUFFICES ASSUME fresh[r] # Overlapped PROVE Serial(r)'
    BY <1>1, <1>2, <1>4 DEF Serial, Overlapped
  <2>1. Carries(t, r) /\ ReloadsAt(r)' = {} /\ pointer \in fresh[r].pending
    BY <1>1, OnlyReload
  <2>2. fresh'[r].since = fresh[r].pending
    BY <1>1, <1>2, <1>4
  <2>3. Whole(r)'
    BY <1>1, <1>2, <1>3, <2>1, <2>2 DEF Whole, Carries
  <2>4. QED
    BY <1>2, <2>1, <2>2, <2>3 DEF Serial
<1>8. QED
  BY <1>5, <1>6, <1>7 DEF InSeries

\* The pointer moves under the reloads: the version they have loaded is one it named.
LEMMA SeriesPromotes ==
    ASSUME Inv, InSeries, Promote
    PROVE  InSeries'
<1> DEFINE next(r) ==
        IF fresh[r] = Overlapped THEN Overlapped
        ELSE [since   |-> fresh[r].since \cup {pointer'},
              pending |-> IF ReloadsAt(r) = {} THEN {} ELSE fresh[r].pending \cup {pointer'}]
<1>1. /\ models' = models /\ rankers' = rankers /\ memo' = memo /\ pc' = pc /\ job' = job
      /\ predictors' = predictors /\ pickers' = pickers
      /\ fresh' = [r \in Replicas |-> next(r)]
  BY DEF Promote, state
<1>2. pointer' \in Versions
  BY DEF Promote
<1>3. fresh \in [Replicas -> [since : SUBSET Versions, pending : SUBSET Versions]]
  BY DEF InSeries, FreshTyped
<1>4. FreshTyped'
  BY <1>1, <1>2, <1>3 DEF FreshTyped, Overlapped
<1>5. ASSUME NEW r \in Replicas, fresh'[r] # Overlapped PROVE Serial(r)'
  <2>1. /\ fresh[r] # Overlapped
        /\ fresh'[r].since = fresh[r].since \cup {pointer'}
        /\ ReloadsAt(r) # {} => fresh'[r].pending = fresh[r].pending \cup {pointer'}
    BY <1>1, <1>5
  <2>2. ReloadsAt(r)' = ReloadsAt(r)
    BY <1>1 DEF ReloadsAt
  <2>3. Whole(r) => Whole(r)'
    BY <1>1, <2>1 DEF Whole
  <2>4. \A t \in ReloadsAt(r) : Carries(t, r) => Carries(t, r)'
    BY <1>1, <2>1 DEF Carries
  <2>5. Serial(r)
    BY DEF InSeries
  <2>6. QED
    BY <1>1, <2>1, <2>2, <2>3, <2>4, <2>5 DEF Serial
<1>6. QED
  BY <1>4, <1>5 DEF InSeries, Serial, Overlapped

LEMMA SeriesStep == Inv /\ InSeries /\ [Next]_vars => InSeries'
<1> SUFFICES ASSUME Inv, InSeries, [Next]_vars PROVE InSeries'
  OBVIOUS
<1>1. ASSUME NEW t \in Requests,
             \/ \E r \in Replicas : PlanPick(t, r) \/ \E v \in Variants : Predict(t, r, v)
             \/ RequestStep(t)
      PROVE  InSeries'
  BY <1>1, RequestMoves, SeriesStays
<1>2. ASSUME NEW t \in Reloaders, ReloadStep(t) PROVE InSeries'
  BY <1>2, SeriesMemo, SeriesLoad, SeriesFails, SeriesWarms, SeriesSwapsPredictors,
     SeriesSwapsPickers DEF ReloadStep
<1>3. CASE Tick \/ UNCHANGED vars
  <2>1. /\ registry' = registry /\ state' = state /\ fresh' = fresh
        /\ pc' = pc /\ job' = job
    BY <1>3, Zenon DEF Tick, vars
  <2>2. /\ models' = models /\ rankers' = rankers /\ memo' = memo /\ pointer' = pointer
        /\ predictors' = predictors /\ pickers' = pickers
    BY <2>1, Zenon DEF registry, state
  <2>3. ModelsKept /\ RankersKept
    BY <2>2 DEF Inv, Typed, TypeOK, ModelsKept, RankersKept
  <2>4. QED
    BY <2>1, <2>2, <2>3, SeriesStays
<1>4. QED
  BY <1>1, <1>2, <1>3, SeriesBegins, SeriesPromotes DEF Next

\* However requests, other replicas' reloads and promotions run in between: as long as the
\* reloads of a replica come one after the other, each leaves it with one
\* model for /predict and /plan-pick, no older than the reload's beginning, and a
\* reload that fails leaves it as it was.
THEOREM SerialReloadsTakeEffect == Spec => []SerialReloadsApply
<1>1. Init => Inv /\ InSeries
  BY InitEstablishes, SeriesInit
<1>2. Inv /\ InSeries /\ [Next]_vars => (Inv /\ InSeries)'
  BY StepKeeps, SeriesStep
<1>3. InSeries => SerialReloadsApply
  BY DEF InSeries, Serial, Whole, SerialReloadsApply
<1>4. QED
  BY <1>1, <1>2, <1>3, PTL DEF Spec

=============================================================================
