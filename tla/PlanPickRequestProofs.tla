----------------------- MODULE PlanPickRequestProofs -----------------------
(***************************************************************************)
(* Theorems about PlanPickRequest for any number of threads, connections   *)
(* and variants and any budget: the settings of a session are those of the *)
(* request that uses it, the records of executions are true, the breaker   *)
(* hears what it should, and a request overruns its budget within bounds.  *)
(***************************************************************************)
EXTENDS PlanPickRequest, FiniteSetTheorems, TLAPS

USE DEF Go, Update

----------------------------------------------------------------------------
(* The inductive invariant                                                 *)

Holding == Stages \ {"out", "acquire"}

\* Connections are lent to one request at a time, and to those past acquire().
Borrows ==
    /\ lent \in [Threads -> Conns \cup {NoConn}]
    /\ session \in [Conns -> Session]
    /\ \A t, u \in Threads : lent[t] = lent[u] /\ lent[t] # NoConn => t = u
    /\ \A t \in Threads : lent[t] # NoConn <=> stage[t] \in Holding

MostStatements == Cardinality(Variants) + 1

\* How many statements of the planning stage r may come to, the fallback's included.
ToSend(r) == r.sent + Cardinality(r.todo) + (IF r.fallback THEN 0 ELSE 1)

\* OverrunBounded of one request.
Accounted(r) ==
    /\ r.sent <= MostStatements
    /\ r.spent + r.limit <= Budget + Minimum + r.sent * r.limit

\* A request in stage s has r in hand.
Fits(s, r) ==
    /\ s \in Stages /\ r \in Request
    /\ s \in {"acquire", "admit"} => r.told = "nothing" /\ ~r.allowed /\ ~r.fallback
    /\ s \in {"plan", "explain"} =>
          /\ ~r.allowed => r.told = "nothing" /\ r.fallback
          /\ r.allowed => r.told = IF r.fallback THEN "failure" ELSE "nothing"
    /\ s = "planned" => r.allowed /\ ~r.fallback /\ r.told = "nothing" /\ r.todo = {}
    /\ s = "ranked" => /\ r.winner \in Variants
                       /\ ~r.allowed => r.fallback
                       /\ r.told = IF ~r.allowed THEN "nothing"
                                   ELSE IF r.fallback THEN "failure" ELSE "success"
    /\ s \in {"explain", "execute"} => r.todo # {}
    /\ s \in {"run", "execute"} =>
          /\ r.winner \in Variants
          /\ r.kind # "execute" => (r.told = "success" <=> ~r.fallback)
    /\ s \in {"acquire", "admit"} => r.spent <= Budget /\ r.sent = 0 /\ r.limit = 0
    /\ s \in {"plan", "explain", "planned"} => ToSend(r) <= MostStatements
    /\ Accounted(r)

RequestsFit ==
    /\ stage \in [Threads -> Stages] /\ req \in [Threads -> Request]
    /\ \A t \in Threads : Fits(stage[t], req[t])

Running == {"run", "execute", "release"}

\* A record is looked at until its request has answered.
Records ==
    /\ feedback \in [Threads -> SUBSET Record]
    /\ \A t \in Threads : feedback[t] # {} => stage[t] \in Running
    /\ FeedbackHonest

Inv == Borrows /\ RequestsFit /\ SessionIsOwn /\ Records

----------------------------------------------------------------------------
(* Facts about the constants and the budget                                *)

LEMMA VariantsCounted ==
    /\ Cardinality(Variants) \in Nat \ {0}
    /\ \A S \in SUBSET Variants : IsFiniteSet(S) /\ Cardinality(S) \in Nat
    /\ \A S \in SUBSET Variants : \A v \in S : Cardinality(S \ {v}) = Cardinality(S) - 1
    /\ Cardinality({Default}) = 1 /\ Cardinality({}) = 0
<1>1. Cardinality(Variants) \in Nat \ {0}
  BY RequestAssumption, FS_CardinalityType, FS_EmptySet
<1>3. \A S \in SUBSET Variants : IsFiniteSet(S) /\ Cardinality(S) \in Nat
  BY RequestAssumption, FS_Subset, FS_CardinalityType
<1>4. \A S \in SUBSET Variants : \A v \in S : Cardinality(S \ {v}) = Cardinality(S) - 1
  BY <1>3, FS_RemoveElement
<1>5. QED
  BY <1>1, <1>3, <1>4, FS_Singleton, FS_EmptySet

LEMMA OneMore ==
    ASSUME NEW a \in Nat, NEW b \in Nat
    PROVE  a * b \in Nat /\ (a + 1) * b = a * b + b
OBVIOUS

\* The wait and one timeout fit into the deadline, give or take the least timeout.
LEMMA DeadlineShared ==
    ASSUME NEW spent \in 0 .. Budget
    PROVE  TimeoutOf(spent) \in Nat /\ spent + TimeoutOf(spent) <= Budget + Minimum
BY RequestAssumption DEF TimeoutOf

\* Before the first statement, and once the planning stage is over.
LEMMA NothingSent ==
    ASSUME NEW r \in Request, r.sent = 0,
           r.spent + r.limit <= Budget + Minimum
    PROVE  Accounted(r)
<1>1. r.sent * r.limit = 0 /\ r.spent \in Nat /\ r.limit \in Nat
  BY DEF Request
<1>2. 0 <= MostStatements
  BY VariantsCounted DEF MostStatements
<1>3. QED
  BY <1>1, <1>2, RequestAssumption DEF Accounted

----------------------------------------------------------------------------
(* Steps that touch neither the connection, nor its session, nor a record  *)

\* Request t goes to stage s with r in hand.
Goes(t, s, r) ==
    /\ stage' = [stage EXCEPT ![t] = s]
    /\ req' = [req EXCEPT ![t] = r]

LEMMA FitKept ==
    ASSUME Inv, NEW t \in Threads, NEW s, NEW r, Fits(s, r), Goes(t, s, r)
    PROVE  /\ RequestsFit' /\ stage'[t] = s /\ req'[t] = r
           /\ \A u \in Threads : u # t => stage'[u] = stage[u] /\ req'[u] = req[u]
<1>1. /\ stage' \in [Threads -> Stages] /\ req' \in [Threads -> Request]
      /\ stage'[t] = s /\ req'[t] = r
      /\ \A u \in Threads : u # t => stage'[u] = stage[u] /\ req'[u] = req[u]
  BY DEF Inv, RequestsFit, Goes, Fits
<1>2. \A u \in Threads : Fits(stage'[u], req'[u])
  BY <1>1 DEF Inv, RequestsFit
<1>3. QED
  BY <1>1, <1>2 DEF RequestsFit

\* The records are left alone, and what request t told the breaker, if it has any.
LEMMA RecordsKept ==
    ASSUME Inv, NEW t \in Threads, feedback' = feedback,
           stage[t] \in Running => stage'[t] \in Running /\ req'[t].told = req[t].told,
           \A u \in Threads : u # t => stage'[u] = stage[u] /\ req'[u] = req[u]
    PROVE  Records'
<1>1. \A u \in Threads : feedback[u] # {} => stage'[u] \in Running /\ req'[u].told = req[u].told
  BY DEF Inv, Records
<1>2. \A u \in Threads : \A f \in feedback[u] : req'[u].told = req[u].told
  BY <1>1
<1>3. FeedbackHonest'
  BY <1>2 DEF Inv, Records, FeedbackHonest
<1>4. QED
  BY <1>1, <1>3 DEF Inv, Records

LEMMA Moves ==
    ASSUME Inv, NEW t \in Threads, NEW s \in Stages \ {"explain", "execute"}, NEW r,
           Fits(s, r), Goes(t, s, r), s \in Holding <=> stage[t] \in Holding,
           stage[t] \in Running => s \in Running /\ r.told = req[t].told,
           UNCHANGED <<lent, session, feedback>>
    PROVE  Inv'
<1>1. lent' = lent /\ session' = session /\ feedback' = feedback
  OBVIOUS
<1>2. /\ RequestsFit' /\ stage'[t] = s /\ req'[t] = r
      /\ \A u \in Threads : u # t => stage'[u] = stage[u] /\ req'[u] = req[u]
  BY FitKept
<1>3. Borrows'
  BY <1>1, <1>2 DEF Inv, Borrows
<1>4. SessionIsOwn'
  BY <1>1, <1>2 DEF Inv, SessionIsOwn, NextVariant
<1>5. Records'
  BY <1>1, <1>2, RecordsKept
<1>6. QED
  BY <1>2, <1>3, <1>4, <1>5 DEF Inv

LEMMA NewFits ==
    ASSUME NEW kind \in Kinds, NEW s \in {"out", "acquire"}
    PROVE  Fits(s, NewRequest(kind))
<1>1. PICK r \in Request : /\ r = NewRequest(kind) /\ r.told = "nothing" /\ ~r.allowed
                           /\ ~r.fallback /\ r.spent = 0 /\ r.sent = 0 /\ r.limit = 0
  <2> DEFINE r == NewRequest(kind)
  <2>1. /\ r \in Request /\ r.told = "nothing" /\ ~r.allowed /\ ~r.fallback /\ r.spent = 0
        /\ r.sent = 0 /\ r.limit = 0
    BY DEF NewRequest, Request
  <2> HIDE DEF r
  <2>2. r = NewRequest(kind)
    BY DEF r
  <2>3. QED
    BY <2>1, <2>2
<1>2. r.spent <= Budget /\ Accounted(r)
  BY <1>1, NothingSent, RequestAssumption
<1>3. s \in Stages /\ s \notin {"plan", "explain", "planned", "ranked", "run", "execute"}
  BY DEF Stages
<1>4. Fits(s, r)
  BY <1>1, <1>2, <1>3 DEF Fits
<1>5. QED
  BY <1>1, <1>4

LEMMA InHand ==
    ASSUME Inv, NEW t \in Threads
    PROVE  /\ stage[t] \in Stages /\ req[t] \in Request /\ Fits(stage[t], req[t])
           /\ req[t].todo # {} => NextVariant(t) \in req[t].todo /\ NextVariant(t) \in Variants
<1>1. req[t] \in Request /\ stage[t] \in Stages /\ Fits(stage[t], req[t])
  BY DEF Inv, RequestsFit
<1>2. req[t].todo \subseteq Variants
  BY <1>1 DEF Request
<1>3. req[t].todo # {} => NextVariant(t) \in req[t].todo
  BY DEF NextVariant
<1>4. QED
  BY <1>1, <1>2, <1>3

LEMMA EntryStep ==
    ASSUME Inv, NEW t \in Threads, (\E kind \in Kinds : Begin(t, kind)) \/ AcquireFails(t)
    PROVE  Inv'
<1>1. ASSUME NEW kind \in Kinds, Begin(t, kind)
      PROVE  Inv'
  <2>1. Goes(t, "acquire", NewRequest(kind)) /\ stage[t] = "out"
    BY <1>1 DEF Begin, Goes
  <2>2. Fits("acquire", NewRequest(kind))
    BY NewFits
  <2>3. QED
    BY <1>1, <2>1, <2>2, Moves DEF Begin, Holding, Stages, Running
<1>2. ASSUME AcquireFails(t)
      PROVE  Inv'
  <2>1. Goes(t, "out", NewRequest("plan_pick")) /\ stage[t] = "acquire"
    BY <1>2 DEF AcquireFails, Goes
  <2>2. Fits("out", NewRequest("plan_pick"))
    BY NewFits DEF Kinds
  <2>3. QED
    BY <1>2, <2>1, <2>2, Moves DEF AcquireFails, Holding, Stages, Running
<1>3. QED
  BY <1>1, <1>2

LEMMA AdmitStep ==
    ASSUME Inv, NEW t \in Threads, Admitted(t) \/ ShortCircuited(t) \/ CachedPick(t)
    PROVE  Inv'
<1> DEFINE q == req[t]
           l == TimeoutOf(q.spent)
           n == Cardinality(Variants)
<1>1. /\ stage[t] = "admit" /\ q \in Request /\ q.told = "nothing" /\ ~q.allowed /\ ~q.fallback
      /\ q.spent \in 0 .. Budget /\ q.sent = 0 /\ Accounted(q)
  <2>1. stage[t] = "admit"
    BY DEF Admitted, ShortCircuited, CachedPick
  <2>2. QED
    BY <2>1, InHand DEF Fits, Request
<1>2. l \in Nat /\ q.spent + l <= Budget + Minimum /\ n \in Nat
  BY <1>1, DeadlineShared, VariantsCounted
<1>3. UNCHANGED <<lent, session, feedback>>
  BY DEF Admitted, ShortCircuited, CachedPick
<1>4. ASSUME Admitted(t)
      PROVE  Inv'
  <2> DEFINE r == PlanAll([q EXCEPT !.limit = l, !.allowed = TRUE])
  <2>1. Goes(t, "plan", r)
    BY <1>4 DEF Admitted, Goes
  <2>2. /\ r \in Request /\ r.spent = q.spent /\ r.sent = 0 /\ r.limit = l /\ r.todo = Variants
        /\ r.allowed /\ ~r.fallback /\ r.told = "nothing"
    BY <1>1, <1>2 DEF PlanAll, Request
  <2> HIDE DEF r, l
  <2>3. Accounted(r) /\ ToSend(r) <= MostStatements
    BY <1>2, <2>2, NothingSent DEF ToSend, MostStatements
  <2>4. Fits("plan", r)
    BY <2>2, <2>3 DEF Fits, Stages
  <2>5. QED
    BY <1>1, <1>3, <2>1, <2>4, Moves DEF Holding, Stages, Running
<1>5. ASSUME ShortCircuited(t)
      PROVE  Inv'
  <2> DEFINE r == PlanDefault([q EXCEPT !.limit = l])
  <2>1. Goes(t, "plan", r)
    BY <1>5 DEF ShortCircuited, Goes
  <2>2. /\ r \in Request /\ r.spent = q.spent /\ r.sent = 0 /\ r.limit = l /\ r.todo = {Default}
        /\ ~r.allowed /\ r.fallback /\ r.told = "nothing"
    BY <1>1, <1>2, RequestAssumption DEF PlanDefault, Request
  <2> HIDE DEF r, l
  <2>3. Accounted(r) /\ ToSend(r) <= MostStatements
    BY <1>2, <2>2, NothingSent, VariantsCounted DEF ToSend, MostStatements
  <2>4. Fits("plan", r)
    BY <2>2, <2>3 DEF Fits, Stages
  <2>5. QED
    BY <1>1, <1>3, <2>1, <2>4, Moves DEF Holding, Stages, Running
<1>6. ASSUME CachedPick(t)
      PROVE  Inv'
  <2>1. PICK S \in SUBSET Variants : \E v \in S :
           Goes(t, "ranked", [q EXCEPT !.allowed = TRUE, !.told = "success", !.got = S, !.winner = v])
    BY <1>6 DEF CachedPick, Goes
  <2>2. PICK v \in S :
           Goes(t, "ranked", [q EXCEPT !.allowed = TRUE, !.told = "success", !.got = S, !.winner = v])
    BY <2>1
  <2> DEFINE r == [q EXCEPT !.allowed = TRUE, !.told = "success", !.got = S, !.winner = v]
  <2>3. /\ r \in Request /\ r.spent = q.spent /\ r.sent = q.sent /\ r.limit = q.limit
        /\ r.allowed /\ r.told = "success" /\ ~r.fallback /\ r.winner \in Variants
    BY <1>1 DEF Request
  <2>4. Goes(t, "ranked", r)
    BY <2>2
  <2> HIDE DEF r, l
  <2>5. Fits("ranked", r)
    BY <1>1, <2>3 DEF Fits, Stages, Accounted
  <2>6. QED
    BY <1>1, <1>3, <2>4, <2>5, Moves DEF Holding, Stages, Running
<1>7. QED
  BY <1>4, <1>5, <1>6

----------------------------------------------------------------------------
(* Planning and choosing                                                   *)

\* A variant less to explain, after a statement that took d.
LEMMA OneLess ==
    ASSUME NEW r \in Request, NEW v \in r.todo, NEW d \in 0 .. r.limit,
           NEW q \in Request, q.todo = r.todo \ {v}, q.spent = r.spent + d, q.sent = r.sent + 1,
           q.limit = r.limit, q.fallback = r.fallback, ToSend(r) <= MostStatements, Accounted(r)
    PROVE  ToSend(q) <= MostStatements /\ Accounted(q)
<1> DEFINE c == Cardinality(r.todo)
<1>1. /\ r.todo \in SUBSET Variants /\ r.limit \in Nat /\ r.spent \in Nat /\ r.sent \in Nat
      /\ r.fallback \in BOOLEAN /\ Budget \in Nat /\ Minimum \in Nat
  BY RequestAssumption DEF Request
<1>2. c \in Nat /\ Cardinality(q.todo) = c - 1 /\ c - 1 \in Nat /\ MostStatements \in Nat
  BY <1>1, VariantsCounted DEF Request, MostStatements
<1>3. ToSend(q) <= MostStatements /\ q.sent <= MostStatements
  BY <1>1, <1>2 DEF ToSend
<1>4. (r.sent + 1) * r.limit = r.sent * r.limit + r.limit /\ r.sent * r.limit \in Nat
  BY <1>1, OneMore
<1>5. q.spent + q.limit <= Budget + Minimum + q.sent * q.limit
  <2>1. r.spent + r.limit <= Budget + Minimum + r.sent * r.limit
    BY DEF Accounted
  <2>2. q.sent * q.limit = r.sent * r.limit + r.limit
    BY <1>4
  <2>3. QED
    BY <1>1, <1>4, <2>1, <2>2
<1>6. QED
  BY <1>3, <1>5 DEF Accounted

LEMMA ExplainStep ==
    ASSUME Inv, NEW t \in Threads, Explained(t) \/ ExplainFails(t)
    PROVE  Inv'
<1> DEFINE q == req[t]
           v == NextVariant(t)
<1>1. /\ stage[t] = "explain" /\ q \in Request /\ Fits("explain", q) /\ v \in q.todo
  <2>1. stage[t] = "explain"
    BY DEF Explained, ExplainFails
  <2>2. QED
    BY <2>1, InHand DEF Fits
<1>2. UNCHANGED <<lent, session, feedback>>
  BY DEF Explained, ExplainFails
<1>3. \E r \in Took(q), got \in SUBSET Variants, error \in BOOLEAN :
         Goes(t, "plan", [r EXCEPT !.todo = r.todo \ {v}, !.got = got, !.userError = error])
  <2>1. v \in Variants /\ q.got \in SUBSET Variants /\ q.userError \in BOOLEAN
    BY <1>1 DEF Request
  <2>2. ASSUME NEW r \in Took(q)
        PROVE  r.got = q.got /\ r.userError = q.userError /\ r.todo = q.todo
    <3>1. PICK d \in 0 .. q.limit : r = [q EXCEPT !.spent = q.spent + d, !.sent = q.sent + 1]
      BY DEF Took
    <3>2. QED
      BY <1>1, <3>1 DEF Request
  <2>3. ASSUME Explained(t)
        PROVE  \E r \in Took(q) :
                  Goes(t, "plan", [r EXCEPT !.todo = r.todo \ {v}, !.got = r.got \cup {session[lent[t]].knobs}])
    BY <2>3, Zenon DEF Explained, Goes
  <2>4. session[lent[t]].knobs = v
    <3>1. session[lent[t]] = [knobs |-> v, limit |-> "planning"]
      BY <1>1, Zenon DEF Inv, SessionIsOwn
    <3>2. QED
      BY <3>1
  <2>5. ASSUME ExplainFails(t)
        PROVE  \E r \in Took(q), user \in BOOLEAN :
                  Goes(t, "plan", [r EXCEPT !.todo = r.todo \ {v}, !.userError = r.userError \/ user])
    BY <2>5, Zenon DEF ExplainFails, Goes
  <2>6. CASE Explained(t)
    <3>1. PICK r \in Took(q) :
             Goes(t, "plan", [r EXCEPT !.todo = r.todo \ {v}, !.got = r.got \cup {v}])
      BY <2>3, <2>4, <2>6, Zenon
    <3>2. r.got \cup {v} \in SUBSET Variants /\ r.userError \in BOOLEAN
      BY <2>1, <2>2
    <3> DEFINE next == [r EXCEPT !.todo = r.todo \ {v}, !.got = r.got \cup {v}]
    <3>3. next = [r EXCEPT !.todo = r.todo \ {v}, !.got = r.got \cup {v}, !.userError = r.userError]
      BY <1>1 DEF Took, Request
    <3>4. QED
      BY <3>1, <3>2, <3>3, Zenon
  <2>7. CASE ExplainFails(t)
    <3>1. PICK r \in Took(q), user \in BOOLEAN :
             Goes(t, "plan", [r EXCEPT !.todo = r.todo \ {v}, !.userError = r.userError \/ user])
      BY <2>5, <2>7, Zenon
    <3>2. r.got \in SUBSET Variants /\ (r.userError \/ user) \in BOOLEAN
      BY <2>1, <2>2
    <3> DEFINE next == [r EXCEPT !.todo = r.todo \ {v}, !.userError = r.userError \/ user]
    <3>3. next = [r EXCEPT !.todo = r.todo \ {v}, !.got = r.got, !.userError = r.userError \/ user]
      BY <1>1 DEF Took, Request
    <3>4. QED
      BY <3>1, <3>2, <3>3, Zenon
  <2>8. QED
    BY <2>6, <2>7
<1>4. PICK r \in Took(q), got \in SUBSET Variants, error \in BOOLEAN :
         Goes(t, "plan", [r EXCEPT !.todo = r.todo \ {v}, !.got = got, !.userError = error])
  BY <1>3, Zenon
<1>5. PICK d \in 0 .. q.limit : r = [q EXCEPT !.spent = q.spent + d, !.sent = q.sent + 1]
  BY DEF Took
<1> DEFINE next == [r EXCEPT !.todo = r.todo \ {v}, !.got = got, !.userError = error]
<1>6. /\ next \in Request /\ next.todo = q.todo \ {v} /\ next.spent = q.spent + d
      /\ next.sent = q.sent + 1
      /\ next.limit = q.limit /\ next.fallback = q.fallback /\ next.allowed = q.allowed
      /\ next.told = q.told
  <2>1. /\ q.limit \in Nat /\ q.spent \in Nat /\ q.spent + d \in Nat /\ q.sent + 1 \in Nat
        /\ q.todo \ {v} \in SUBSET Variants
    BY <1>1 DEF Request
  <2>2. /\ r \in Request /\ r.todo = q.todo /\ r.spent = q.spent + d /\ r.sent = q.sent + 1
        /\ r.limit = q.limit
        /\ r.fallback = q.fallback /\ r.allowed = q.allowed /\ r.told = q.told
    BY <1>1, <1>5, <2>1 DEF Request
  <2>3. QED
    BY <2>1, <2>2 DEF Request
<1>7. Goes(t, "plan", next)
  BY <1>4
<1> HIDE DEF next
<1>8. ToSend(next) <= MostStatements /\ Accounted(next)
  BY <1>1, <1>6, OneLess DEF Fits
<1>9. Fits("plan", next)
  BY <1>1, <1>6, <1>8 DEF Fits, Stages
<1>10. QED
  BY <1>1, <1>2, <1>7, <1>9, Moves DEF Holding, Stages, Running

LEMMA PlanEnds ==
    ASSUME Inv, NEW t \in Threads, PrepareFails(t) \/ NothingPlanned(t) \/ Planned(t)
    PROVE  Inv'
<1> DEFINE q == req[t]
<1>1. stage[t] = "plan" /\ q \in Request /\ Fits("plan", q)
  <2>1. stage[t] = "plan"
    BY DEF PrepareFails, NothingPlanned, Planned
  <2>2. QED
    BY <2>1, InHand
<1>2. Accounted(q)
  BY <1>1 DEF Fits
<1>3. UNCHANGED <<lent, session, feedback>>
  BY DEF PrepareFails, NothingPlanned, Planned
<1>4. CASE PrepareFails(t) \/ NothingPlanned(t)
  <2>1. Goes(t, "release", q)
    BY <1>4 DEF PrepareFails, NothingPlanned, Goes, Inv, RequestsFit
  <2>2. Fits("release", q)
    BY <1>1, <1>2 DEF Fits, Stages
  <2>3. QED
    BY <1>1, <1>3, <2>1, <2>2, Moves DEF Holding, Stages, Running
<1>5. CASE Planned(t) /\ q.fallback
  <2> DEFINE r == [q EXCEPT !.winner = Default]
  <2>1. Goes(t, "ranked", r)
    BY <1>5 DEF Planned, Goes
  <2>2. /\ r \in Request /\ r.spent = q.spent /\ r.sent = q.sent /\ r.limit = q.limit
        /\ r.told = q.told /\ r.allowed = q.allowed /\ r.fallback = q.fallback /\ r.winner \in Variants
    BY <1>1, RequestAssumption DEF Request
  <2> HIDE DEF r
  <2>3. Fits("ranked", r)
    BY <1>1, <1>2, <1>5, <2>2 DEF Fits, Stages, Accounted
  <2>4. QED
    BY <1>1, <1>3, <2>1, <2>3, Moves DEF Holding, Stages, Running
<1>6. CASE Planned(t) /\ ~q.fallback
  <2>1. Goes(t, "planned", q) /\ q.todo = {}
    BY <1>6 DEF Planned, Goes
  <2>2. Fits("planned", q)
    BY <1>1, <1>2, <1>6, <2>1 DEF Fits, Stages
  <2>3. QED
    BY <1>1, <1>3, <2>1, <2>2, Moves DEF Holding, Stages, Running
<1>7. QED
  BY <1>4, <1>5, <1>6

LEMMA PredictStep ==
    ASSUME Inv, NEW t \in Threads, Predict(t) \/ PredictFails(t)
    PROVE  Inv'
<1> DEFINE q == req[t]
<1>1. /\ stage[t] = "planned" /\ q \in Request /\ Fits("planned", q)
      /\ q.allowed /\ ~q.fallback /\ q.told = "nothing" /\ q.todo = {} /\ Accounted(q)
  <2>1. stage[t] = "planned"
    BY DEF Predict, PredictFails
  <2>2. QED
    BY <2>1, InHand DEF Fits
<1>2. UNCHANGED <<lent, session, feedback>>
  BY DEF Predict, PredictFails
<1>3. ASSUME Predict(t)
      PROVE  Inv'
  <2>1. PICK v \in q.got : Goes(t, "ranked", [q EXCEPT !.winner = v, !.told = "success"])
    BY <1>3 DEF Predict, Goes
  <2> DEFINE r == [q EXCEPT !.winner = v, !.told = "success"]
  <2>2. v \in Variants
    BY <1>1 DEF Request
  <2>3. /\ r \in Request /\ r.spent = q.spent /\ r.sent = q.sent /\ r.limit = q.limit
        /\ r.told = "success" /\ r.allowed /\ ~r.fallback /\ r.winner \in Variants
    BY <1>1, <2>2 DEF Request
  <2>4. Goes(t, "ranked", r)
    BY <2>1
  <2> HIDE DEF r
  <2>5. Fits("ranked", r)
    BY <1>1, <2>3 DEF Fits, Stages, Accounted
  <2>6. QED
    BY <1>1, <1>2, <2>4, <2>5, Moves DEF Holding, Stages, Running
<1>4. ASSUME PredictFails(t)
      PROVE  Inv'
  <2> DEFINE r == PlanDefault([q EXCEPT !.told = "failure"])
  <2>1. Goes(t, "plan", r)
    BY <1>4 DEF PredictFails, Goes
  <2>2. /\ r \in Request /\ r.spent = q.spent /\ r.sent = q.sent /\ r.limit = q.limit
        /\ r.told = "failure" /\ r.allowed /\ r.fallback /\ r.todo = {Default}
    BY <1>1, RequestAssumption DEF Request, PlanDefault
  <2> HIDE DEF r
  <2>3. ToSend(r) = q.sent + 1 /\ ToSend(q) = q.sent + 1
    BY <1>1, <2>2, VariantsCounted DEF ToSend, Request
  <2>4. ToSend(r) <= MostStatements
    BY <1>1, <2>3 DEF Fits
  <2>5. Fits("plan", r)
    BY <1>1, <2>2, <2>4 DEF Fits, Stages, Accounted
  <2>6. QED
    BY <1>1, <1>2, <2>1, <2>5, Moves DEF Holding, Stages, Running
<1>5. QED
  BY <1>3, <1>4

\* The budget is that of the planning stage: what comes after it does not count.
LEMMA ChooseStep ==
    ASSUME Inv, NEW t \in Threads, Choose(t)
    PROVE  Inv'
<1> DEFINE q == req[t]
           todo == CASE q.kind = "plan_pick" -> {}
                     [] q.kind = "oracle" -> q.got
                     [] OTHER -> {q.winner}
           r == [q EXCEPT !.spent = 0, !.sent = 0, !.limit = 0, !.userError = FALSE,
                    !.todo = todo]
           s == IF q.kind = "plan_pick" THEN "release" ELSE "run"
<1>1. /\ stage[t] = "ranked" /\ q \in Request /\ q.winner \in Variants
      /\ q.told = "success" <=> ~q.fallback
  <2>1. stage[t] = "ranked"
    BY DEF Choose
  <2>2. QED
    BY <2>1, InHand DEF Fits
<1>2. todo \in SUBSET Variants
  BY <1>1 DEF Request
<1>3. Goes(t, s, r)
  BY DEF Choose, Goes
<1> HIDE DEF todo
<1>4. /\ r \in Request /\ r.spent = 0 /\ r.sent = 0 /\ r.limit = 0 /\ r.winner = q.winner
      /\ r.told = q.told /\ r.fallback = q.fallback
  BY <1>1, <1>2 DEF Request
<1> HIDE DEF r
<1>5. Accounted(r)
  BY <1>4, NothingSent, RequestAssumption
<1>6. UNCHANGED <<lent, session, feedback>>
  BY DEF Choose
<1>7. CASE s = "release"
  <2>1. Fits("release", r)
    BY <1>4, <1>5 DEF Fits, Stages
  <2>2. QED
    BY <1>1, <1>3, <1>6, <1>7, <2>1, Moves DEF Holding, Stages, Running
<1>8. CASE s = "run"
  <2>1. Fits("run", r)
    BY <1>1, <1>4, <1>5 DEF Fits, Stages
  <2>2. QED
    BY <1>1, <1>3, <1>6, <1>8, <2>1, Moves DEF Holding, Stages, Running
<1>9. QED
  BY <1>7, <1>8

LEMMA RunEndsStep ==
    ASSUME Inv, NEW t \in Threads, ExecuteTimesOut(t) \/ ExecuteFails(t) \/ RunEnds(t)
    PROVE  Inv'
<1> DEFINE q == req[t]
<1>1. /\ stage[t] \in {"run", "execute"} /\ q \in Request /\ Accounted(q)
      /\ q.winner \in Variants /\ (q.kind # "execute" => (q.told = "success" <=> ~q.fallback))
  <2>1. stage[t] \in {"run", "execute"}
    BY DEF ExecuteTimesOut, ExecuteFails, RunEnds
  <2>2. QED
    BY <2>1, InHand DEF Fits
<1>2. UNCHANGED <<lent, session, feedback>>
  BY DEF ExecuteTimesOut, ExecuteFails, RunEnds
<1>3. CASE ExecuteTimesOut(t)
  <2> DEFINE r == [q EXCEPT !.todo = q.todo \ {NextVariant(t)}]
  <2>1. Goes(t, "run", r)
    BY <1>3 DEF ExecuteTimesOut, Done, Goes
  <2>2. /\ r \in Request /\ r.spent = q.spent /\ r.sent = q.sent /\ r.limit = q.limit
        /\ r.kind = q.kind /\ r.winner = q.winner /\ r.told = q.told /\ r.fallback = q.fallback
    BY <1>1 DEF Request
  <2> HIDE DEF r
  <2>3. Fits("run", r)
    BY <1>1, <2>2 DEF Fits, Stages, Accounted
  <2>4. QED
    BY <1>1, <1>2, <2>1, <2>2, <2>3, Moves DEF Holding, Stages, Running
<1>4. CASE ExecuteFails(t) \/ RunEnds(t)
  <2>1. Goes(t, "release", q)
    BY <1>4 DEF ExecuteFails, RunEnds, Goes, Inv, RequestsFit
  <2>2. Fits("release", q)
    BY <1>1 DEF Fits, Stages
  <2>3. QED
    BY <1>1, <1>2, <2>1, <2>2, Moves DEF Holding, Stages, Running
<1>5. QED
  BY <1>3, <1>4

----------------------------------------------------------------------------
(* Steps that take, use or give back the connection                        *)

\* Request t has changed the session of its own connection only.
LEMMA OthersKeepTheirSession ==
    ASSUME Inv, Borrows', NEW t \in Threads,
           \A u \in Threads : u # t => /\ stage'[u] = stage[u] /\ req'[u] = req[u]
                                       /\ lent'[u] = lent[u],
           \A c \in Conns : c # lent'[t] => session'[c] = session[c],
           NEW u \in Threads, u # t
    PROVE  /\ stage'[u] = "explain" =>
                session'[lent'[u]] = [knobs |-> (NextVariant(u))', limit |-> "planning"]
           /\ stage'[u] = "execute" =>
                session'[lent'[u]] = [knobs |-> (NextVariant(u))', limit |-> "caller"]
<1>1. (NextVariant(u))' = NextVariant(u)
  BY DEF NextVariant
<1>2. ASSUME stage[u] \in {"explain", "execute"}
      PROVE  session'[lent'[u]] = session[lent[u]]
  <2>1. lent[u] # NoConn /\ lent'[u] = lent[u]
    BY <1>2 DEF Inv, Borrows, Holding, Stages
  <2>2. lent'[u] # lent'[t] /\ lent[u] \in Conns
    BY <2>1 DEF Borrows, Inv
  <2>3. QED
    BY <2>1, <2>2
<1>3. CASE stage[u] \in {"explain", "execute"}
  <2>1. session'[lent'[u]] = session[lent[u]] /\ stage'[u] = stage[u]
    BY <1>2, <1>3
  <2>2. /\ stage[u] = "explain" => session[lent[u]] = [knobs |-> NextVariant(u), limit |-> "planning"]
        /\ stage[u] = "execute" => session[lent[u]] = [knobs |-> NextVariant(u), limit |-> "caller"]
    BY DEF Inv, SessionIsOwn
  <2>3. QED
    BY <1>1, <2>1, <2>2
<1>4. CASE stage[u] \notin {"explain", "execute"}
  BY <1>4
<1>5. QED
  BY <1>3, <1>4

LEMMA AcquireStep ==
    ASSUME Inv, NEW t \in Threads, AcquirePg(t)
    PROVE  Inv'
<1> DEFINE q == req[t]
           s == IF q.kind = "execute" THEN "run" ELSE "admit"
<1>1. stage[t] = "acquire" /\ q \in Request /\ Fits("acquire", q)
  <2>1. stage[t] = "acquire"
    BY DEF AcquirePg
  <2>2. QED
    BY <2>1, InHand DEF Fits
<1>2. PICK c \in Conns \ {lent[u] : u \in Threads} : lent' = [lent EXCEPT ![t] = c]
  BY DEF AcquirePg, Lending!Lend, Lending!Borrowed
<1>3. \E r : Goes(t, s, r) /\ Fits(s, r)
  <2>1. /\ q.kind = "execute" => \E name, knobs \in Variants :
              Goes(t, s, [q EXCEPT !.todo = {knobs}, !.winner = name])
        /\ q.kind # "execute" => \E w \in 0 .. Budget : Goes(t, s, [q EXCEPT !.spent = w])
    BY Zenon DEF AcquirePg, Goes
  <2>2. CASE q.kind = "execute"
    <3>1. PICK name \in Variants, knobs \in Variants :
             Goes(t, s, [q EXCEPT !.todo = {knobs}, !.winner = name])
      BY <2>1, <2>2
    <3> DEFINE r == [q EXCEPT !.todo = {knobs}, !.winner = name]
    <3>2. /\ r \in Request /\ r.spent = q.spent /\ r.sent = q.sent /\ r.limit = q.limit
          /\ r.kind = "execute" /\ r.winner \in Variants
      BY <1>1, <2>2 DEF Request
    <3> HIDE DEF r
    <3>3. Fits("run", r)
      BY <1>1, <3>2 DEF Fits, Stages, Accounted
    <3>4. QED
      BY <2>2, <3>1, <3>3 DEF r
  <2>3. CASE q.kind # "execute"
    <3>1. PICK w \in 0 .. Budget : Goes(t, s, [q EXCEPT !.spent = w])
      BY <2>1, <2>3
    <3> DEFINE r == [q EXCEPT !.spent = w]
    <3>2. /\ r \in Request /\ r.spent = w /\ r.told = q.told /\ r.allowed = q.allowed
          /\ r.fallback = q.fallback /\ r.sent = 0 /\ r.limit = 0
      BY <1>1, RequestAssumption DEF Request, Fits
    <3> HIDE DEF r
    <3>3. Accounted(r)
      BY <3>2, NothingSent, RequestAssumption
    <3>4. w <= Budget
      BY RequestAssumption
    <3>5. Fits("admit", r)
      BY <1>1, <3>2, <3>3, <3>4 DEF Fits, Stages
    <3>6. QED
      BY <2>3, <3>1, <3>5 DEF r
  <2>4. QED
    BY <2>2, <2>3
<1>4. PICK r : Goes(t, s, r) /\ Fits(s, r)
  BY <1>3
<1>5. /\ RequestsFit' /\ stage'[t] = s /\ req'[t] = r
      /\ \A u \in Threads : u # t => stage'[u] = stage[u] /\ req'[u] = req[u]
  BY <1>4, FitKept
<1>6. lent'[t] = c /\ \A u \in Threads : u # t => lent'[u] = lent[u] /\ lent'[u] # c
  BY <1>2 DEF Inv, Borrows
<1>7. session' \in [Conns -> Session] /\ \A d \in Conns : d # c => session'[d] = session[d]
  <2>1. Opened \in Session
    BY DEF Opened, Session, Limits
  <2>2. UNCHANGED session \/ session' = [session EXCEPT ![c] = Opened]
    BY <1>6 DEF AcquirePg
  <2>3. QED
    BY <2>1, <2>2 DEF Inv, Borrows
<1>8. Borrows'
  <2>1. s \in Holding /\ c # NoConn
    BY <1>2, RequestAssumption DEF Holding, Stages
  <2>2. lent' \in [Threads -> Conns \cup {NoConn}]
    BY <1>2 DEF Inv, Borrows
  <2>3. \A u, w \in Threads : lent'[u] = lent'[w] /\ lent'[u] # NoConn => u = w
    BY <1>6 DEF Inv, Borrows
  <2>4. \A u \in Threads : lent'[u] # NoConn <=> stage'[u] \in Holding
    BY <1>5, <1>6, <2>1 DEF Inv, Borrows
  <2>5. QED
    BY <1>7, <2>2, <2>3, <2>4 DEF Borrows
<1>9. SessionIsOwn'
  BY <1>5, <1>6, <1>7, <1>8, OthersKeepTheirSession DEF SessionIsOwn
<1>10. Records'
  BY <1>1, <1>5, RecordsKept DEF AcquirePg, Running
<1>11. QED
  BY <1>5, <1>8, <1>9, <1>10 DEF Inv

\* Prepare and PrepareRun, which set the session for the next variant.
LEMMA PrepareStep ==
    ASSUME Inv, NEW t \in Threads, Prepare(t) \/ PrepareRun(t)
    PROVE  Inv'
<1> DEFINE q == req[t]
           v == NextVariant(t)
<1>1. /\ stage[t] \in {"plan", "run"} /\ q \in Request /\ q.todo # {} /\ v \in Variants
      /\ Fits(stage[t], q)
  <2>1. stage[t] \in {"plan", "run"} /\ q.todo # {}
    BY DEF Prepare, PrepareRun
  <2>2. QED
    BY <2>1, InHand DEF Fits
<1>2. PICK s \in {"explain", "execute"}, limit \in {"planning", "caller"} :
         /\ s = "explain" => limit = "planning" /\ stage[t] = "plan"
         /\ s = "execute" => limit = "caller" /\ stage[t] = "run"
         /\ stage' = [stage EXCEPT ![t] = s]
         /\ SetSession(t, v, limit)
  BY DEF Prepare, PrepareRun
<1>3. lent' = lent /\ req' = req /\ feedback' = feedback
  BY DEF Prepare, PrepareRun
<1>4. Goes(t, s, q)
  BY <1>2, <1>3 DEF Goes, Inv, RequestsFit
<1>5. Fits(s, q)
  <2>1. CASE s = "explain"
    BY <1>1, <1>2, <2>1 DEF Fits, Stages
  <2>2. CASE s = "execute"
    BY <1>1, <1>2, <2>2 DEF Fits, Stages
  <2>3. QED
    BY <2>1, <2>2
<1>6. /\ RequestsFit' /\ stage'[t] = s /\ req'[t] = q
      /\ \A u \in Threads : u # t => stage'[u] = stage[u] /\ req'[u] = req[u]
  BY <1>4, <1>5, FitKept
<1>7. lent[t] \in Conns /\ lent[t] # NoConn
  BY <1>1 DEF Inv, Borrows, Holding, Stages
<1>8. /\ session' \in [Conns -> Session]
      /\ session'[lent[t]] = [knobs |-> v, limit |-> limit]
      /\ \A c \in Conns : c # lent[t] => session'[c] = session[c]
  <2> DEFINE e == [knobs |-> v, limit |-> limit]
  <2>1. e \in Session
    BY <1>1 DEF Session, Limits
  <2>2. session' = [session EXCEPT ![lent[t]] = e]
    BY <1>2 DEF SetSession
  <2> HIDE DEF e
  <2>3. session' \in [Conns -> Session] /\ session'[lent[t]] = e
    BY <1>7, <2>1, <2>2 DEF Inv, Borrows
  <2>4. \A c \in Conns : c # lent[t] => session'[c] = session[c]
    BY <2>2 DEF Inv, Borrows
  <2>5. QED
    BY <2>3, <2>4 DEF e
<1>9. Borrows'
  <2>1. s \in Holding /\ stage[t] \in Holding
    BY <1>1 DEF Holding, Stages
  <2>2. QED
    BY <1>3, <1>6, <1>8, <2>1 DEF Inv, Borrows
<1>10. SessionIsOwn'
  <2>1. (NextVariant(t))' = v
    BY <1>3 DEF NextVariant
  <2>2. /\ stage'[t] = "explain" =>
              session'[lent'[t]] = [knobs |-> (NextVariant(t))', limit |-> "planning"]
        /\ stage'[t] = "execute" =>
              session'[lent'[t]] = [knobs |-> (NextVariant(t))', limit |-> "caller"]
    BY <1>2, <1>3, <1>6, <1>8, <2>1
  <2>3. \A u \in Threads : u # t =>
           /\ stage'[u] = "explain" =>
                session'[lent'[u]] = [knobs |-> (NextVariant(u))', limit |-> "planning"]
           /\ stage'[u] = "execute" =>
                session'[lent'[u]] = [knobs |-> (NextVariant(u))', limit |-> "caller"]
    BY <1>3, <1>6, <1>8, <1>9, OthersKeepTheirSession
  <2>4. QED
    BY <2>2, <2>3 DEF SessionIsOwn
<1>11. Records'
  BY <1>1, <1>2, <1>3, <1>6, RecordsKept DEF Running
<1>12. QED
  BY <1>6, <1>9, <1>10, <1>11 DEF Inv

\* Execute, whose record lists the knobs that are in force.
LEMMA ExecuteStep ==
    ASSUME Inv, NEW t \in Threads, Execute(t)
    PROVE  Inv'
<1> DEFINE q == req[t]
           v == NextVariant(t)
           r == [q EXCEPT !.todo = q.todo \ {v}]
<1>1. /\ stage[t] = "execute" /\ q \in Request /\ v \in Variants /\ q.winner \in Variants
      /\ Accounted(q)
  <2>1. stage[t] = "execute"
    BY DEF Execute
  <2>2. QED
    BY <2>1, InHand DEF Fits
<1>2. Goes(t, "run", r) /\ lent' = lent /\ session' = session
  BY DEF Execute, Done, Goes
<1>3. /\ r \in Request /\ r.spent = q.spent /\ r.sent = q.sent /\ r.limit = q.limit
      /\ r.kind = q.kind /\ r.winner = q.winner /\ r.told = q.told /\ r.fallback = q.fallback
  BY <1>1 DEF Request
<1> HIDE DEF r
<1>0. q.kind # "execute" => (q.told = "success" <=> ~q.fallback)
  BY <1>1, InHand DEF Fits
<1>4. Fits("run", r)
  BY <1>0, <1>1, <1>3 DEF Fits, Stages, Accounted
<1>5. /\ RequestsFit' /\ stage'[t] = "run" /\ req'[t] = r
      /\ \A u \in Threads : u # t => stage'[u] = stage[u] /\ req'[u] = req[u]
  BY <1>2, <1>4, FitKept
<1>6. Borrows'
  BY <1>1, <1>2, <1>5 DEF Inv, Borrows, Holding, Stages
<1>7. SessionIsOwn'
  <2>1. \A u \in Threads : u # t =>
           /\ stage'[u] = "explain" =>
                session'[lent'[u]] = [knobs |-> (NextVariant(u))', limit |-> "planning"]
           /\ stage'[u] = "execute" =>
                session'[lent'[u]] = [knobs |-> (NextVariant(u))', limit |-> "caller"]
    BY <1>2, <1>5, <1>6, OthersKeepTheirSession
  <2>2. QED
    BY <1>5, <2>1 DEF SessionIsOwn
<1>8. session[lent[t]].knobs = v
  <2>1. session[lent[t]] = [knobs |-> v, limit |-> "caller"]
    BY <1>1, Zenon DEF Inv, SessionIsOwn
  <2>2. QED
    BY <2>1
<1>9. Records'
  <2> DEFINE told == r.told
  <2>1. ASSUME NEW e \in RecordsOf(t)
        PROVE  /\ e \in Record
               /\ e.ran = e.knobs
               /\ e.kind # "execute" => e.variant = e.knobs
               /\ e.predicted => told = "success"
               /\ e.kind = "run_and_learn" => e.by = IF told = "success" THEN "ml" ELSE "pg_fallback"
    <3>1. PICK label \in SelectedBy(q, v) :
             e = [kind |-> q.kind, variant |-> IF q.kind = "execute" THEN q.winner ELSE v, knobs |-> v,
                  ran |-> v, by |-> label, predicted |-> q.kind # "execute" /\ ~q.fallback]
      BY <1>8 DEF RecordsOf
    <3>2. /\ q.kind \in Kinds /\ (IF q.kind = "execute" THEN q.winner ELSE v) \in Variants
          /\ (q.kind # "execute" /\ ~q.fallback) \in BOOLEAN
      BY <1>1 DEF Request
    <3>3. label \in Labels
      BY DEF SelectedBy, Labels
    <3>4. e \in Record
      BY <1>1, <3>1, <3>2, <3>3 DEF Record
    <3>5. e.predicted => told = "success"
      BY <1>0, <1>3, <3>1
    <3>6. e.kind = "run_and_learn" => e.by = IF told = "success" THEN "ml" ELSE "pg_fallback"
      BY <1>0, <1>3, <3>1 DEF SelectedBy
    <3>7. QED
      BY <3>1, <3>4, <3>5, <3>6
  <2>2. \/ feedback' = feedback
        \/ \E e \in RecordsOf(t) : feedback' = [feedback EXCEPT ![t] = {e}]
    BY DEF Execute
  <2>3. feedback' \in [Threads -> SUBSET Record]
    BY <2>1, <2>2 DEF Inv, Records
  <2>4. /\ \A u \in Threads : u # t => feedback'[u] = feedback[u]
        /\ \A f \in feedback'[t] : f \in feedback[t] \/ f \in RecordsOf(t)
    BY <2>2 DEF Inv, Records
  <2>5. \A u \in Threads : feedback'[u] # {} => stage'[u] \in Running
    BY <1>5, <2>4 DEF Inv, Records, Running
  <2>6. req'[t].told = told /\ q.told = told
    BY <1>3, <1>5
  <2>7. \A f \in feedback'[t] :
           /\ f.ran = f.knobs
           /\ f.kind # "execute" => f.variant = f.knobs
           /\ f.predicted => told = "success"
           /\ f.kind = "run_and_learn" => f.by = IF told = "success" THEN "ml" ELSE "pg_fallback"
    BY <2>1, <2>4, <2>6, Zenon DEF Inv, Records, FeedbackHonest
  <2>8. FeedbackHonest'
    <3>1. ASSUME NEW u \in Threads, u # t, NEW f \in feedback'[u]
          PROVE  /\ f.ran = f.knobs
                 /\ f.kind # "execute" => f.variant = f.knobs
                 /\ f.predicted => req'[u].told = "success"
                 /\ f.kind = "run_and_learn" =>
                       f.by = IF req'[u].told = "success" THEN "ml" ELSE "pg_fallback"
      <4>1. f \in feedback[u] /\ req'[u] = req[u]
        BY <1>5, <2>4, <3>1
      <4>2. QED
        BY <4>1 DEF Inv, Records, FeedbackHonest
    <3>2. QED
      BY <2>6, <2>7, <3>1 DEF FeedbackHonest
  <2>9. QED
    BY <2>3, <2>5, <2>8 DEF Records
<1>10. QED
  BY <1>5, <1>6, <1>7, <1>9 DEF Inv

LEMMA ReleaseStep ==
    ASSUME Inv, NEW t \in Threads, ReleasePg(t)
    PROVE  Inv'
<1> DEFINE r == NewRequest("plan_pick")
<1>1. /\ Goes(t, "out", r) /\ session' = session /\ lent' = [lent EXCEPT ![t] = NoConn]
      /\ feedback' = [feedback EXCEPT ![t] = {}]
  BY DEF ReleasePg, Goes, Lending!GiveBack
<1>2. Fits("out", r)
  BY NewFits DEF Kinds
<1> HIDE DEF r
<1>3. /\ RequestsFit' /\ stage'[t] = "out" /\ req'[t] = r
      /\ \A u \in Threads : u # t => stage'[u] = stage[u] /\ req'[u] = req[u]
  BY <1>1, <1>2, FitKept
<1>4. lent' \in [Threads -> Conns \cup {NoConn}] /\ lent'[t] = NoConn
      /\ \A u \in Threads : u # t => lent'[u] = lent[u]
  BY <1>1 DEF Inv, Borrows
<1>5. Borrows'
  <2>1. \A u, w \in Threads : lent'[u] = lent'[w] /\ lent'[u] # NoConn => u = w
    BY <1>4 DEF Inv, Borrows
  <2>2. \A u \in Threads : lent'[u] # NoConn <=> stage'[u] \in Holding
    BY <1>3, <1>4 DEF Inv, Borrows, Holding
  <2>3. QED
    BY <1>1, <1>4, <2>1, <2>2 DEF Inv, Borrows
<1>6. SessionIsOwn'
  <2>1. \A u \in Threads : u # t =>
           /\ stage'[u] = "explain" =>
                session'[lent'[u]] = [knobs |-> (NextVariant(u))', limit |-> "planning"]
           /\ stage'[u] = "execute" =>
                session'[lent'[u]] = [knobs |-> (NextVariant(u))', limit |-> "caller"]
    BY <1>1, <1>3, <1>4, <1>5, OthersKeepTheirSession
  <2>2. QED
    BY <1>3, <2>1 DEF SessionIsOwn
<1>7. Records'
  <2>1. feedback' \in [Threads -> SUBSET Record] /\ feedback'[t] = {}
    BY <1>1 DEF Inv, Records
  <2>2. \A u \in Threads : u # t =>
           feedback'[u] = feedback[u] /\ stage'[u] = stage[u] /\ req'[u] = req[u]
    BY <1>1, <1>3 DEF Inv, Records
  <2>3. \A u \in Threads : feedback'[u] # {} => stage'[u] \in Running
    BY <2>1, <2>2 DEF Inv, Records
  <2>4. FeedbackHonest'
    BY <2>1, <2>2 DEF Inv, Records, FeedbackHonest
  <2>5. QED
    BY <2>1, <2>3, <2>4 DEF Records
<1>8. QED
  BY <1>3, <1>5, <1>6, <1>7 DEF Inv

----------------------------------------------------------------------------
(* Theorems                                                                *)

LEMMA InitEstablishes == Init => Inv
<1> SUFFICES ASSUME Init PROVE Inv
  OBVIOUS
<1>1. Fits("out", NewRequest("plan_pick")) /\ NewRequest("plan_pick") \in Request
  BY NewFits DEF Kinds, Fits
<1>2. stage = [t \in Threads |-> "out"] /\ req = [t \in Threads |-> NewRequest("plan_pick")]
  BY DEF Init
<1>3. RequestsFit
  BY <1>1, <1>2 DEF RequestsFit, Fits
<1>4. lent = [t \in Threads |-> NoConn] /\ session = [c \in Conns |-> Opened] /\ Opened \in Session
  BY DEF Init, Lending!Init, Opened, Session, Limits
<1>5. Borrows
  BY <1>2, <1>4 DEF Borrows, Holding
<1>6. SessionIsOwn
  BY <1>2 DEF SessionIsOwn
<1>7. Records
  BY DEF Init, Records, FeedbackHonest
<1>8. QED
  BY <1>3, <1>5, <1>6, <1>7 DEF Inv

LEMMA StepKeeps == Inv /\ [Next]_vars => Inv'
<1> SUFFICES ASSUME Inv, [Next]_vars PROVE Inv'
  OBVIOUS
<1>1. ASSUME NEW t \in Threads, NEW kind \in Kinds, Begin(t, kind) PROVE Inv'
  BY <1>1, EntryStep
<1>2. ASSUME NEW t \in Threads, PlanStep(t) PROVE Inv'
  BY <1>2, PrepareStep, PlanEnds, ExplainStep, PredictStep DEF PlanStep
<1>3. ASSUME NEW t \in Threads, RunStep(t) PROVE Inv'
  BY <1>3, ChooseStep, PrepareStep, ExecuteStep, RunEndsStep DEF RunStep
<1>4. ASSUME NEW t \in Threads, Step(t) PROVE Inv'
  BY <1>2, <1>3, <1>4, AcquireStep, EntryStep, AdmitStep, ReleaseStep DEF Step
<1>5. CASE UNCHANGED vars
  <2>1. /\ lent' = lent /\ session' = session /\ stage' = stage /\ req' = req
        /\ feedback' = feedback
    BY <1>5, Zenon DEF vars
  <2>2. QED
    BY <2>1 DEF Inv, Borrows, RequestsFit, SessionIsOwn, NextVariant, Records, FeedbackHonest
<1>6. QED
  BY <1>1, <1>4, <1>5 DEF Next

LEMMA InvAlways == Spec => []Inv
BY InitEstablishes, StepKeeps, PTL DEF Spec

\* The variables of the requests have their types.
THEOREM RequestTypes == Spec => []TypeOK
<1>1. Inv => TypeOK
  BY DEF Inv, Borrows, RequestsFit, Records, TypeOK
<1>2. QED
  BY <1>1, InvAlways, PTL

\* A connection is in the hands of one request at a time, and of none that waits for one
\* or has answered, whatever failed on the way.
THEOREM ConnectionsReturned == Spec => []Borrows
<1>1. Inv => Borrows
  BY DEF Inv
<1>2. QED
  BY <1>1, InvAlways, PTL

\* Whoever has used a connection before, a statement runs under the knobs its request
\* asks for.
THEOREM OwnSession == Spec => []SessionIsOwn
<1>1. Inv => SessionIsOwn
  BY DEF Inv
<1>2. QED
  BY <1>1, InvAlways, PTL

\* The records of executions list the knobs in force, and those of /run-and-learn name
\* their variant and whether the model chose it; of /execute they name what the caller
\* said.
THEOREM HonestRecords == Spec => []FeedbackHonest
<1>1. Inv => FeedbackHonest
  BY DEF Inv, Records
<1>2. QED
  BY <1>1, InvAlways, PTL

\* The breaker has heard of a call exactly when the model was asked.
THEOREM BreakerInformed == Spec => []BreakerHears
<1>1. Inv => BreakerHears
  BY DEF Inv, RequestsFit, Fits, BreakerHears
<1>2. QED
  BY <1>1, InvAlways, PTL

\* For any budget and any number of variants, the deadline holds of the wait and the first
\* statement, and each later statement adds one timeout at the most.
THEOREM OverrunWithinBound == Spec => []OverrunBounded
<1>1. Inv => OverrunBounded
  BY DEF Inv, RequestsFit, Fits, Accounted, MostStatements, OverrunBounded
<1>2. QED
  BY <1>1, InvAlways, PTL

=============================================================================
