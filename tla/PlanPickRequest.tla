--------------------------- MODULE PlanPickRequest ---------------------------
(***************************************************************************)
(* The requests of the ML service that need PostgreSQL: /plan-pick,        *)
(* /execute and /run-and-learn with and without the oracle (server.py,     *)
(* plan_pick.py, timeout_budget.py, plan_generator/explain.py,             *)
(* exec_service/runner.py).  A request borrows a connection, asks the      *)
(* breaker, has every variant of the query explained, ranks the plans with *)
(* the model or falls back to PostgreSQL's default plan, and executes what *)
(* it chose.  The pool is its abstract specification, which                *)
(* ConnectionPool implements; the session of a connection outlives the     *)
(* request that borrowed it.                                               *)
(*                                                                         *)
(* The breaker's answer, the model's and PostgreSQL's are free.  Plans are *)
(* represented by their variant.  Time is what the statements of the       *)
(* planning stage may take.                                                *)
(***************************************************************************)
EXTENDS Naturals, FiniteSets

CONSTANTS
    Threads, Conns, NoConn,    \* as in ConnectionLending
    Variants,    \* the knob settings of pg_variants.py
    Default,     \* the variant that sets no knob
    NoVariant,   \* a session right after it was opened; no variant
    Budget,      \* REQUEST_BUDGET_MS, less the reserve
    Minimum      \* the least statement timeout

ASSUME RequestAssumption ==
    /\ IsFiniteSet(Variants) /\ Default \in Variants /\ NoVariant \notin Variants
    /\ NoConn \notin Conns
    /\ Budget \in Nat \ {0} /\ Minimum \in 1 .. Budget

VARIABLES
    lent,        \* the connection each thread has borrowed
    session,     \* the settings of each PostgreSQL session
    stage,       \* where each request is
    req,         \* what each request has in hand
    feedback     \* the feedback record each request has published last

vars == <<lent, session, stage, req, feedback>>

Lending == INSTANCE ConnectionLending

\* Which statement timeout is in force: none, the planning stage's, the caller's.
Limits  == {"none", "planning", "caller"}
Session == [knobs : Variants \cup {NoVariant}, limit : Limits]
Opened  == [knobs |-> NoVariant, limit |-> "none"]

Kinds == {"plan_pick", "run_and_learn", "oracle", "execute"}

\* What a request tells the breaker, what it answers with (a ranking of the model or
\* PostgreSQL's default plan), how many statements of its planning stage have ended and
\* what they took, the settings still to be explained or executed, those with a plan,
\* and the variant it names as its choice.
Request == [kind : Kinds, allowed : BOOLEAN, told : {"nothing", "success", "failure"},
            fallback : BOOLEAN, spent : Nat, sent : Nat, limit : Nat, todo : SUBSET Variants,
            got : SUBSET Variants, userError : BOOLEAN, winner : Variants \cup {NoVariant}]

NewRequest(kind) ==
    [kind |-> kind, allowed |-> FALSE, told |-> "nothing", fallback |-> FALSE, spent |-> 0,
     sent |-> 0, limit |-> 0, todo |-> {}, got |-> {}, userError |-> FALSE, winner |-> NoVariant]

Stages == {"out", "acquire", "admit", "plan", "explain", "planned", "ranked",
           "run", "execute", "release"}

\* selected_by.  Of /execute it is any string the caller sends.
Labels == {"ml", "pg_fallback", "oracle", "user"}

\* A record of an execution: the variant it names, the knobs it lists, the settings it
\* ran under, how the variant was selected, and whether it carries a prediction.
Record == [kind : Kinds, variant : Variants, knobs : Variants,
           ran : Variants \cup {NoVariant}, by : Labels, predicted : BOOLEAN]

Init ==
    /\ Lending!Init
    /\ session = [c \in Conns |-> Opened]
    /\ stage = [t \in Threads |-> "out"]
    /\ req = [t \in Threads |-> NewRequest("plan_pick")]
    /\ feedback = [t \in Threads |-> {}]

Go(t, from, to) ==
    /\ stage[t] = from
    /\ stage' = [stage EXCEPT ![t] = to]

Update(t, r) == req' = [req EXCEPT ![t] = r]

----------------------------------------------------------------------------
(* Borrowing a connection, and the breaker                                 *)

Begin(t, kind) ==
    /\ Go(t, "out", "acquire")
    /\ Update(t, NewRequest(kind))
    /\ UNCHANGED <<lent, session, feedback>>

\* _acquire_pg() waits within the budget.  The pool may have opened the session
\* just now, or another request has used it.  /execute runs the knobs the caller sends
\* under the variant name the caller sends, or those of that variant if it sends none.
AcquirePg(t) ==
    /\ Go(t, "acquire", IF req[t].kind = "execute" THEN "run" ELSE "admit")
    /\ Lending!Lend(t)
    /\ \/ UNCHANGED session
       \/ session' = [session EXCEPT ![lent'[t]] = Opened]
    /\ IF req[t].kind = "execute"
       THEN \E name, knobs \in Variants :
               Update(t, [req[t] EXCEPT !.todo = {knobs}, !.winner = name])
       ELSE \E w \in 0 .. Budget : Update(t, [req[t] EXCEPT !.spent = w])
    /\ UNCHANGED feedback

\* PoolTimeout or PoolClosed: 503.
AcquireFails(t) ==
    /\ Go(t, "acquire", "out")
    /\ Update(t, NewRequest("plan_pick"))
    /\ UNCHANGED <<lent, session, feedback>>

\* Seeded fault: the statements get the whole budget, whatever the wait has taken.
TimeoutOfAll(spent) == Budget

\* statement_timeout_ms(): what is left of the budget, but never 0.
TimeoutOf(spent) ==
    IF spent + Minimum > Budget THEN Minimum ELSE Budget - spent

PlanAll(r) == [r EXCEPT !.todo = Variants, !.got = {}]
PlanDefault(r) == [r EXCEPT !.todo = {Default}, !.got = {}, !.fallback = TRUE]

\* breaker.allow() lets the model be asked, or the breaker is open.
Admitted(t) ==
    /\ Go(t, "admit", "plan")
    /\ Update(t, PlanAll([req[t] EXCEPT !.limit = TimeoutOf(req[t].spent), !.allowed = TRUE]))
    /\ UNCHANGED <<lent, session, feedback>>

ShortCircuited(t) ==
    /\ Go(t, "admit", "plan")
    /\ Update(t, PlanDefault([req[t] EXCEPT !.limit = TimeoutOf(req[t].spent)]))
    /\ UNCHANGED <<lent, session, feedback>>

\* The query is in the picker's cache: no EXPLAIN and no model.
CachedPick(t) ==
    /\ Go(t, "admit", "ranked")
    /\ \E S \in SUBSET Variants : \E v \in S :
          Update(t, [req[t] EXCEPT !.allowed = TRUE, !.told = "success", !.got = S, !.winner = v])
    /\ UNCHANGED <<lent, session, feedback>>

----------------------------------------------------------------------------
(* generate_variants()                                                     *)

\* Seeded fault: the knobs of the variant are set without a RESET ALL.
SetSessionKept(t, v, limit) ==
    session' = [session EXCEPT ![lent[t]] =
        [knobs |-> IF v = Default THEN @.knobs ELSE v, limit |-> limit]]

\* RESET ALL, the search path, the knobs of the variant and the timeout.
SetSession(t, v, limit) ==
    session' = [session EXCEPT ![lent[t]] = [knobs |-> v, limit |-> limit]]

NextVariant(t) == CHOOSE v \in req[t].todo : TRUE

Prepare(t) ==
    /\ req[t].todo # {}
    /\ Go(t, "plan", "explain")
    /\ SetSession(t, NextVariant(t), "planning")
    /\ UNCHANGED <<lent, req, feedback>>

\* The time of a statement is bounded by the timeout in force.
Took(r) == {[r EXCEPT !.spent = @ + d, !.sent = @ + 1] : d \in 0 .. r.limit}

Explained(t) ==
    LET v == NextVariant(t) IN
    /\ Go(t, "explain", "plan")
    /\ \E r \in Took(req[t]) :
          Update(t, [r EXCEPT !.todo = @ \ {v}, !.got = @ \cup {session[lent[t]].knobs}])
    /\ UNCHANGED <<lent, session, feedback>>

\* A timeout, or an error: the variant is skipped, and an error in the user's SQL
\* remembered.
ExplainFails(t) ==
    /\ Go(t, "explain", "plan")
    /\ \E r \in Took(req[t]), user \in BOOLEAN :
          Update(t, [r EXCEPT !.todo = @ \ {NextVariant(t)}, !.userError = @ \/ user])
    /\ UNCHANGED <<lent, session, feedback>>

\* Seeded fault: this error leaves the handler without the finally clause.
PrepareFailsEarly(t) ==
    /\ req[t].todo # {}
    /\ Go(t, "plan", "out")
    /\ Update(t, NewRequest("plan_pick"))
    /\ UNCHANGED <<lent, session, feedback>>

\* The connection breaks under RESET ALL: the error is not handled there.
PrepareFails(t) ==
    /\ req[t].todo # {}
    /\ Go(t, "plan", "release")
    /\ UNCHANGED <<lent, session, req, feedback>>

\* Every variant failed: the user's error, or RuntimeError.
NothingPlanned(t) ==
    /\ req[t].todo = {} /\ req[t].got = {}
    /\ Go(t, "plan", "release")
    /\ UNCHANGED <<lent, session, req, feedback>>

Planned(t) ==
    /\ req[t].todo = {} /\ req[t].got # {}
    /\ Go(t, "plan", IF req[t].fallback THEN "ranked" ELSE "planned")
    /\ Update(t, IF req[t].fallback THEN [req[t] EXCEPT !.winner = Default] ELSE req[t])
    /\ UNCHANGED <<lent, session, feedback>>

----------------------------------------------------------------------------
(* The model, or the fallback                                              *)

\* Every plan is predicted, the fastest wins, and the breaker is told.
Predict(t) ==
    /\ Go(t, "planned", "ranked")
    /\ \E v \in req[t].got : Update(t, [req[t] EXCEPT !.winner = v, !.told = "success"])
    /\ UNCHANGED <<lent, session, feedback>>

\* Seeded fault: the breaker is not told.
PredictFailsQuiet(t) ==
    /\ Go(t, "planned", "plan")
    /\ Update(t, PlanDefault(req[t]))
    /\ UNCHANGED <<lent, session, feedback>>

\* The model raises: the breaker is told and PostgreSQL's default plan asked for.
PredictFails(t) ==
    /\ Go(t, "planned", "plan")
    /\ Update(t, PlanDefault([req[t] EXCEPT !.told = "failure"]))
    /\ UNCHANGED <<lent, session, feedback>>

\* /plan-pick answers; /run-and-learn executes the winner, or with the oracle
\* every candidate.
Choose(t) ==
    /\ Go(t, "ranked", IF req[t].kind = "plan_pick" THEN "release" ELSE "run")
    /\ Update(t, [req[t] EXCEPT !.spent = 0, !.sent = 0, !.limit = 0, !.userError = FALSE,
                                !.todo = CASE req[t].kind = "plan_pick" -> {}
                                           [] req[t].kind = "oracle" -> req[t].got
                                           [] OTHER -> {req[t].winner}])
    /\ UNCHANGED <<lent, session, feedback>>

----------------------------------------------------------------------------
(* ExecutionRunner                                                         *)

PrepareRun(t) ==
    /\ req[t].todo # {}
    /\ Go(t, "run", "execute")
    /\ SetSession(t, NextVariant(t), "caller")
    /\ UNCHANGED <<lent, req, feedback>>

\* Seeded fault: what the fallback selected is labelled like a choice of the model.
SelectedByModel(r, v) ==
    CASE r.kind = "execute" -> Labels
      [] r.kind = "oracle"  -> {IF v = r.winner THEN "ml" ELSE "oracle"}
      [] OTHER              -> {"ml"}

\* selected_by: /execute passes the caller's, and run_with_oracle() labels the picked
\* variant "ml", whoever picked it.
SelectedBy(r, v) ==
    CASE r.kind = "execute" -> Labels
      [] r.kind = "oracle"  -> {IF v = r.winner THEN "ml" ELSE "oracle"}
      [] OTHER              -> {IF r.fallback THEN "pg_fallback" ELSE "ml"}

RecordsOf(t) ==
    LET r == req[t]
        v == NextVariant(t)
    IN  {[kind |-> r.kind, variant |-> IF r.kind = "execute" THEN r.winner ELSE v, knobs |-> v,
          ran |-> session[lent[t]].knobs, by |-> label,
          predicted |-> r.kind # "execute" /\ ~r.fallback] : label \in SelectedBy(r, v)}

Done(t) == Update(t, [req[t] EXCEPT !.todo = @ \ {NextVariant(t)}])

\* The trace is published unless the caller asked for none.
Execute(t) ==
    /\ Go(t, "execute", "run")
    /\ \/ UNCHANGED feedback
       \/ \E e \in RecordsOf(t) : feedback' = [feedback EXCEPT ![t] = {e}]
    /\ Done(t)
    /\ UNCHANGED <<lent, session>>

\* The caller's timeout: no plan, no record.
ExecuteTimesOut(t) ==
    /\ Go(t, "execute", "run")
    /\ Done(t)
    /\ UNCHANGED <<lent, session, feedback>>

\* Any other error is a 500.
ExecuteFails(t) ==
    /\ Go(t, "execute", "release")
    /\ UNCHANGED <<lent, session, req, feedback>>

RunEnds(t) ==
    /\ req[t].todo = {}
    /\ Go(t, "run", "release")
    /\ UNCHANGED <<lent, session, req, feedback>>

\* The finally clause of every handler.
ReleasePg(t) ==
    /\ Go(t, "release", "out")
    /\ Lending!GiveBack(t)
    /\ Update(t, NewRequest("plan_pick"))
    /\ feedback' = [feedback EXCEPT ![t] = {}]
    /\ UNCHANGED session

----------------------------------------------------------------------------
PlanStep(t) ==
    \/ Prepare(t) \/ PrepareFails(t) \/ Explained(t) \/ ExplainFails(t)
    \/ NothingPlanned(t) \/ Planned(t) \/ Predict(t) \/ PredictFails(t)

RunStep(t) ==
    \/ Choose(t) \/ PrepareRun(t) \/ Execute(t) \/ ExecuteTimesOut(t) \/ ExecuteFails(t)
    \/ RunEnds(t)

Step(t) ==
    \/ AcquirePg(t) \/ AcquireFails(t) \/ Admitted(t) \/ ShortCircuited(t) \/ CachedPick(t)
    \/ PlanStep(t) \/ RunStep(t) \/ ReleasePg(t)

Next == \E t \in Threads : Step(t) \/ \E kind \in Kinds : Begin(t, kind)

Spec == Init /\ [][Next]_vars

(* A statement ends, at its timeout at the latest, and acquire() returns or *)
(* raises.                                                                  *)
LiveSpec == Spec /\ \A t \in Threads : WF_vars(Step(t))

----------------------------------------------------------------------------
(* Properties                                                              *)

TypeOK ==
    /\ lent \in [Threads -> Conns \cup {NoConn}]
    /\ session \in [Conns -> Session]
    /\ stage \in [Threads -> Stages]
    /\ req \in [Threads -> Request]
    /\ feedback \in [Threads -> SUBSET Record]

\* Whatever the borrowers before it left in the session, an EXPLAIN and an execution run
\* under exactly the knobs the request asks for and the timeout of their stage: the plan
\* the model ranks is the plan of the variant it is filed under.
SessionIsOwn ==
    \A t \in Threads :
        /\ stage[t] = "explain" => session[lent[t]] = [knobs |-> NextVariant(t), limit |-> "planning"]
        /\ stage[t] = "execute" => session[lent[t]] = [knobs |-> NextVariant(t), limit |-> "caller"]

\* A feedback record ran under exactly the knobs it lists; of /run-and-learn they are
\* those of the variant it names; it carries a prediction only of a model the breaker was
\* told a success of, and without the oracle its label says whether it does.
\* The variant and the label of an /execute record are the caller's and may be of another
\* plan (server.py:439-463), although extraction takes the knob columns from the variant.
\* With the oracle "ml" is the picked variant, whoever picked it (runner.py:177).
FeedbackHonest ==
    \A t \in Threads : \A r \in feedback[t] :
        /\ r.ran = r.knobs
        /\ r.kind # "execute" => r.variant = r.knobs
        /\ r.predicted => req[t].told = "success"
        /\ r.kind = "run_and_learn" =>
              r.by = IF req[t].told = "success" THEN "ml" ELSE "pg_fallback"

\* The breaker hears exactly once of every call it let through that reached the model,
\* and nothing of one that PostgreSQL ended; what is served as a ranking is what it was
\* told a success of.
BreakerHears ==
    \A t \in Threads : stage[t] = "ranked" =>
        req[t].told = IF ~req[t].allowed THEN "nothing"
                      ELSE IF req[t].fallback THEN "failure" ELSE "success"

\* One deadline, give or take the least timeout, holds for the wait for a connection
\* and the first statement.  Each statement after it may take the timeout once more, and
\* there is at most one for every variant and one for the fallback.  timeout_budget.py:9-11
\* and docs/PHASE4A_RESILIENCE.md:91-102 and :159 promise one deadline for the whole request.
OverrunBounded ==
    \A t \in Threads :
        /\ req[t].sent <= Cardinality(Variants) + 1
        /\ req[t].spent + req[t].limit <= Budget + Minimum + req[t].sent * req[t].limit

\* Every request ends and has given its connection back, whatever failed on the way.
RequestsEnd ==
    \A t \in Threads : stage[t] # "out" ~> stage[t] = "out" /\ lent[t] = NoConn

=============================================================================
