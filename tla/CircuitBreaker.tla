--------------------------- MODULE CircuitBreaker ---------------------------
(***************************************************************************)
(* The circuit breaker around the ML prediction path                       *)
(* (services/ml_service/circuit_breaker.py) and the calls the /plan-pick   *)
(* and /run-and-learn handlers make through it (server.py).  Each method   *)
(* of the breaker reads the clock and changes the state under one lock, so *)
(* each is one step; the prediction itself runs between allow() and        *)
(* record_success() or record_failure(), with no lock held.                *)
(*                                                                         *)
(* A timestamp is modelled by its age, which Tick advances: the code only  *)
(* ever looks at the difference from now.  An age is not counted past the  *)
(* value from which the code no longer tells it apart.                     *)
(***************************************************************************)
EXTENDS Integers, Sequences, FiniteSets, Functions

CONSTANTS
    Threads,     \* the worker threads that serve requests
    Threshold,   \* failure_threshold
    Window,      \* window_s
    Reset        \* reset_timeout_s

ASSUME BreakerAssumption ==
    /\ IsFiniteSet(Threads)
    /\ Threshold \in Nat \ {0}
    /\ Window \in Nat
    /\ Reset \in Nat \ {0}

VARIABLES
    state,        \* _state
    failures,     \* _failures, oldest first, as ages
    sinceOpened,  \* the age of _opened_at
    call,         \* the state in which allow() let each thread's call through
    callAge,      \* how long ago it did
    seen,         \* history: how many failures, by age, since the last success
    answered      \* history: has a call reported a success since the last opening?

vars == <<state, failures, sinceOpened, call, callAge, seen, answered>>

State == {"closed", "open", "half_open"}
Stale == Window + 1    \* the age of a failure that is out of the window

Older(age, cap) == IF age < cap THEN age + 1 ELSE cap

----------------------------------------------------------------------------
Init ==
    /\ state = "closed"
    /\ failures = <<>>
    /\ sinceOpened = Reset
    /\ call = [t \in Threads |-> "none"]
    /\ callAge = [t \in Threads |-> 0]
    /\ seen = [a \in 0 .. Window |-> 0]
    /\ answered = FALSE

Admit(t) ==
    /\ call' = [call EXCEPT ![t] = state']
    /\ callAge' = [callAge EXCEPT ![t] = 0]

\* Seeded fault: an open breaker lets calls through before the reset timeout.
AllowEarly(t) ==
    /\ call[t] = "none" /\ state = "open"
    /\ state' = "half_open"
    /\ Admit(t)
    /\ UNCHANGED <<failures, sinceOpened, seen, answered>>

\* allow() in the state CLOSED or HALF_OPEN.
AllowThrough(t) ==
    /\ call[t] = "none" /\ state # "open"
    /\ UNCHANGED <<state, failures, sinceOpened, seen, answered>>
    /\ Admit(t)

\* allow() in the state OPEN once the reset timeout has passed.
AllowTrial(t) ==
    /\ call[t] = "none" /\ state = "open"
    /\ sinceOpened >= Reset
    /\ state' = "half_open"
    /\ Admit(t)
    /\ UNCHANGED <<failures, sinceOpened, seen, answered>>

\* Seeded fault: a refused call restarts the reset timeout.
ShortCircuitRestarts(t) ==
    /\ call[t] = "none" /\ state = "open"
    /\ sinceOpened < Reset
    /\ sinceOpened' = 0
    /\ UNCHANGED <<state, failures, call, callAge, seen, answered>>

\* allow() in the state OPEN before that: the caller serves PostgreSQL's own
\* plan and the breaker is left as it was.
ShortCircuit(t) ==
    /\ call[t] = "none" /\ state = "open"
    /\ sinceOpened < Reset
    /\ UNCHANGED vars

\* Seeded faults: a failure as old as the window is dropped; nothing is dropped.
PrunedEarly(ages) == SelectSeq(ages, LAMBDA age : age < Window)
PrunedNever(ages) == ages

\* _prune(): pop from the left while the oldest failure is out of the window.
Pruned(ages) ==
    LET fresh == {k \in 1 .. Len(ages) : ages[k] <= Window}
        k == IF fresh = {} THEN Len(ages) + 1
             ELSE CHOOSE i \in fresh : \A j \in fresh : i <= j
    IN  SubSeq(ages, k, Len(ages))

End(t) ==
    /\ call[t] # "none"
    /\ call' = [call EXCEPT ![t] = "none"]
    /\ callAge' = [callAge EXCEPT ![t] = 0]

\* A success clears the failures and closes the breaker whatever its state: also an
\* open one, when a call let through before the opening answers after it.
RecordSuccess(t) ==
    /\ End(t)
    /\ state' = "closed"
    /\ failures' = <<>>
    /\ UNCHANGED sinceOpened
    /\ seen' = [a \in 0 .. Window |-> 0]
    /\ answered' = TRUE

FailTrial(t) ==
    /\ state = "half_open"
    /\ End(t)
    /\ state' = "open"
    /\ sinceOpened' = 0
    /\ UNCHANGED failures
    /\ seen' = [seen EXCEPT ![0] = @ + 1]
    /\ answered' = FALSE

\* A failure in the state CLOSED, or a late one in the state OPEN.
FailCounted(t) ==
    /\ state # "half_open"
    /\ End(t)
    /\ LET kept == Pruned(Append(failures, 0)) IN
          \/ /\ Len(kept) >= Threshold
             /\ state' = "open"
             /\ sinceOpened' = 0
             /\ failures' = <<>>
             /\ answered' = FALSE
          \/ /\ Len(kept) < Threshold
             /\ failures' = kept
             /\ UNCHANGED <<state, sinceOpened, answered>>
    /\ seen' = [seen EXCEPT ![0] = @ + 1]

RecordFailure(t) == FailTrial(t) \/ FailCounted(t)

\* The call ends in a psycopg2 error or a RuntimeError: the breaker is not told.
EndUnrecorded(t) ==
    /\ End(t)
    /\ UNCHANGED <<state, failures, sinceOpened, seen, answered>>

\* One unit of time passes.
Tick ==
    /\ failures' = [k \in DOMAIN failures |-> Older(failures[k], Stale)]
    /\ sinceOpened' = Older(sinceOpened, Reset)
    /\ callAge' = [t \in Threads |->
                     IF call[t] = "none" THEN 0 ELSE Older(callAge[t], Reset)]
    /\ seen' = [a \in 0 .. Window |-> IF a = 0 THEN 0 ELSE seen[a - 1]]
    /\ UNCHANGED <<state, call, answered>>

Allow(t)  == AllowThrough(t) \/ AllowTrial(t) \/ ShortCircuit(t)
Finish(t) == RecordSuccess(t) \/ RecordFailure(t) \/ EndUnrecorded(t)

Next ==
    \/ \E t \in Threads : Allow(t) \/ Finish(t)
    \/ Tick

Spec == Init /\ [][Next]_vars

(* The clock runs, calls end (each statement has a timeout), and requests  *)
(* keep coming.                                                            *)
Fairness ==
    /\ WF_vars(Tick)
    /\ \A t \in Threads : WF_vars(Finish(t))
    /\ WF_vars(\E t \in Threads : Allow(t))

LiveSpec == Spec /\ Fairness

----------------------------------------------------------------------------
(* Properties                                                              *)

Ages == 0 .. Stale

TypeOK ==
    /\ state \in State
    /\ failures \in Seq(Ages) /\ Len(failures) < Threshold
    /\ sinceOpened \in 0 .. Reset
    /\ call \in [Threads -> State \cup {"none"}]
    /\ callAge \in [Threads -> 0 .. Reset]
    /\ seen \in [0 .. Window -> Nat]
    /\ answered \in BOOLEAN

\* The queue of failures is in the order of their age, whatever late failures
\* arrive while the breaker is open or half open: this is what lets _prune() stop
\* at the first failure it keeps.
OldestFirst == \A i, j \in DOMAIN failures : i < j => failures[i] >= failures[j]

\* From an opening of the breaker to the end of the reset timeout no call is let
\* through, and the breaker stays open, unless a call that was in progress at the
\* opening reports a success: record_success() then closes it at once, and calls flow
\* again.  The state machine of circuit_breaker.py:17-26 and
\* docs/PHASE4A_RESILIENCE.md:62-74, which leaves OPEN only by the timeout, has no
\* such edge.
OpeningHolds ==
    sinceOpened < Reset /\ ~answered =>
        /\ state = "open"
        /\ \A t \in Threads : call[t] # "none" => callAge[t] >= sinceOpened

\* A closed breaker has seen fewer failures than the threshold in the window
\* since the last success, and what it keeps of the window is all of them.
ClosedCountsWindow ==
    state = "closed" =>
        /\ SumFunction(seen) < Threshold
        /\ Cardinality({k \in DOMAIN failures : failures[k] <= Window}) = SumFunction(seen)

\* A closed breaker opens only on as many failures within the window, with no
\* success since.
OpensOnEvidence ==
    [][state = "closed" /\ state' = "open" => SumFunction(seen') >= Threshold]_vars

\* Whatever the calls in progress do, an open breaker lets the model be tried
\* again, as long as requests arrive.
Recovers == state = "open" ~> state # "open"

\* circuit_breaker.py and docs/PHASE4A_RESILIENCE.md: in the state HALF_OPEN
\* one trial call is permitted.
SingleTrial ==
    state = "half_open" => Cardinality({t \in Threads : call[t] = "half_open"}) <= 1

=============================================================================
