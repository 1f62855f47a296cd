-------------------------- MODULE AttributedService --------------------------
(***************************************************************************)
(* What the ML service promises about its answers while models are         *)
(* promoted, reloaded and cached (services/ml_service): an answer is        *)
(* computed by the model it is attributed to, which is one of those loaded *)
(* so far.  With caches that the replicas share a weaker promise is left:  *)
(* the predictions behind an answer are those of models loaded so far.     *)
(***************************************************************************)
CONSTANTS
    Calls,       \* the threads that answer requests
    Versions,    \* model versions
    NoAnswer     \* the value of answer[t] while t has none

VARIABLES
    shared,      \* do the replicas share their caches
    live,        \* the models loaded so far
    answer       \* what each thread answers

vars == <<shared, live, answer>>

Init ==
    /\ shared \in BOOLEAN
    /\ live \in SUBSET Versions
    /\ answer = [t \in Calls |-> NoAnswer]

Load(v) ==
    /\ live' = live \cup {v}
    /\ UNCHANGED <<shared, answer>>

Reply(t) ==
    /\ \E v \in live, by \in SUBSET live :
          /\ ~shared => by = {v}
          /\ answer' = [answer EXCEPT ![t] = [said |-> v, by |-> by]]
    /\ UNCHANGED <<shared, live>>

Forget(t) ==
    /\ answer' = [answer EXCEPT ![t] = NoAnswer]
    /\ UNCHANGED <<shared, live>>

Next ==
    \/ \E v \in Versions : Load(v)
    \/ \E t \in Calls : Reply(t) \/ Forget(t)

Spec == Init /\ [][Next]_vars

=============================================================================
