-------------------------- MODULE ConnectionLending --------------------------
(***************************************************************************)
(* What the connection pool promises to the handlers of the ML service: a  *)
(* connection is lent to one thread at a time, from the return of          *)
(* acquire() to the call of release() (services/ml_service/db_pool.py).    *)
(***************************************************************************)
CONSTANTS
    Threads,   \* the worker threads that serve requests
    Conns,     \* identities of connections
    NoConn     \* the value of lent[t] when t has none

VARIABLE lent  \* the connection each thread has borrowed

Init == lent = [t \in Threads |-> NoConn]

Borrowed == {lent[t] : t \in Threads}

Lend(t) ==
    /\ lent[t] = NoConn
    /\ \E c \in Conns \ Borrowed : lent' = [lent EXCEPT ![t] = c]

GiveBack(t) ==
    /\ lent[t] # NoConn
    /\ lent' = [lent EXCEPT ![t] = NoConn]

Next == \E t \in Threads : Lend(t) \/ GiveBack(t)

Spec == Init /\ [][Next]_lent

=============================================================================
