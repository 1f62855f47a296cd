--------------------------- MODULE ConnectionPool ---------------------------
(***************************************************************************)
(* The bounded PostgreSQL connection pool of the ML service               *)
(* (services/ml_service/db_pool.py): request threads acquire and release   *)
(* connections, the server's lifespan closes the pool on shutdown, and     *)
(* PostgreSQL may break any connection.  The code holds self._lock only    *)
(* around each read or write of the counter _created, and the idle queue   *)
(* has a lock of its own, so every step below is one such critical section *)
(* or one call on a connection.                                            *)
(*                                                                         *)
(* Connections are identities: one that is closed may be opened again.     *)
(* The observability counters and the FIFO order of the queue are left     *)
(* out; no decision of the pool reads either.                              *)
(***************************************************************************)
EXTENDS Naturals, FiniteSets

CONSTANTS
    Threads,      \* the worker threads that serve requests
    Conns,        \* identities of connections
    NoConn,       \* the value of conn[t] when t has none
    MinConn,      \* connections opened by the constructor
    MaxConn,      \* the capacity of the pool
    MaxBreaks     \* bound: how often PostgreSQL breaks a connection

ASSUME PoolAssumption ==
    /\ IsFiniteSet(Threads) /\ Threads # {}
    /\ IsFiniteSet(Conns) /\ Cardinality(Conns) >= MaxConn + Cardinality(Threads)
    /\ NoConn \notin Conns
    /\ MinConn \in Nat /\ MaxConn \in Nat \ {0} /\ MinConn <= MaxConn
    /\ MaxBreaks \in Nat

VARIABLES
    status,    \* what PostgreSQL and the client know of each connection
    idle,      \* the connections in the queue _idle
    created,   \* the counter _created
    closed,    \* the flag _closed
    closer,    \* where closeall() is
    pc,        \* where each thread is in acquire() or release()
    conn,      \* the connection each thread has in hand
    expired,   \* has the deadline of the thread's acquire() passed
    breaks     \* how many connections PostgreSQL has broken

vars == <<status, idle, created, closed, closer, pc, conn, expired, breaks>>

\* A connection the client has not opened (or has closed), one that works, and
\* one whose server side is gone while the client still holds the socket.
ConnStatus == {"closed", "open", "broken"}

\* "get" .. "wait" are the steps of acquire(), "retire" and "retireClose" the
\* two halves of its _discard(); "held" is the caller using the connection;
\* "release", "put" and "drop", "dropClose" are the steps of release().
Acquiring  == {"get", "validate", "retire", "retireClose", "check", "open",
               "count", "atCap", "wait"}
Releasing  == {"release", "put", "drop", "dropClose"}
Step       == {"out", "held"} \cup Acquiring \cup Releasing

----------------------------------------------------------------------------
(* The constructor opens MinConn connections and gives up at the first     *)
(* failure.                                                                *)
Init ==
    /\ \E S \in SUBSET Conns :
          /\ Cardinality(S) <= MinConn
          /\ idle = S
          /\ status = [c \in Conns |-> IF c \in S THEN "open" ELSE "closed"]
          /\ created = Cardinality(S)
    /\ closed = FALSE
    /\ closer = "running"
    /\ pc = [t \in Threads |-> "out"]
    /\ conn = [t \in Threads |-> NoConn]
    /\ expired = [t \in Threads |-> FALSE]
    /\ breaks = 0

Go(t, from, to) ==
    /\ pc[t] = from
    /\ pc' = [pc EXCEPT ![t] = to]

\* A step that changes nothing but the thread's position.
Jump(t, from, to) ==
    /\ Go(t, from, to)
    /\ UNCHANGED <<status, idle, created, closed, closer, conn, expired, breaks>>

\* Seeded fault: the counter is not clamped at 0.
DecrementedUnclamped == created - 1

\* self._created = max(0, self._created - 1)
Decremented == IF created > 0 THEN created - 1 ELSE 0

----------------------------------------------------------------------------
(* acquire()                                                               *)

\* An acquire() of a closed pool raises PoolClosed and changes nothing.
Acquire(t) ==
    /\ ~closed
    /\ Go(t, "out", "get")
    /\ expired' = [expired EXCEPT ![t] = FALSE]
    /\ UNCHANGED <<status, idle, created, closed, closer, conn, breaks>>

AcquireClosed(t) ==
    /\ closed
    /\ pc[t] = "out"
    /\ UNCHANGED vars

\* Seeded fault: the connection stays in the queue while it is lent.
PeekIdle(t, from) ==
    /\ Go(t, from, "validate")
    /\ \E c \in idle : conn' = [conn EXCEPT ![t] = c]
    /\ UNCHANGED <<status, idle, created, closed, closer, expired, breaks>>

TakeIdle(t, from) ==
    /\ Go(t, from, "validate")
    /\ \E c \in idle :
          /\ idle' = idle \ {c}
          /\ conn' = [conn EXCEPT ![t] = c]
    /\ UNCHANGED <<status, created, closed, closer, expired, breaks>>

GetIdle(t) == TakeIdle(t, "get")

QueueEmpty(t) ==
    /\ idle = {}
    /\ Jump(t, "get", "check")

\* SELECT 1 on the connection taken from the queue.
Validate(t) ==
    Jump(t, "validate", IF status[conn[t]] = "open" THEN "held" ELSE "retire")

\* Seeded faults: _discard() forgets the counter, or forgets conn.close().
DiscardUncounted(t, from, to) == Jump(t, from, to)

DiscardLeftOpen(t, from, to) ==
    /\ Go(t, from, to)
    /\ conn' = [conn EXCEPT ![t] = NoConn]
    /\ UNCHANGED <<status, idle, created, closed, closer, expired, breaks>>

\* _discard(): the counter is lowered under the lock, the socket closed after.
DiscardCount(t, from, to) ==
    /\ Go(t, from, to)
    /\ created' = Decremented
    /\ UNCHANGED <<status, idle, closed, closer, conn, expired, breaks>>

DiscardClose(t, from, to) ==
    /\ Go(t, from, to)
    /\ status' = [status EXCEPT ![conn[t]] = "closed"]
    /\ conn' = [conn EXCEPT ![t] = NoConn]
    /\ UNCHANGED <<idle, created, closed, closer, expired, breaks>>

Retire(t)      == DiscardCount(t, "retire", "retireClose")
RetireClose(t) == DiscardClose(t, "retireClose", "get")

\* can_create is computed under the lock ...
CheckCapacity(t) ==
    Jump(t, "check", IF created < MaxConn THEN "open" ELSE "atCap")

\* ... and used after it is dropped: _connect() runs with no lock held,
Connect(t) ==
    /\ Go(t, "open", "count")
    /\ \E c \in Conns :
          /\ status[c] = "closed"
          /\ status' = [status EXCEPT ![c] = "open"]
          /\ conn' = [conn EXCEPT ![t] = c]
    /\ UNCHANGED <<idle, created, closed, closer, expired, breaks>>

\* fails with PoolTimeout when PostgreSQL is unreachable,
ConnectFails(t) == Jump(t, "open", "out")

\* and _created is raised in a critical section of its own.
CountCreated(t) ==
    /\ Go(t, "count", "held")
    /\ created' = created + 1
    /\ UNCHANGED <<status, idle, closed, closer, conn, expired, breaks>>

\* Seeded fault: the deadline is not looked at.
AtCapacityForever(t) == Jump(t, "atCap", "wait")

\* At capacity: PoolTimeout past the deadline, else a bounded wait.
AtCapacity(t) == Jump(t, "atCap", IF expired[t] THEN "out" ELSE "wait")

WaitTake(t) == TakeIdle(t, "wait")

\* The wait ends after min(remaining, 0.25) seconds with the queue empty.
WaitEmpty(t) ==
    /\ idle = {}
    /\ Jump(t, "wait", "get")

\* The clock passes the deadline of a pending acquire().
Deadline(t) ==
    /\ pc[t] \in Acquiring /\ ~expired[t]
    /\ expired' = [expired EXCEPT ![t] = TRUE]
    /\ UNCHANGED <<status, idle, created, closed, closer, pc, conn, breaks>>

----------------------------------------------------------------------------
(* release()                                                               *)

Release(t) == Jump(t, "held", "release")

\* The flag _closed and conn.closed are read, and an open transaction rolled
\* back.  A broken connection is noticed if the borrower ran a statement on it
\* or left a transaction open, and goes back to the queue otherwise.
InspectReleased(t) ==
    \/ Jump(t, "release", "drop") /\ (closed \/ status[conn[t]] = "broken")
    \/ Jump(t, "release", "put")  /\ ~closed

\* Seeded fault: the queue has no maxsize.
PutUnbounded(t) ==
    /\ Go(t, "put", "out")
    /\ idle' = idle \cup {conn[t]}
    /\ conn' = [conn EXCEPT ![t] = NoConn]
    /\ UNCHANGED <<status, created, closed, closer, expired, breaks>>

\* put_nowait(), or queue.Full.
PutIdle(t) ==
    /\ Cardinality(idle) < MaxConn
    /\ Go(t, "put", "out")
    /\ idle' = idle \cup {conn[t]}
    /\ conn' = [conn EXCEPT ![t] = NoConn]
    /\ UNCHANGED <<status, created, closed, closer, expired, breaks>>

PutFull(t) ==
    /\ Cardinality(idle) >= MaxConn
    /\ Jump(t, "put", "drop")

Drop(t)      == DiscardCount(t, "drop", "dropClose")
DropClose(t) == DiscardClose(t, "dropClose", "out")

----------------------------------------------------------------------------
(* closeall(), called once by the server's lifespan                        *)

CloseFlag ==
    /\ closer = "running"
    /\ closed' = TRUE
    /\ closer' = "draining"
    /\ UNCHANGED <<status, idle, created, pc, conn, expired, breaks>>

CloseIdle ==
    /\ closer = "draining"
    /\ \E c \in idle :
          /\ idle' = idle \ {c}
          /\ status' = [status EXCEPT ![c] = "closed"]
    /\ UNCHANGED <<created, closed, closer, pc, conn, expired, breaks>>

CloseDrained ==
    /\ closer = "draining" /\ idle = {}
    /\ closer' = "drained"
    /\ UNCHANGED <<status, idle, created, closed, pc, conn, expired, breaks>>

CloseReset ==
    /\ closer = "drained"
    /\ closer' = "done"
    /\ created' = 0
    /\ UNCHANGED <<status, idle, closed, pc, conn, expired, breaks>>

----------------------------------------------------------------------------
\* PostgreSQL restarts, terminates a backend, or the network drops.
Break(c) ==
    /\ breaks < MaxBreaks
    /\ status[c] = "open"
    /\ status' = [status EXCEPT ![c] = "broken"]
    /\ breaks' = breaks + 1
    /\ UNCHANGED <<idle, created, closed, closer, pc, conn, expired>>

AcquireStep(t) ==
    \/ GetIdle(t) \/ QueueEmpty(t) \/ Validate(t) \/ Retire(t) \/ RetireClose(t)
    \/ CheckCapacity(t) \/ Connect(t) \/ ConnectFails(t) \/ CountCreated(t)
    \/ AtCapacity(t) \/ WaitTake(t) \/ WaitEmpty(t)

ReleaseStep(t) ==
    \/ InspectReleased(t) \/ PutIdle(t) \/ PutFull(t) \/ Drop(t) \/ DropClose(t)

CloseStep == CloseFlag \/ CloseIdle \/ CloseDrained \/ CloseReset

Next ==
    \/ \E t \in Threads : Acquire(t) \/ AcquireClosed(t) \/ Release(t) \/ Deadline(t)
    \/ \E t \in Threads : AcquireStep(t) \/ ReleaseStep(t)
    \/ CloseStep
    \/ \E c \in Conns : Break(c)

Spec == Init /\ [][Next]_vars

(* The threads of the server keep running and the clock keeps ticking; a   *)
(* caller need not release what it holds, nor need anybody call closeall().*)
Fairness ==
    \A t \in Threads :
        /\ WF_vars(AcquireStep(t))
        /\ WF_vars(ReleaseStep(t))
        /\ WF_vars(Deadline(t))

LiveSpec == Spec /\ Fairness

----------------------------------------------------------------------------
(* Properties                                                              *)

TypeOK ==
    /\ status \in [Conns -> ConnStatus]
    /\ idle \in SUBSET Conns
    /\ created \in Nat
    /\ closed \in BOOLEAN
    /\ closer \in {"running", "draining", "drained", "done"}
    /\ pc \in [Threads -> Step]
    /\ conn \in [Threads -> Conns \cup {NoConn}]
    /\ expired \in [Threads -> BOOLEAN]
    /\ breaks \in 0 .. MaxBreaks

Holders == {t \in Threads : conn[t] # NoConn}

\* Threads whose connection is in the counter _created.
Counted == {t \in Threads :
              pc[t] \in {"validate", "retire", "held", "release", "put", "drop"}}

\* One connection for each thread, or those the constructor opened.
MostConns == IF Cardinality(Threads) > MinConn THEN Cardinality(Threads) ELSE MinConn

\* A connection is in the queue or in the hands of one thread, never of two:
\* two requests never run statements on one PostgreSQL session.
Exclusive ==
    /\ \A t \in Threads : conn[t] \notin idle
    /\ \A t, u \in Threads : t # u /\ conn[t] = conn[u] => conn[t] = NoConn

Lending == INSTANCE ConnectionLending WITH
    lent <- [t \in Threads |-> IF pc[t] = "held" THEN conn[t] ELSE NoConn]

\* The pool lends: what acquire() returns is lent to nobody else until its borrower
\* calls release(), so two requests never run statements on one PostgreSQL session.
LendsExclusively == Lending!Spec

\* No open connection is lost: whatever path acquire, release, _discard and
\* closeall take, it stays in the queue or in the hands of a thread.
NoneLost ==
    \A c \in Conns :
        status[c] # "closed" <=> (c \in idle \/ \E t \in Threads : conn[t] = c)

\* Until the shutdown, _created counts exactly the connections in the queue and
\* those in hand that are past _open_one() and not yet in _discard().
CountedExactly ==
    closer = "running" => created = Cardinality(idle) + Cardinality(Counted)

\* How far can_create, used outside its critical section, lets the pool pass its
\* cap: a thread opens a connection only after it has found the queue empty, so
\* there is never more than one for each thread, and the cap is safe as long as
\* there are no more threads than MaxConn.
BoundedOvershoot ==
    closer = "running" =>
        /\ created <= MostConns
        /\ Cardinality(idle) + Cardinality(Holders) <= MostConns

\* The excess does not last: with no call in progress the pool holds as many
\* connections as it counts, and at most MaxConn.
CapWhenQuiet ==
    (closer = "running" /\ \A t \in Threads : pc[t] = "out") =>
        /\ created = Cardinality({c \in Conns : status[c] # "closed"})
        /\ created <= MaxConn

\* What docs/PHASE4A_RESILIENCE.md and the module's docstring promise.
CreatedWithinCap == closer = "running" => created <= MaxConn

\* acquire() never hangs: it hands out a connection or raises, even when every
\* connection in the queue is dead and others keep taking what is released; and
\* release() ends.
CallsReturn ==
    \A t \in Threads :
        pc[t] \in Acquiring \cup Releasing ~> pc[t] \in {"out", "held"}

=============================================================================
