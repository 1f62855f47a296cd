------------------------ MODULE ConnectionPoolProofs ------------------------
(***************************************************************************)
(* Theorems about ConnectionPool for every set of threads, every capacity  *)
(* and every number of broken connections.                                 *)
(***************************************************************************)
EXTENDS ConnectionPool, FiniteSetTheorems, TLAPS

USE DEF Go, Jump

----------------------------------------------------------------------------
(* Types                                                                   *)

\* A thread has a connection in hand in exactly these steps.
HandsMatch ==
    \A t \in Threads :
        conn[t] # NoConn <=>
            pc[t] \in {"validate", "retire", "retireClose", "count", "held",
                      "release", "put", "drop", "dropClose"}

Ownership == HandsMatch /\ Exclusive /\ NoneLost

LEMMA TypesInit == Init => TypeOK
<1> SUFFICES ASSUME Init PROVE TypeOK
  OBVIOUS
<1>1. PICK S \in SUBSET Conns :
          /\ idle = S
          /\ status = [c \in Conns |-> IF c \in S THEN "open" ELSE "closed"]
          /\ created = Cardinality(S)
  BY DEF Init
<1>2. Cardinality(S) \in Nat
  BY PoolAssumption, FS_Subset, FS_CardinalityType
<1>3. status \in [Conns -> ConnStatus]
  BY <1>1 DEF ConnStatus
<1>4. "out" \in Step /\ 0 \in 0 .. MaxBreaks
  BY PoolAssumption DEF Step
<1>5. pc \in [Threads -> Step] /\ conn \in [Threads -> Conns \cup {NoConn}]
  BY <1>4 DEF Init
<1>6. QED
  BY <1>1, <1>2, <1>3, <1>4, <1>5 DEF Init, TypeOK

LEMMA TypesStep == TypeOK /\ HandsMatch /\ [Next]_vars => TypeOK'
<1> SUFFICES ASSUME TypeOK, HandsMatch, [Next]_vars PROVE TypeOK'
  OBVIOUS
<1>1. ASSUME NEW t \in Threads, Acquire(t) \/ AcquireClosed(t) \/ Release(t) \/ Deadline(t)
      PROVE TypeOK'
  <2>1. "get" \in Step /\ "release" \in Step
    BY DEF Step, Acquiring, Releasing
  <2>2. QED
    BY <1>1, <2>1 DEF TypeOK, Acquire, AcquireClosed, Release, Deadline, vars
<1>2. ASSUME NEW t \in Threads, AcquireStep(t)
      PROVE TypeOK'
  <2> Acquiring \subseteq Step /\ "out" \in Step /\ "held" \in Step
    BY DEF Step
  <2>1. CASE GetIdle(t) \/ WaitTake(t)
    BY <2>1 DEF TypeOK, Acquiring, GetIdle, WaitTake, TakeIdle
  <2>2. CASE QueueEmpty(t) \/ Validate(t) \/ CheckCapacity(t) \/ AtCapacity(t)
             \/ WaitEmpty(t) \/ ConnectFails(t)
    BY <2>2 DEF TypeOK, Acquiring, QueueEmpty, Validate, CheckCapacity, AtCapacity,
                WaitEmpty, ConnectFails
  <2>3. CASE Retire(t) \/ RetireClose(t)
    BY <2>3 DEF TypeOK, ConnStatus, Acquiring, Retire, RetireClose, DiscardCount,
                DiscardClose, Decremented
  <2>4. CASE Connect(t) \/ CountCreated(t)
    BY <2>4 DEF TypeOK, ConnStatus, Acquiring, Connect, CountCreated
  <2>5. QED
    BY <1>2, <2>1, <2>2, <2>3, <2>4 DEF AcquireStep
<1>3. ASSUME NEW t \in Threads, ReleaseStep(t)
      PROVE TypeOK'
  <2> Releasing \subseteq Step /\ "out" \in Step
    BY DEF Step
  <2>1. CASE InspectReleased(t) \/ PutFull(t)
    BY <2>1 DEF TypeOK, Releasing, InspectReleased, PutFull
  <2>2. CASE PutIdle(t)
    <3>1. conn[t] \in Conns
      BY <2>2 DEF HandsMatch, TypeOK, PutIdle
    <3>2. QED
      BY <2>2, <3>1 DEF TypeOK, PutIdle
  <2>3. CASE Drop(t) \/ DropClose(t)
    BY <2>3 DEF TypeOK, ConnStatus, Releasing, Drop, DropClose, DiscardCount,
                DiscardClose, Decremented
  <2>4. QED
    BY <1>3, <2>1, <2>2, <2>3 DEF ReleaseStep
<1>4. CASE CloseStep
  <2>1. CASE CloseIdle
    BY <2>1 DEF TypeOK, ConnStatus, CloseIdle
  <2>2. CASE CloseFlag
    BY <2>2 DEF TypeOK, CloseFlag
  <2>3. CASE CloseDrained
    BY <2>3 DEF TypeOK, CloseDrained
  <2>4. CASE CloseReset
    BY <2>4 DEF TypeOK, CloseReset
  <2>5. QED
    BY <1>4, <2>1, <2>2, <2>3, <2>4 DEF CloseStep
<1>5. ASSUME NEW c \in Conns, Break(c)
      PROVE TypeOK'
  <2>1. breaks' \in 0 .. MaxBreaks
    BY <1>5, PoolAssumption DEF TypeOK, Break
  <2>2. status' \in [Conns -> ConnStatus]
    BY <1>5 DEF TypeOK, ConnStatus, Break
  <2>3. QED
    BY <1>5, <2>1, <2>2 DEF TypeOK, Break
<1>6. CASE UNCHANGED vars
  BY <1>6 DEF TypeOK, vars
<1>7. QED
  BY <1>1, <1>2, <1>3, <1>4, <1>5, <1>6 DEF Next

----------------------------------------------------------------------------
(* Ownership of connections                                                *)

LEMMA OwnershipInit == Init => Ownership
<1> SUFFICES ASSUME Init PROVE Ownership
  OBVIOUS
<1>1. PICK S \in SUBSET Conns :
          /\ idle = S
          /\ status = [c \in Conns |-> IF c \in S THEN "open" ELSE "closed"]
  BY DEF Init
<1>2. QED
  BY <1>1, PoolAssumption DEF Init, Ownership, HandsMatch, Exclusive, NoneLost

LEMMA OwnershipStep == TypeOK /\ Ownership /\ [Next]_vars => Ownership'
<1> SUFFICES ASSUME TypeOK, Ownership, [Next]_vars PROVE Ownership'
  OBVIOUS
<1> USE PoolAssumption
    DEF TypeOK, Ownership, HandsMatch, Exclusive, NoneLost, Acquiring, Releasing
<1>1. ASSUME NEW t \in Threads, Acquire(t) \/ AcquireClosed(t) \/ Release(t) \/ Deadline(t)
      PROVE Ownership'
  BY <1>1 DEF Acquire, AcquireClosed, Release, Deadline, vars
<1>2. ASSUME NEW t \in Threads, GetIdle(t) \/ WaitTake(t)
      PROVE Ownership'
  BY <1>2 DEF GetIdle, WaitTake, TakeIdle
<1>3. ASSUME NEW t \in Threads,
             QueueEmpty(t) \/ CheckCapacity(t) \/ AtCapacity(t) \/ WaitEmpty(t)
             \/ ConnectFails(t)
      PROVE Ownership'
  BY <1>3 DEF QueueEmpty, CheckCapacity, AtCapacity, WaitEmpty, ConnectFails
<1>4. ASSUME NEW t \in Threads,
             Validate(t) \/ CountCreated(t) \/ InspectReleased(t) \/ PutFull(t)
      PROVE Ownership'
  BY <1>4 DEF Validate, CountCreated, InspectReleased, PutFull
<1>5. ASSUME NEW t \in Threads, Retire(t) \/ Drop(t)
      PROVE Ownership'
  BY <1>5 DEF Retire, Drop, DiscardCount
<1>6. ASSUME NEW t \in Threads, RetireClose(t) \/ DropClose(t)
      PROVE Ownership'
  BY <1>6 DEF RetireClose, DropClose, DiscardClose
<1>7. ASSUME NEW t \in Threads, Connect(t)
      PROVE Ownership'
  BY <1>7 DEF Connect
<1>8. ASSUME NEW t \in Threads, PutIdle(t)
      PROVE Ownership'
  BY <1>8 DEF PutIdle
<1>9. CASE CloseStep
  BY <1>9 DEF CloseStep, CloseFlag, CloseIdle, CloseDrained, CloseReset
<1>10. ASSUME NEW c \in Conns, Break(c)
       PROVE Ownership'
  BY <1>10 DEF Break
<1>11. CASE UNCHANGED vars
  BY <1>11 DEF vars
<1>12. QED
  BY <1>1, <1>2, <1>3, <1>4, <1>5, <1>6, <1>7, <1>8, <1>9, <1>10, <1>11
  DEF Next, AcquireStep, ReleaseStep

\* Every variable keeps its type; in particular _created never goes below 0,
\* although closeall() zeroes it while connections are still in hand.
THEOREM PoolTypes == Spec => []TypeOK
<1>1. TypeOK /\ Ownership /\ [Next]_vars => TypeOK'
  BY TypesStep DEF Ownership
<1>2. QED
  BY TypesInit, OwnershipInit, OwnershipStep, <1>1, PTL DEF Spec

LEMMA OwnedAlways == Spec => []Ownership
BY PoolTypes, OwnershipInit, OwnershipStep, PTL DEF Spec

\* No two requests ever share a PostgreSQL session, and no step of acquire,
\* release, _discard or closeall loses an open connection.
THEOREM ConnectionsOwned == Spec => [](Exclusive /\ NoneLost)
<1>1. Ownership => Exclusive /\ NoneLost
  BY DEF Ownership
<1>2. QED
  BY OwnedAlways, <1>1, PTL

----------------------------------------------------------------------------
(* The pool lends                                                          *)

\* What ConnectionLending sees of the pool.
Lent == [t \in Threads |-> IF pc[t] = "held" THEN conn[t] ELSE NoConn]

\* The steps that return from acquire() lend the connection in hand.
LEMMA ReturnLends ==
    ASSUME TypeOK, TypeOK', Ownership', NEW t \in Threads, Validate(t) \/ CountCreated(t)
    PROVE  Lending!Lend(t) \/ UNCHANGED Lent
<1>1. conn' = conn /\ pc[t] # "held" /\ \A u \in Threads \ {t} : pc'[u] = pc[u]
  BY DEF Validate, CountCreated, TypeOK
<1>2. CASE pc'[t] = "held"
  <2>1. Lent[t] = NoConn /\ Lent' = [Lent EXCEPT ![t] = conn[t]]
    BY <1>1, <1>2 DEF Lent
  <2>2. conn[t] \in Conns
    BY <1>1, <1>2 DEF Ownership, HandsMatch, TypeOK
  <2>3. conn[t] \notin {Lent[u] : u \in Threads}
    BY <1>1, <2>2, PoolAssumption DEF Ownership, Exclusive, Lent
  <2>4. QED
    BY <2>1, <2>2, <2>3 DEF Lending!Lend, Lending!Borrowed, Lent
<1>3. CASE pc'[t] # "held"
  BY <1>1, <1>3 DEF Lent
<1>4. QED
  BY <1>2, <1>3

LEMMA ReleaseGivesBack ==
    ASSUME TypeOK, Ownership, NEW t \in Threads, Release(t)
    PROVE  Lending!GiveBack(t)
<1>1. Lent[t] # NoConn /\ Lent' = [Lent EXCEPT ![t] = NoConn]
  BY DEF Release, Lent, Ownership, HandsMatch, TypeOK
<1>2. QED
  BY <1>1 DEF Lending!GiveBack, Lent

LEMMA StepLends ==
    TypeOK /\ Ownership /\ TypeOK' /\ Ownership' /\ [Next]_vars => [Lending!Next]_Lent
<1> SUFFICES ASSUME TypeOK, Ownership, TypeOK', Ownership', [Next]_vars
             PROVE  [Lending!Next]_Lent
  OBVIOUS
<1>1. ASSUME NEW t \in Threads, Validate(t) \/ CountCreated(t)
      PROVE  [Lending!Next]_Lent
  BY <1>1, ReturnLends DEF Lending!Next
<1>2. ASSUME NEW t \in Threads, Release(t)
      PROVE  [Lending!Next]_Lent
  BY <1>2, ReleaseGivesBack DEF Lending!Next
<1>3. ASSUME NEW t \in Threads,
             \/ Acquire(t) \/ AcquireClosed(t) \/ Deadline(t)
             \/ GetIdle(t) \/ QueueEmpty(t) \/ Retire(t) \/ RetireClose(t)
             \/ CheckCapacity(t) \/ Connect(t) \/ ConnectFails(t)
             \/ AtCapacity(t) \/ WaitTake(t) \/ WaitEmpty(t)
      PROVE  UNCHANGED Lent
  BY <1>3 DEF Acquire, AcquireClosed, Deadline, GetIdle, QueueEmpty, Retire, RetireClose,
       CheckCapacity, Connect, ConnectFails, AtCapacity, WaitTake, WaitEmpty, TakeIdle,
       DiscardCount, DiscardClose, Lent, TypeOK, vars
<1>4. ASSUME NEW t \in Threads, ReleaseStep(t)
      PROVE  UNCHANGED Lent
  BY <1>4 DEF ReleaseStep, InspectReleased, PutIdle, PutFull, Drop, DropClose,
       DiscardCount, DiscardClose, Lent, TypeOK
<1>5. ASSUME CloseStep \/ UNCHANGED vars \/ \E c \in Conns : Break(c)
      PROVE  UNCHANGED Lent
  BY <1>5 DEF CloseStep, CloseFlag, CloseIdle, CloseDrained, CloseReset, Break, Lent, vars
<1>6. QED
  BY <1>1, <1>2, <1>3, <1>4, <1>5 DEF Next, AcquireStep

\* Every behaviour of the pool is one of exclusive lending: whatever threads,
\* broken connections and the shutdown do, a connection acquire() has returned
\* is nobody else's until its borrower calls release().
THEOREM PoolLends == Spec => LendsExclusively
<1>1. Init => Lending!Init
  BY DEF Init, Lending!Init
<1>2. TypeOK /\ Ownership /\ TypeOK' /\ Ownership' /\ [Next]_vars => [Lending!Next]_Lent
  BY StepLends
<1>3. QED
  BY <1>1, <1>2, PoolTypes, OwnedAlways, PTL DEF Spec, LendsExclusively, Lending!Spec, Lent

----------------------------------------------------------------------------
(* The counter                                                             *)

LEMMA FiniteSubsets ==
    ASSUME TypeOK
    PROVE  /\ IsFiniteSet(idle) /\ Cardinality(idle) \in Nat
           /\ \A S \in SUBSET Threads :
                 /\ IsFiniteSet(S)
                 /\ Cardinality(S) \in Nat
                 /\ Cardinality(S) <= Cardinality(Threads)
           /\ Cardinality(Threads) \in Nat
BY PoolAssumption, FS_Subset, FS_CardinalityType DEF TypeOK

\* A thread that goes from a step of a set of steps to one outside of it, or
\* the other way, changes the number of threads there by one.
LEMMA OneThreadMoves ==
    ASSUME NEW S \in SUBSET Threads, NEW S2 \in SUBSET Threads, NEW t \in Threads,
           \A u \in Threads \ {t} : u \in S2 <=> u \in S
    PROVE  Cardinality(S2) =
             CASE t \in S /\ t \notin S2 -> Cardinality(S) - 1
               [] t \notin S /\ t \in S2 -> Cardinality(S) + 1
               [] OTHER -> Cardinality(S)
<1> IsFiniteSet(S)
  BY PoolAssumption, FS_Subset
<1>1. CASE t \in S /\ t \notin S2
  <2>1. S2 = S \ {t}
    BY <1>1
  <2>2. QED
    BY <1>1, <2>1, FS_RemoveElement
<1>2. CASE t \notin S /\ t \in S2
  <2>1. S2 = S \cup {t}
    BY <1>2
  <2>2. QED
    BY <1>2, <2>1, FS_AddElement
<1>3. CASE t \in S <=> t \in S2
  <2>1. S2 = S
    BY <1>3
  <2>2. QED
    BY <1>3, <2>1
<1>4. QED
  BY <1>1, <1>2, <1>3

\* What the counter invariants rest on, besides the types and ownership.
Capacity ==
    /\ closer = "running" <=> ~closed
    /\ Cardinality(idle) <= MaxConn
    /\ CountedExactly

LEMMA CapacityInit == Init => Capacity
<1> SUFFICES ASSUME Init PROVE Capacity
  OBVIOUS
<1>1. PICK S \in SUBSET Conns :
          Cardinality(S) <= MinConn /\ idle = S /\ created = Cardinality(S)
  BY DEF Init
<1>2. Cardinality(S) \in Nat
  BY PoolAssumption, FS_Subset, FS_CardinalityType
<1>3. Counted = {} /\ Cardinality(Counted) = 0
  BY FS_EmptySet DEF Init, Counted
<1>4. QED
  BY <1>1, <1>2, <1>3, PoolAssumption DEF Init, Capacity, CountedExactly

LEMMA CapacityStep == TypeOK /\ Ownership /\ Capacity /\ [Next]_vars => Capacity'
<1> SUFFICES ASSUME TypeOK, Ownership, Capacity, [Next]_vars PROVE Capacity'
  OBVIOUS
<1> USE FiniteSubsets, PoolAssumption DEF Capacity, CountedExactly
<1>a. Counted \in SUBSET Threads /\ Counted' \in SUBSET Threads
  BY DEF Counted
<1>b. pc \in [Threads -> Step] /\ created \in Nat
  BY DEF TypeOK
<1>1. ASSUME NEW t \in Threads, Acquire(t) \/ AcquireClosed(t) \/ Release(t) \/ Deadline(t)
      PROVE Capacity'
  <2>1. Counted' = Counted
    BY <1>1, <1>b DEF Acquire, AcquireClosed, Release, Deadline, Counted, vars
  <2>2. QED
    BY <1>1, <2>1 DEF Acquire, AcquireClosed, Release, Deadline, vars
<1>2. ASSUME NEW t \in Threads, GetIdle(t) \/ WaitTake(t)
      PROVE Capacity'
  <2>1. PICK c \in idle : idle' = idle \ {c}
    BY <1>2 DEF GetIdle, WaitTake, TakeIdle
  <2>2. Cardinality(idle') = Cardinality(idle) - 1
    BY <2>1, FS_RemoveElement
  <2>3. Cardinality(Counted') = Cardinality(Counted) + 1
    <3>1. t \notin Counted /\ t \in Counted' /\ \A u \in Threads \ {t} : u \in Counted' <=> u \in Counted
      BY <1>2, <1>b DEF GetIdle, WaitTake, TakeIdle, Counted
    <3>2. QED
      BY <3>1, <1>a, OneThreadMoves
  <2>4. UNCHANGED <<created, closed, closer>>
    BY <1>2 DEF GetIdle, WaitTake, TakeIdle
  <2>5. QED
    BY <2>2, <2>3, <2>4, <1>a
<1>3. ASSUME NEW t \in Threads,
             \/ QueueEmpty(t) \/ CheckCapacity(t) \/ AtCapacity(t) \/ WaitEmpty(t)
             \/ ConnectFails(t) \/ Validate(t) \/ InspectReleased(t) \/ PutFull(t)
             \/ Connect(t) \/ RetireClose(t) \/ DropClose(t)
      PROVE Capacity'
  <2>1. Counted' = Counted
    BY <1>3, <1>b DEF QueueEmpty, CheckCapacity, AtCapacity, WaitEmpty, ConnectFails,
                      Validate, InspectReleased, PutFull, Connect, RetireClose, DropClose,
                      DiscardClose, Counted
  <2>2. UNCHANGED <<idle, created, closed, closer>>
    BY <1>3 DEF QueueEmpty, CheckCapacity, AtCapacity, WaitEmpty, ConnectFails,
                Validate, InspectReleased, PutFull, Connect, RetireClose, DropClose,
                DiscardClose
  <2>3. QED
    BY <2>1, <2>2
<1>4. ASSUME NEW t \in Threads, Retire(t) \/ Drop(t)
      PROVE Capacity'
  <2>1. Cardinality(Counted') = Cardinality(Counted) - 1
    <3>1. t \in Counted /\ t \notin Counted' /\ \A u \in Threads \ {t} : u \in Counted' <=> u \in Counted
      BY <1>4, <1>b DEF Retire, Drop, DiscardCount, Counted
    <3>2. QED
      BY <3>1, <1>a, OneThreadMoves
  <2>2. created' = Decremented /\ UNCHANGED <<idle, closed, closer>>
    BY <1>4 DEF Retire, Drop, DiscardCount
  <2>3. Cardinality(Counted') \in Nat
    BY <1>a
  <2>4. QED
    BY <2>1, <2>2, <2>3, <1>a, <1>b DEF Decremented
<1>5. ASSUME NEW t \in Threads, CountCreated(t)
      PROVE Capacity'
  <2>1. Cardinality(Counted') = Cardinality(Counted) + 1
    <3>1. t \notin Counted /\ t \in Counted' /\ \A u \in Threads \ {t} : u \in Counted' <=> u \in Counted
      BY <1>5, <1>b DEF CountCreated, Counted
    <3>2. QED
      BY <3>1, <1>a, OneThreadMoves
  <2>2. created' = created + 1 /\ UNCHANGED <<idle, closed, closer>>
    BY <1>5 DEF CountCreated
  <2>3. QED
    BY <2>1, <2>2, <1>a, <1>b
<1>6. ASSUME NEW t \in Threads, PutIdle(t)
      PROVE Capacity'
  <2>1. conn[t] \notin idle /\ idle' = idle \cup {conn[t]} /\ Cardinality(idle) < MaxConn
    BY <1>6 DEF PutIdle, Ownership, Exclusive
  <2>2. Cardinality(idle') = Cardinality(idle) + 1
    BY <2>1, FS_AddElement
  <2>3. Cardinality(Counted') = Cardinality(Counted) - 1
    <3>1. t \in Counted /\ t \notin Counted' /\ \A u \in Threads \ {t} : u \in Counted' <=> u \in Counted
      BY <1>6, <1>b DEF PutIdle, Counted
    <3>2. QED
      BY <3>1, <1>a, OneThreadMoves
  <2>4. UNCHANGED <<created, closed, closer>>
    BY <1>6 DEF PutIdle
  <2>5. QED
    BY <2>1, <2>2, <2>3, <2>4, <1>a
<1>7. CASE CloseStep
  <2>1. CASE CloseIdle
    <3>1. PICK c \in idle : idle' = idle \ {c}
      BY <2>1 DEF CloseIdle
    <3>2. Cardinality(idle') = Cardinality(idle) - 1
      BY <3>1, FS_RemoveElement
    <3>3. QED
      BY <2>1, <3>2 DEF CloseIdle
  <2>2. CASE CloseFlag \/ CloseDrained \/ CloseReset
    BY <2>2 DEF CloseFlag, CloseDrained, CloseReset
  <2>3. QED
    BY <1>7, <2>1, <2>2 DEF CloseStep
<1>8. ASSUME NEW c \in Conns, Break(c)
      PROVE Capacity'
  BY <1>8 DEF Break, Counted
<1>9. CASE UNCHANGED vars
  BY <1>9 DEF vars, Counted
<1>10. QED
  BY <1>1, <1>2, <1>3, <1>4, <1>5, <1>6, <1>7, <1>8, <1>9 DEF Next, AcquireStep, ReleaseStep

LEMMA CapacityAlways == Spec => []Capacity
BY PoolTypes, OwnedAlways, CapacityInit, CapacityStep, PTL DEF Spec

\* Until the shutdown, _created equals the connections in the queue and in hand.
THEOREM CounterExact == Spec => []CountedExactly
<1>1. Capacity => CountedExactly
  BY DEF Capacity
<1>2. QED
  BY CapacityAlways, <1>1, PTL

----------------------------------------------------------------------------
(* The cap                                                                 *)

\* Threads with a connection, or that may still open one because they have found
\* the queue empty.
Claimants == {t \in Threads : conn[t] # NoConn \/ pc[t] \in {"check", "open"}}

\* A claim is made only with the queue empty, so that every connection there is
\* then, is another thread's.
Claims == closer = "running" => Cardinality(idle) + Cardinality(Claimants) <= MostConns

LEMMA MostConnsType == MostConns \in Nat /\ Cardinality(Threads) <= MostConns
BY PoolAssumption, FS_CardinalityType DEF MostConns

LEMMA ClaimsInit == Init => Claims
<1> SUFFICES ASSUME Init PROVE Claims
  OBVIOUS
<1>1. PICK S \in SUBSET Conns : Cardinality(S) <= MinConn /\ idle = S
  BY DEF Init
<1>2. Cardinality(S) \in Nat
  BY PoolAssumption, FS_Subset, FS_CardinalityType
<1>3. Claimants = {} /\ Cardinality({}) = 0
  BY FS_EmptySet DEF Init, Claimants
<1>4. MinConn <= MostConns /\ MostConns \in Nat
  BY PoolAssumption, FS_CardinalityType DEF MostConns
<1>5. QED
  BY <1>1, <1>2, <1>3, <1>4, PoolAssumption DEF Claims

LEMMA ClaimsStep ==
    TypeOK /\ Ownership /\ Claims /\ [Next]_vars => Claims'
<1> SUFFICES ASSUME TypeOK, Ownership, Claims, [Next]_vars PROVE Claims'
  OBVIOUS
<1> USE FiniteSubsets, MostConnsType
<1> MostConns' = MostConns
  BY DEF MostConns
<1>a. Claimants \in SUBSET Threads /\ Claimants' \in SUBSET Threads
  BY DEF Claimants
<1>b. /\ pc \in [Threads -> Step] /\ HandsMatch
      /\ conn \in [Threads -> Conns \cup {NoConn}]
  BY DEF TypeOK, Ownership
<1>c. /\ Cardinality(Claimants) \in Nat /\ Cardinality(Claimants') \in Nat
      /\ Cardinality(Claimants') <= Cardinality(Threads)
  BY <1>a
<1>1. ASSUME NEW t \in Threads,
             \/ Acquire(t) \/ AcquireClosed(t) \/ Release(t) \/ Deadline(t)
             \/ CheckCapacity(t) \/ Connect(t) \/ ConnectFails(t) \/ CountCreated(t)
             \/ AtCapacity(t) \/ WaitEmpty(t) \/ Validate(t) \/ InspectReleased(t)
             \/ PutFull(t) \/ Retire(t) \/ Drop(t) \/ RetireClose(t) \/ DropClose(t)
      PROVE Claims'
  <2>1. Claimants' \subseteq Claimants /\ UNCHANGED <<idle, closer>>
    <3>1. CASE \/ Acquire(t) \/ AcquireClosed(t) \/ Release(t) \/ Deadline(t)
               \/ CheckCapacity(t) \/ Connect(t) \/ ConnectFails(t)
      BY <3>1, <1>b DEF Acquire, AcquireClosed, Release, Deadline, CheckCapacity,
           Connect, ConnectFails, Claimants, vars
    <3>2. CASE \/ CountCreated(t) \/ AtCapacity(t) \/ WaitEmpty(t) \/ Validate(t)
               \/ InspectReleased(t) \/ PutFull(t)
      BY <3>2, <1>b DEF CountCreated, AtCapacity, WaitEmpty, Validate,
           InspectReleased, PutFull, Claimants
    <3>3. CASE Retire(t) \/ Drop(t) \/ RetireClose(t) \/ DropClose(t)
      BY <3>3, <1>b DEF Retire, Drop, RetireClose, DropClose, DiscardCount,
           DiscardClose, Claimants
    <3>4. QED
      BY <1>1, <3>1, <3>2, <3>3
  <2>2. Cardinality(Claimants') <= Cardinality(Claimants)
    BY <2>1, <1>a, FS_Subset
  <2>3. QED
    BY <2>1, <2>2, <1>c DEF Claims
<1>2. ASSUME NEW t \in Threads, GetIdle(t) \/ WaitTake(t)
      PROVE Claims'
  <2>1. PICK c \in idle :
            idle' = idle \ {c} /\ conn' = [conn EXCEPT ![t] = c]
    BY <1>2 DEF GetIdle, WaitTake, TakeIdle
  <2>2. Cardinality(idle') = Cardinality(idle) - 1 /\ UNCHANGED closer
    BY <1>2, <2>1, FS_RemoveElement DEF GetIdle, WaitTake, TakeIdle
  <2>3. Cardinality(Claimants') <= Cardinality(Claimants) + 1
    <3>1. \A u \in Threads \ {t} : u \in Claimants' <=> u \in Claimants
      BY <1>2, <1>b DEF GetIdle, WaitTake, TakeIdle, Claimants
    <3>2. QED
      BY <3>1, <1>a, <1>c, OneThreadMoves
  <2>4. QED
    BY <2>2, <2>3, <1>c DEF Claims
<1>3. ASSUME NEW t \in Threads, QueueEmpty(t)
      PROVE Claims'
  <2>1. Cardinality(idle') = 0
    BY <1>3, FS_EmptySet DEF QueueEmpty
  <2>2. QED
    BY <2>1, <1>c DEF Claims
<1>4. ASSUME NEW t \in Threads, PutIdle(t)
      PROVE Claims'
  <2>1. conn[t] \notin idle /\ idle' = idle \cup {conn[t]} /\ UNCHANGED closer
    BY <1>4 DEF PutIdle, Ownership, Exclusive
  <2>2. Cardinality(idle') = Cardinality(idle) + 1
    BY <2>1, FS_AddElement
  <2>3. Cardinality(Claimants') = Cardinality(Claimants) - 1
    <3>1. /\ t \in Claimants /\ t \notin Claimants'
          /\ \A u \in Threads \ {t} : u \in Claimants' <=> u \in Claimants
      BY <1>4, <1>b, PoolAssumption DEF PutIdle, Claimants, HandsMatch
    <3>2. QED
      BY <3>1, <1>a, OneThreadMoves
  <2>4. QED
    BY <2>1, <2>2, <2>3, <1>c DEF Claims
<1>5. CASE CloseStep
  <2>1. closer' # "running"
    BY <1>5 DEF CloseStep, CloseFlag, CloseIdle, CloseDrained, CloseReset
  <2>2. QED
    BY <2>1 DEF Claims
<1>6. ASSUME NEW c \in Conns, Break(c)
      PROVE Claims'
  BY <1>6 DEF Break, Claims, Claimants
<1>7. CASE UNCHANGED vars
  BY <1>7 DEF vars, Claims, Claimants
<1>8. QED
  BY <1>1, <1>2, <1>3, <1>4, <1>5, <1>6, <1>7 DEF Next, AcquireStep, ReleaseStep

\* The cap can be passed, but there is never more than one connection for each
\* thread, in _created and in connections open at once.
THEOREM OvershootBounded == Spec => []BoundedOvershoot
<1>1. Spec => [](TypeOK /\ Ownership /\ Capacity /\ Claims)
  BY PoolTypes, OwnedAlways, CapacityAlways, ClaimsInit, ClaimsStep, PTL DEF Spec
<1>2. TypeOK /\ Ownership /\ Capacity /\ Claims => BoundedOvershoot
  <2> SUFFICES ASSUME TypeOK, Ownership, Capacity, Claims, closer = "running"
               PROVE  /\ created <= MostConns
                      /\ Cardinality(idle) + Cardinality(Holders) <= MostConns
    BY DEF BoundedOvershoot
  <2>1. /\ Claimants \in SUBSET Threads /\ Counted \in SUBSET Threads
        /\ Holders \in SUBSET Claimants /\ Counted \in SUBSET Claimants
    BY DEF Claimants, Counted, Holders, Ownership, HandsMatch
  <2>2. /\ Cardinality(Holders) <= Cardinality(Claimants)
        /\ Cardinality(Counted) <= Cardinality(Claimants)
    BY <2>1, FiniteSubsets, FS_Subset
  <2>3. /\ Cardinality(Holders) \in Nat /\ Cardinality(Claimants) \in Nat
        /\ Cardinality(Counted) \in Nat /\ Cardinality(idle) \in Nat
    BY <2>1, FiniteSubsets DEF Holders
  <2>4. Cardinality(idle) + Cardinality(Claimants) <= MostConns
    BY DEF Claims
  <2>5. created = Cardinality(idle) + Cardinality(Counted)
    BY DEF Capacity, CountedExactly
  <2>6. QED
    BY <2>2, <2>3, <2>4, <2>5, MostConnsType
<1>3. QED
  BY <1>1, <1>2, PTL

\* With no call in progress the counter is right and within the cap.
THEOREM QuietWithinCap == Spec => []CapWhenQuiet
<1>1. TypeOK /\ Ownership /\ Capacity => CapWhenQuiet
  <2> SUFFICES ASSUME TypeOK, Ownership, Capacity, closer = "running",
                      \A t \in Threads : pc[t] = "out"
               PROVE  /\ created = Cardinality({c \in Conns : status[c] # "closed"})
                      /\ created <= MaxConn
    BY DEF CapWhenQuiet
  <2>1. Counted = {} /\ Cardinality(Counted) = 0
    BY FS_EmptySet DEF Counted
  <2>2. \A t \in Threads : conn[t] = NoConn
    BY DEF Ownership, HandsMatch
  <2>3. {c \in Conns : status[c] # "closed"} = idle
    BY <2>2, PoolAssumption DEF Ownership, NoneLost, TypeOK
  <2>4. created = Cardinality(idle)
    BY <2>1, FiniteSubsets DEF Capacity, CountedExactly
  <2>5. QED
    BY <2>3, <2>4 DEF Capacity
<1>2. QED
  BY <1>1, PoolTypes, OwnedAlways, CapacityAlways, PTL

=============================================================================
