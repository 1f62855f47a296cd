------------------------ MODULE CircuitBreakerProofs ------------------------
(***************************************************************************)
(* Theorems about CircuitBreaker for every number of threads, threshold,   *)
(* window and reset timeout: its types, the order of its queue, when it    *)
(* lets calls through, and what its window counts.                         *)
(***************************************************************************)
EXTENDS CircuitBreaker, FiniteSetTheorems, SequenceTheorems, WellFoundedInduction, TLAPS

USE BreakerAssumption

----------------------------------------------------------------------------
(* _prune()                                                                *)

Ordered(s) == \A i, j \in DOMAIN s : i < j => s[i] >= s[j]

\* What _prune() leaves is a suffix of the queue, and all it takes is stale.
LEMMA PrunedSuffix ==
    ASSUME NEW s \in Seq(Ages)
    PROVE  \E k \in 1 .. Len(s) + 1 :
              /\ Pruned(s) = SubSeq(s, k, Len(s))
              /\ \A i \in 1 .. k - 1 : s[i] > Window
              /\ k <= Len(s) => s[k] <= Window
<1> DEFINE fresh == {k \in 1 .. Len(s) : s[k] <= Window}
<1>1. \A k \in 1 .. Len(s) : s[k] \in Int
  BY DEF Ages, Stale
<1>2. CASE fresh = {}
  <2>1. Pruned(s) = SubSeq(s, Len(s) + 1, Len(s))
    BY <1>2 DEF Pruned
  <2>2. QED
    BY <2>1, <1>2, <1>1
<1>3. CASE fresh # {}
  <2> DEFINE first == CHOOSE i \in fresh : \A j \in fresh : i <= j
  <2>1. \E i \in fresh : \A j \in fresh : i <= j
    <3> DEFINE less == OpToRel(<, Nat)
    <3>1. fresh \subseteq Nat
      OBVIOUS
    <3>2. \A i, j \in Nat : <<j, i>> \notin less => i <= j
      BY DEF OpToRel
    <3>3. \E i \in fresh : \A j \in fresh : <<j, i>> \notin less
      <4> HIDE DEF fresh, less
      <4>1. IsWellFoundedOn(less, Nat)
        BY NatLessThanWellFounded DEF less
      <4>2. QED
        BY <1>3, <3>1, <4>1, WFMin
    <3>4. QED
      BY <3>1, <3>2, <3>3
  <2>2. first \in fresh /\ \A j \in fresh : first <= j
    BY <2>1
  <2>3. Pruned(s) = SubSeq(s, first, Len(s))
    BY <1>3 DEF Pruned
  <2> HIDE DEF first
  <2>4. first \in 1 .. Len(s) /\ s[first] <= Window
    BY <2>2
  <2>5. ASSUME NEW i \in 1 .. first - 1
        PROVE s[i] > Window
    <3>1. i \in 1 .. Len(s) /\ i \notin fresh
      BY <2>2, <2>4
    <3>2. QED
      BY <3>1, <1>1
  <2>6. QED
    BY <2>3, <2>4, <2>5
<1>4. QED
  BY <1>2, <1>3

\* Popping only from the left is enough: of a queue in the order of age, _prune()
\* takes exactly what is out of the window and keeps the rest in order.
THEOREM PruneExact ==
    ASSUME NEW s \in Seq(Ages), Ordered(s)
    PROVE  /\ Pruned(s) \in Seq(Ages)
           /\ Ordered(Pruned(s))
           /\ \A i \in DOMAIN Pruned(s) : Pruned(s)[i] <= Window
           /\ \A i \in DOMAIN s : s[i] <= Window => \E j \in DOMAIN Pruned(s) : Pruned(s)[j] = s[i]
<1>1. PICK k \in 1 .. Len(s) + 1 :
              /\ Pruned(s) = SubSeq(s, k, Len(s))
              /\ \A i \in 1 .. k - 1 : s[i] > Window
              /\ k <= Len(s) => s[k] <= Window
  BY PrunedSuffix
<1>2. /\ Pruned(s) \in Seq(Ages)
      /\ DOMAIN Pruned(s) = 1 .. Len(s) - k + 1
      /\ \A i \in 1 .. Len(s) - k + 1 : Pruned(s)[i] = s[k + i - 1]
  <2>1. \A i \in k .. Len(s) : s[i] \in Ages
    OBVIOUS
  <2>2. QED
    BY <1>1, <2>1, SubSeqProperties
<1>3. \A i \in 1 .. Len(s) : s[i] \in Int
  BY DEF Ages, Stale
<1>4. Ordered(Pruned(s))
  BY <1>1, <1>2 DEF Ordered
<1>5. \A i \in DOMAIN Pruned(s) : Pruned(s)[i] <= Window
  <2> SUFFICES ASSUME NEW i \in 1 .. Len(s) - k + 1 PROVE s[k + i - 1] <= Window
    BY <1>2
  <2>1. s[k] <= Window /\ (i > 1 => s[k] >= s[k + i - 1])
    BY <1>1 DEF Ordered
  <2>2. QED
    BY <2>1, <1>3
<1>6. ASSUME NEW i \in DOMAIN s, s[i] <= Window
      PROVE  \E j \in DOMAIN Pruned(s) : Pruned(s)[j] = s[i]
  <2>1. i >= k
    BY <1>1, <1>3, <1>6
  <2>2. i - k + 1 \in DOMAIN Pruned(s) /\ Pruned(s)[i - k + 1] = s[i]
    BY <1>2, <2>1
  <2>3. QED
    BY <2>2
<1>7. QED
  BY <1>2, <1>4, <1>5, <1>6

\* Recording a failure keeps the order.
LEMMA RecordOrdered ==
    ASSUME NEW s \in Seq(Ages), Ordered(s)
    PROVE  Append(s, 0) \in Seq(Ages) /\ Ordered(Append(s, 0))
<1>1. \A i \in 1 .. Len(s) : s[i] \in Nat
  BY DEF Ages, Stale
<1>2. 0 \in Ages
  BY DEF Ages, Stale
<1>3. QED
  BY <1>1, <1>2 DEF Ordered

----------------------------------------------------------------------------
(* Types and the window                                                    *)

WindowInv == TypeOK /\ OldestFirst

LEMMA WindowInit == Init => WindowInv
<1> SUFFICES ASSUME Init PROVE WindowInv
  OBVIOUS
<1>1. failures \in Seq(Ages) /\ Len(failures) = 0
  BY DEF Init
<1>2. answered \in BOOLEAN
  BY DEF Init
<1>3. QED
  BY <1>1, <1>2 DEF Init, WindowInv, TypeOK, OldestFirst, State

LEMMA WindowStep == WindowInv /\ [Next]_vars => WindowInv'
<1> SUFFICES ASSUME WindowInv, [Next]_vars PROVE WindowInv'
  OBVIOUS
<1>0. answered' \in BOOLEAN
  BY Zenon DEF WindowInv, TypeOK, Next, Allow, AllowThrough, AllowTrial, ShortCircuit, Finish,
               RecordSuccess, RecordFailure, FailTrial, FailCounted, EndUnrecorded, Tick, vars
<1> USE DEF WindowInv, TypeOK, State
<1>1. ASSUME NEW t \in Threads, AllowThrough(t) \/ AllowTrial(t)
      PROVE WindowInv'
  <2>1. state' \in State
    BY <1>1 DEF AllowThrough, AllowTrial
  <2>2. call' = [call EXCEPT ![t] = state'] /\ callAge' = [callAge EXCEPT ![t] = 0]
    BY <1>1 DEF AllowThrough, AllowTrial, Admit
  <2>3. UNCHANGED <<failures, sinceOpened, seen>>
    BY <1>1 DEF AllowThrough, AllowTrial
  <2>4. QED
    BY <1>0, <2>1, <2>2, <2>3 DEF OldestFirst
<1>2. ASSUME NEW t \in Threads, Finish(t)
      PROVE WindowInv'
  <2>1. call' \in [Threads -> State \cup {"none"}] /\ callAge' \in [Threads -> 0 .. Reset]
    <3>1. End(t)
      BY <1>2 DEF Finish, RecordSuccess, RecordFailure, FailTrial, FailCounted, EndUnrecorded
    <3>2. QED
      BY <3>1 DEF End
  <2>2. CASE RecordSuccess(t)
    <3>1. failures' \in Seq(Ages) /\ Len(failures') = 0
      BY <2>2 DEF RecordSuccess
    <3>2. seen' \in [0 .. Window -> Nat]
      BY <2>2 DEF RecordSuccess
    <3>3. QED
      BY <1>0, <2>1, <2>2, <3>1, <3>2 DEF RecordSuccess, OldestFirst
  <2>3. CASE FailTrial(t)
    <3>1. seen' \in [0 .. Window -> Nat]
      BY <2>3 DEF FailTrial
    <3>2. QED
      BY <1>0, <2>1, <2>3, <3>1 DEF FailTrial, OldestFirst
  <2>4. CASE FailCounted(t)
    <3> DEFINE kept == Pruned(Append(failures, 0))
    <3>1. kept \in Seq(Ages) /\ Ordered(kept)
      <4>1. Ordered(failures)
        BY DEF Ordered, OldestFirst
      <4>2. QED
        BY <4>1, RecordOrdered, PruneExact
    <3>2. seen' \in [0 .. Window -> Nat]
      BY <2>4 DEF FailCounted
    <3>3. CASE /\ Len(kept) >= Threshold
               /\ state' = "open" /\ sinceOpened' = 0 /\ failures' = <<>>
      <4>1. failures' \in Seq(Ages) /\ Len(failures') = 0
        BY <3>3
      <4>2. QED
        BY <1>0, <2>1, <3>2, <3>3, <4>1 DEF OldestFirst
    <3>4. CASE /\ Len(kept) < Threshold
               /\ failures' = kept
               /\ UNCHANGED <<state, sinceOpened>>
      BY <1>0, <2>1, <3>1, <3>2, <3>4 DEF OldestFirst, Ordered
    <3>5. QED
      BY <2>4, <3>3, <3>4 DEF FailCounted
  <2>5. CASE EndUnrecorded(t)
    BY <1>0, <2>1, <2>5 DEF EndUnrecorded, OldestFirst
  <2>6. QED
    BY <1>2, <2>2, <2>3, <2>4, <2>5 DEF Finish, RecordFailure
<1>3. CASE Tick
  <2>1. failures' \in Seq(Ages) /\ Len(failures') = Len(failures)
    <3>1. \A k \in DOMAIN failures : Older(failures[k], Stale) \in Ages
      BY DEF Older, Ages, Stale
    <3>2. failures' = [k \in 1 .. Len(failures) |-> Older(failures[k], Stale)]
      BY <1>3 DEF Tick
    <3>3. QED
      BY <3>1, <3>2, IsASeq
  <2>2. OldestFirst'
    <3>1. \A k \in DOMAIN failures : failures[k] \in Nat
      BY DEF Ages, Stale
    <3>2. \A k \in DOMAIN failures' : k \in DOMAIN failures /\ failures'[k] = Older(failures[k], Stale)
      BY <1>3 DEF Tick
    <3>3. QED
      BY <3>1, <3>2 DEF OldestFirst, Older, Stale
  <2>3. sinceOpened' \in 0 .. Reset /\ callAge' \in [Threads -> 0 .. Reset]
    BY <1>3 DEF Tick, Older
  <2>4. seen' \in [0 .. Window -> Nat]
    BY <1>3 DEF Tick
  <2>5. QED
    BY <1>0, <1>3, <2>1, <2>2, <2>3, <2>4 DEF Tick
<1>4. CASE UNCHANGED vars
  BY <1>4 DEF vars, OldestFirst
<1>5. QED
  BY <1>1, <1>2, <1>3, <1>4 DEF Next, Allow, ShortCircuit

\* Every variable keeps its type, and the queue of failures never reaches the
\* threshold: late failures cannot pile up while the breaker is open.
THEOREM BreakerTypes == Spec => []TypeOK
<1>1. WindowInv => TypeOK
  BY DEF WindowInv
<1>2. QED
  BY WindowInit, WindowStep, <1>1, PTL DEF Spec

\* The queue of failures stays in the order of age, so that PruneExact applies to
\* every _prune() the breaker runs.
THEOREM WindowInOrder == Spec => []OldestFirst
<1>1. WindowInv => OldestFirst
  BY DEF WindowInv
<1>2. QED
  BY WindowInit, WindowStep, <1>1, PTL DEF Spec

----------------------------------------------------------------------------
(* What an open breaker admits                                             *)

LEMMA OpenStep == TypeOK /\ OpeningHolds /\ [Next]_vars => OpeningHolds'
<1> SUFFICES ASSUME TypeOK, OpeningHolds, [Next]_vars PROVE OpeningHolds'
  OBVIOUS
<1> USE DEF TypeOK, State, OpeningHolds
<1>1. ASSUME NEW t \in Threads, AllowThrough(t) \/ AllowTrial(t)
      PROVE OpeningHolds'
  BY <1>1 DEF AllowThrough, AllowTrial
<1>2. ASSUME NEW t \in Threads, Finish(t)
      PROVE OpeningHolds'
  <2>1. End(t)
    BY <1>2 DEF Finish, RecordSuccess, RecordFailure, FailTrial, FailCounted, EndUnrecorded
  <2>2. \A u \in Threads : call'[u] # "none" => call[u] # "none" /\ callAge'[u] = callAge[u]
    BY <2>1 DEF End
  <2>3. \/ answered'
        \/ state' = "open" /\ sinceOpened' = 0
        \/ UNCHANGED <<state, sinceOpened, answered>>
    BY <1>2 DEF Finish, RecordSuccess, RecordFailure, FailTrial, FailCounted, EndUnrecorded
  <2>4. callAge' \in [Threads -> 0 .. Reset]
    BY <2>1 DEF End
  <2>5. QED
    BY <2>2, <2>3, <2>4
<1>3. CASE Tick
  BY <1>3 DEF Tick, Older
<1>4. CASE UNCHANGED vars
  BY <1>4 DEF vars
<1>5. QED
  BY <1>1, <1>2, <1>3, <1>4 DEF Next, Allow, ShortCircuit

\* Between the moment the breaker opens and the end of the reset timeout it is left
\* only by the success of a call that was in progress at the opening, for any number
\* of threads; until then no call is let through.
THEOREM OpenShutsOut == Spec => []OpeningHolds
<1>1. Init => OpeningHolds
  BY DEF Init, OpeningHolds
<1>2. QED
  BY <1>1, BreakerTypes, OpenStep, PTL DEF Spec

----------------------------------------------------------------------------
(* Adding up counts                                                        *)

\* The recursion by which SumFunction adds up the values of c.
Sums(c, h) ==
    h = [s \in SUBSET DOMAIN c |->
            IF s = {} THEN 0 ELSE LET x == CHOOSE x \in s : TRUE IN c[x] + h[s \ {x}]]

\* It has one solution: two of them cannot differ at a smallest set.
LEMMA SumsUnique ==
    ASSUME NEW c, IsFiniteSet(DOMAIN c), NEW h, NEW i, Sums(c, h), Sums(c, i)
    PROVE  h = i
<1> DEFINE D == DOMAIN c
           bad == {s \in SUBSET D : h[s] # i[s]}
<1>1. /\ h = [s \in SUBSET D |-> h[s]]
      /\ i = [s \in SUBSET D |-> i[s]]
  BY DEF Sums
<1>2. CASE bad = {}
  BY <1>1, <1>2
<1>3. CASE bad # {}
  <2>1. bad \subseteq FiniteSubsetsOf(D)
    BY FS_Subset DEF FiniteSubsetsOf
  <2>2. PICK s \in bad : \A t \in bad : <<t, s>> \notin StrictSubsetOrdering(D)
    <3> HIDE DEF bad
    <3>1. QED
      BY <1>3, <2>1, FS_StrictSubsetOrderingWellFounded, WFMin
  <2> DEFINE x == CHOOSE x \in s : TRUE
  <2>3. s # {}
    BY DEF Sums
  <2>4. x \in s
    BY <2>3
  <2>5. h[s \ {x}] = i[s \ {x}]
    <3>1. <<s \ {x}, s>> \in StrictSubsetOrdering(D)
      BY <2>4 DEF StrictSubsetOrdering
    <3>2. QED
      BY <2>2, <3>1
  <2>6. h[s] = c[x] + h[s \ {x}] /\ i[s] = c[x] + i[s \ {x}]
    BY <2>3 DEF Sums
  <2>7. QED
    BY <2>2, <2>5, <2>6
<1>4. QED
  BY <1>2, <1>3

\* If c counts the members of K by their kind, its sum is the size of K: the sizes of
\* the parts of K solve the recursion.
LEMMA SumCounts ==
    ASSUME NEW K, IsFiniteSet(K), NEW c, IsFiniteSet(DOMAIN c),
           NEW kind \in [K -> DOMAIN c],
           \A a \in DOMAIN c : c[a] = Cardinality({k \in K : kind[k] = a})
    PROVE  SumFunction(c) = Cardinality(K)
<1> DEFINE D == DOMAIN c
           Part(s) == {k \in K : kind[k] \in s}
           h == [s \in SUBSET D |-> Cardinality(Part(s))]
<1>1. ASSUME NEW s \in SUBSET D
      PROVE  IsFiniteSet(Part(s)) /\ Cardinality(Part(s)) \in Nat
  BY FS_Subset, FS_CardinalityType
<1>2. ASSUME NEW s \in SUBSET D, s # {}
      PROVE  LET x == CHOOSE x \in s : TRUE IN h[s] = c[x] + h[s \ {x}]
  <2> DEFINE x == CHOOSE x \in s : TRUE
             one == {k \in K : kind[k] = x}
             rest == Part(s \ {x})
  <2>1. x \in s
    BY <1>2
  <2>2. c[x] = Cardinality(one)
    BY <2>1
  <2>3. IsFiniteSet(one)
    BY FS_Subset
  <2>4. IsFiniteSet(rest) /\ h[s \ {x}] = Cardinality(rest)
    BY <1>1
  <2>5. Part(s) = one \cup rest /\ one \cap rest = {}
    BY <2>1
  <2>6. Cardinality(one \cup rest) = Cardinality(one) + Cardinality(rest)
    <3>1. one \cap rest = {} /\ IsFiniteSet(one) /\ IsFiniteSet(rest)
      BY <2>3, <2>4, <2>5
    <3> HIDE DEF one, rest
    <3>2. /\ Cardinality(one \cup rest)
                = Cardinality(one) + Cardinality(rest) - Cardinality(one \cap rest)
          /\ Cardinality(one) \in Nat /\ Cardinality(rest) \in Nat
      BY <3>1, FS_Union, FS_CardinalityType
    <3>3. Cardinality(one \cap rest) = 0
      BY <3>1, FS_EmptySet
    <3>4. QED
      BY <3>2, <3>3
  <2>7. QED
    BY <2>2, <2>4, <2>5, <2>6
<1>3. Sums(c, h)
  <2>1. h[{}] = 0
    BY FS_EmptySet
  <2>2. \A s \in SUBSET D :
            h[s] = IF s = {} THEN 0 ELSE LET x == CHOOSE x \in s : TRUE IN c[x] + h[s \ {x}]
    BY <1>2, <2>1
  <2>3. h = [s \in SUBSET D |-> h[s]]
    OBVIOUS
  <2> HIDE DEF h
  <2>4. QED
    BY <2>2, <2>3 DEF Sums
<1>4. SumFunction(c) = (CHOOSE f : Sums(c, f))[D]
  BY DEF SumFunction, SumFunctionOnSet, FoldFunctionOnSet, MapThenFoldSet, Sums
<1>5. (CHOOSE f : Sums(c, f)) = h
  <2>1. Sums(c, CHOOSE f : Sums(c, f))
    BY <1>3
  <2>2. QED
    BY <1>3, <2>1, SumsUnique
<1>6. Part(D) = K
  OBVIOUS
<1>7. QED
  BY <1>4, <1>5, <1>6

----------------------------------------------------------------------------
(* A closed breaker counts its window                                      *)

LEMMA IntervalSize ==
    ASSUME NEW n \in Nat
    PROVE  IsFiniteSet(0 .. n) /\ IsFiniteSet(1 .. n) /\ Cardinality(1 .. n) = n
<1>1. IsFiniteSet(0 .. n)
  BY FS_Interval
<1>2. IsFiniteSet(1 .. n) /\ Cardinality(1 .. n) = IF 1 > n THEN 0 ELSE n - 1 + 1
  BY FS_Interval
<1>3. QED
  BY <1>1, <1>2

\* How many failures of that age a queue holds.
OfAge(s, a) == Cardinality({k \in DOMAIN s : s[k] = a})

LEMMA OfAgeFinite ==
    ASSUME NEW s \in Seq(Ages), NEW a
    PROVE  IsFiniteSet({k \in DOMAIN s : s[k] = a}) /\ OfAge(s, a) \in Nat
<1>1. IsFiniteSet(DOMAIN s)
  BY FS_Interval, LenProperties
<1>2. IsFiniteSet({k \in DOMAIN s : s[k] = a})
  BY <1>1, FS_Subset
<1>3. QED
  BY <1>2, FS_CardinalityType DEF OfAge

\* _prune() takes none of the failures within the window.
LEMMA PrunedOfAge ==
    ASSUME NEW s \in Seq(Ages), Ordered(s), NEW a \in 0 .. Window
    PROVE  OfAge(Pruned(s), a) = OfAge(s, a)
<1>1. PICK k \in 1 .. Len(s) + 1 :
              /\ Pruned(s) = SubSeq(s, k, Len(s))
              /\ \A i \in 1 .. k - 1 : s[i] > Window
              /\ k <= Len(s) => s[k] <= Window
  BY PrunedSuffix
<1>2. /\ DOMAIN Pruned(s) = 1 .. Len(s) - k + 1
      /\ \A i \in 1 .. Len(s) - k + 1 : Pruned(s)[i] = s[k + i - 1]
  <2>1. \A i \in k .. Len(s) : s[i] \in Ages
    OBVIOUS
  <2>2. QED
    BY <1>1, <2>1, SubSeqProperties
<1> DEFINE kept == {i \in DOMAIN Pruned(s) : Pruned(s)[i] = a}
           all  == {i \in DOMAIN s : s[i] = a}
           move == [i \in kept |-> k + i - 1]
<1>3. \A i \in all : i \in k .. Len(s)
  BY <1>1
<1>4. move \in Bijection(kept, all)
  <2>1. move \in [kept -> all]
    BY <1>2
  <2>2. \A i, j \in kept : move[i] = move[j] => i = j
    BY <1>2
  <2>3. \A i \in all : \E j \in kept : move[j] = i
    <3> SUFFICES ASSUME NEW i \in all PROVE \E j \in kept : move[j] = i
      OBVIOUS
    <3>1. i - k + 1 \in kept /\ move[i - k + 1] = i
      BY <1>2, <1>3
    <3>2. QED
      BY <3>1
  <2>4. QED
    BY <2>1, <2>2, <2>3 DEF Bijection, Injection, Surjection, IsInjective
<1>5. Pruned(s) \in Seq(Ages)
  BY PruneExact
<1>6. IsFiniteSet(kept)
  BY <1>5, OfAgeFinite
<1>7. Cardinality(all) = Cardinality(kept)
  <2> HIDE DEF kept, all, move
  <2>1. QED
    BY <1>4, <1>6, FS_Bijection DEF ExistsBijection
<1>8. QED
  BY <1>7 DEF OfAge

LEMMA AppendOfAge ==
    ASSUME NEW s \in Seq(Ages), NEW a \in 0 .. Window
    PROVE  OfAge(Append(s, 0), a) = IF a = 0 THEN OfAge(s, a) + 1 ELSE OfAge(s, a)
<1> DEFINE n == Len(s) + 1
           old == {k \in DOMAIN s : s[k] = a}
           new == {k \in DOMAIN Append(s, 0) : Append(s, 0)[k] = a}
<1>1. /\ DOMAIN Append(s, 0) = 1 .. n /\ DOMAIN s = 1 .. Len(s) /\ Len(s) \in Nat
      /\ \A k \in 1 .. Len(s) : Append(s, 0)[k] = s[k]
      /\ Append(s, 0)[n] = 0
  OBVIOUS
<1>2. n \notin old /\ new = IF a = 0 THEN old \cup {n} ELSE old
  BY <1>1
<1>3. IsFiniteSet(old)
  BY OfAgeFinite
<1>4. Cardinality(old \cup {n}) = Cardinality(old) + 1
  <2> HIDE DEF old, n
  <2>1. QED
    BY <1>2, <1>3, FS_AddElement
<1>5. QED
  BY <1>2, <1>4 DEF OfAge

\* While the breaker is closed, its queue holds for each age within the window as many
\* failures as there were since the last success.
WindowCounted ==
    state = "closed" => \A a \in 0 .. Window : seen[a] = OfAge(failures, a)

\* What record_failure() keeps counts the failure that has just come, too.
LEMMA KeptCounted ==
    ASSUME WindowInv, WindowCounted, state = "closed", NEW t \in Threads, FailCounted(t)
    PROVE  LET kept == Pruned(Append(failures, 0))
           IN  /\ kept \in Seq(Ages)
               /\ \A i \in DOMAIN kept : kept[i] <= Window
               /\ seen' \in [0 .. Window -> Nat]
               /\ \A a \in 0 .. Window : seen'[a] = OfAge(kept, a)
<1> DEFINE added == Append(failures, 0)
           kept  == Pruned(added)
<1>1. failures \in Seq(Ages) /\ Ordered(failures) /\ seen \in [0 .. Window -> Nat]
  BY DEF WindowInv, TypeOK, OldestFirst, Ordered
<1>2. added \in Seq(Ages) /\ Ordered(added)
  BY <1>1, RecordOrdered
<1> HIDE DEF added
<1>3. kept \in Seq(Ages) /\ \A i \in DOMAIN kept : kept[i] <= Window
  BY <1>2, PruneExact
<1>4. seen' = [seen EXCEPT ![0] = @ + 1]
  BY DEF FailCounted
<1>5. ASSUME NEW a \in 0 .. Window PROVE seen'[a] = OfAge(kept, a)
  <2>1. OfAge(kept, a) = OfAge(added, a)
    BY <1>2, PrunedOfAge
  <2>2. OfAge(added, a) = IF a = 0 THEN OfAge(failures, a) + 1 ELSE OfAge(failures, a)
    BY <1>1, AppendOfAge DEF added
  <2>3. seen[a] = OfAge(failures, a)
    BY DEF WindowCounted
  <2>4. QED
    BY <1>1, <1>4, <2>1, <2>2, <2>3
<1>6. seen' \in [0 .. Window -> Nat]
  BY <1>1, <1>4
<1>7. QED
  BY <1>3, <1>5, <1>6 DEF added

LEMMA CountedStep == WindowInv /\ WindowCounted /\ [Next]_vars => WindowCounted'
<1> SUFFICES ASSUME WindowInv, WindowCounted, [Next]_vars, state' = "closed", NEW a \in 0 .. Window
             PROVE  seen'[a] = OfAge(failures', a)
  BY DEF WindowCounted
<1>1. CASE UNCHANGED <<state, failures, seen>>
  BY <1>1 DEF WindowCounted
<1>2. ASSUME NEW t \in Threads, RecordSuccess(t) PROVE seen'[a] = OfAge(failures', a)
  <2>1. failures' = <<>> /\ seen'[a] = 0
    BY <1>2 DEF RecordSuccess
  <2>2. {k \in DOMAIN failures' : failures'[k] = a} = {}
    BY <2>1
  <2>3. QED
    BY <2>1, <2>2, FS_EmptySet DEF OfAge
<1>3. ASSUME NEW t \in Threads, FailCounted(t) PROVE seen'[a] = OfAge(failures', a)
  <2>1. state = "closed" /\ failures' = Pruned(Append(failures, 0))
    BY <1>3 DEF FailCounted
  <2>2. QED
    BY <1>3, <2>1, KeptCounted
<1>4. CASE Tick
  <2>1. /\ failures \in Seq(Ages) /\ seen \in [0 .. Window -> Nat]
        /\ state = "closed" /\ failures' = [k \in DOMAIN failures |-> Older(failures[k], Stale)]
        /\ seen' = [b \in 0 .. Window |-> IF b = 0 THEN 0 ELSE seen[b - 1]]
    BY <1>4 DEF Tick, WindowInv, TypeOK
  <2>2. \A k \in DOMAIN failures : failures[k] \in 0 .. Window + 1
    BY <2>1 DEF Ages, Stale
  <2>3. CASE a = 0
    <3>1. {k \in DOMAIN failures' : failures'[k] = a} = {}
      BY <2>1, <2>2, <2>3 DEF Older, Stale
    <3>2. QED
      BY <2>1, <2>3, <3>1, FS_EmptySet DEF OfAge
  <2>4. CASE a # 0
    <3>1. a - 1 \in 0 .. Window /\ seen'[a] = seen[a - 1]
      BY <2>1, <2>4
    <3>2. {k \in DOMAIN failures' : failures'[k] = a} = {k \in DOMAIN failures : failures[k] = a - 1}
      BY <2>1, <2>2, <2>4 DEF Older, Stale
    <3>3. QED
      BY <2>1, <3>1, <3>2 DEF OfAge, WindowCounted
  <2>5. QED
    BY <2>3, <2>4
<1>5. ASSUME NEW t \in Threads, AllowThrough(t) \/ AllowTrial(t) \/ EndUnrecorded(t) \/ FailTrial(t)
      PROVE  seen'[a] = OfAge(failures', a)
  BY <1>1, <1>5 DEF AllowThrough, AllowTrial, EndUnrecorded, FailTrial
<1>6. QED
  BY <1>1, <1>2, <1>3, <1>4, <1>5
     DEF Next, Allow, ShortCircuit, Finish, RecordFailure, vars

LEMMA CountedInit == Init => WindowCounted
<1> SUFFICES ASSUME Init, NEW a \in 0 .. Window PROVE seen[a] = OfAge(failures, a)
  BY DEF WindowCounted
<1>1. failures = <<>> /\ seen[a] = 0
  BY DEF Init
<1>2. {k \in DOMAIN failures : failures[k] = a} = {}
  BY <1>1
<1>3. QED
  BY <1>1, <1>2, FS_EmptySet DEF OfAge

LEMMA CountedAlways == Spec => [](WindowInv /\ WindowCounted)
BY WindowInit, WindowStep, CountedInit, CountedStep, PTL DEF Spec

\* The queue of a closed breaker holds every failure within the window since the last
\* success, late ones included, and they are fewer than the threshold: for any number
\* of calls that fail at once.
THEOREM WindowComplete == Spec => []ClosedCountsWindow
<1>1. WindowInv /\ WindowCounted => ClosedCountsWindow
  <2> SUFFICES ASSUME WindowInv, WindowCounted, state = "closed"
               PROVE  LET recent == {k \in DOMAIN failures : failures[k] <= Window}
                      IN  SumFunction(seen) < Threshold /\ Cardinality(recent) = SumFunction(seen)
    BY DEF ClosedCountsWindow
  <2> DEFINE recent == {k \in DOMAIN failures : failures[k] <= Window}
             kind == [k \in recent |-> failures[k]]
  <2>1. /\ failures \in Seq(Ages) /\ Len(failures) \in Nat /\ Len(failures) < Threshold
        /\ DOMAIN failures = 1 .. Len(failures) /\ DOMAIN seen = 0 .. Window
    BY DEF WindowInv, TypeOK
  <2>2. \A k \in DOMAIN failures : failures[k] \in Nat
    BY <2>1 DEF Ages, Stale
  <2>3. /\ IsFiniteSet(DOMAIN seen) /\ IsFiniteSet(DOMAIN failures)
        /\ Cardinality(DOMAIN failures) = Len(failures)
    BY <2>1, IntervalSize
  <2>4. IsFiniteSet(recent) /\ Cardinality(recent) <= Len(failures) /\ Cardinality(recent) \in Nat
    BY <2>3, FS_Subset, FS_CardinalityType
  <2>5. kind \in [recent -> DOMAIN seen]
    BY <2>1, <2>2
  <2>6. \A a \in DOMAIN seen : seen[a] = Cardinality({k \in recent : kind[k] = a})
    <3> SUFFICES ASSUME NEW a \in DOMAIN seen PROVE seen[a] = Cardinality({k \in recent : kind[k] = a})
      OBVIOUS
    <3>1. {k \in recent : kind[k] = a} = {k \in DOMAIN failures : failures[k] = a}
      BY <2>1
    <3>2. QED
      BY <2>1, <3>1 DEF WindowCounted, OfAge
  <2>7. SumFunction(seen) = Cardinality(recent)
    <3> HIDE DEF recent, kind
    <3>1. QED
      BY <2>3, <2>4, <2>5, <2>6, SumCounts
  <2>8. QED
    BY <2>1, <2>4, <2>7
<1>2. QED
  BY CountedAlways, <1>1, PTL

\* A closed breaker opens on nothing less than a threshold of failures within the
\* window and no success since: no older failure is counted again.
THEOREM OpensOnlyOnEvidence == Spec => OpensOnEvidence
<1>1. WindowInv /\ WindowCounted /\ [Next]_vars
        => (state = "closed" /\ state' = "open" => SumFunction(seen') >= Threshold)
  <2> SUFFICES ASSUME WindowInv, WindowCounted, [Next]_vars, state = "closed", state' = "open"
               PROVE  SumFunction(seen') >= Threshold
    OBVIOUS
  <2>1. PICK t \in Threads : FailCounted(t)
    BY DEF Next, Allow, AllowThrough, AllowTrial, ShortCircuit, Finish, RecordSuccess,
           RecordFailure, FailTrial, EndUnrecorded, Tick, vars
  <2> DEFINE kept == Pruned(Append(failures, 0))
  <2>2. Len(kept) >= Threshold
    BY <2>1 DEF FailCounted
  <2>3. /\ kept \in Seq(Ages) /\ \A i \in DOMAIN kept : kept[i] <= Window
        /\ DOMAIN seen' = 0 .. Window
        /\ \A a \in 0 .. Window : seen'[a] = OfAge(kept, a)
    BY <2>1, KeptCounted
  <2> HIDE DEF kept
  <2>4. kept \in [DOMAIN kept -> DOMAIN seen'] /\ DOMAIN kept = 1 .. Len(kept) /\ Len(kept) \in Nat
    <3>1. DOMAIN kept = 1 .. Len(kept) /\ Len(kept) \in Nat /\ kept \in [DOMAIN kept -> Ages]
      BY <2>3
    <3>2. \A i \in DOMAIN kept : kept[i] \in 0 .. Window
      BY <2>3, <3>1 DEF Ages, Stale
    <3>3. QED
      BY <2>3, <3>1, <3>2
  <2>5. /\ IsFiniteSet(DOMAIN seen') /\ IsFiniteSet(DOMAIN kept)
        /\ Cardinality(DOMAIN kept) = Len(kept)
    BY <2>3, <2>4, IntervalSize
  <2>6. SumFunction(seen') = Cardinality(DOMAIN kept)
    <3>1. \A a \in DOMAIN seen' : seen'[a] = Cardinality({k \in DOMAIN kept : kept[k] = a})
      BY <2>3 DEF OfAge
    <3>2. QED
      BY <2>4, <2>5, <3>1, SumCounts
  <2>7. QED
    BY <2>2, <2>5, <2>6
<1>2. QED
  BY CountedAlways, <1>1, PTL DEF Spec, OpensOnEvidence
=============================================================================
