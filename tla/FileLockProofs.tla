--------------------------- MODULE FileLockProofs ---------------------------
(***************************************************************************)
(* Theorems about FileLock for every set of processes and every number of  *)
(* crashes and of retrains that outlive stale_after_s.                     *)
(***************************************************************************)
EXTENDS FileLock, FiniteSetTheorems, TLAPS

USE DEF Move

Quiet(p) == FindExisting(p) \/ FindStale(p) \/ FindBusy(p) \/ SecondCreateFails(p)

\* The steps of LockNext, with those that leave the file alone taken together.
LEMMA LockCases ==
    ASSUME LockNext
    PROVE  \/ \E p \in Procs : FirstCreate(p) \/ SecondCreate(p)
           \/ \E p \in Procs : Quiet(p)
           \/ \E p \in Procs : Unlink(p)
           \/ \E p \in Procs : Release(p)
           \/ \E p \in Procs : Crash(p)
           \/ GoStale
BY DEF LockNext, AcquireStep, Quiet

----------------------------------------------------------------------------
(* Types                                                                   *)

LEMMA LockTypesInit == LockInit => LockTypeOK
BY LockAssumption DEF LockInit, LockTypeOK, Place

LEMMA LockTypesStep == LockTypeOK /\ [LockNext]_lockVars => LockTypeOK'
<1> SUFFICES ASSUME LockTypeOK, [LockNext]_lockVars PROVE LockTypeOK'
  OBVIOUS
<1> USE DEF LockTypeOK, Place
<1>1. ASSUME NEW p \in Procs, FirstCreate(p) \/ SecondCreate(p) PROVE LockTypeOK'
  <2>1. [by |-> p, stale |-> FALSE] \in [by : Procs, stale : BOOLEAN]
    OBVIOUS
  <2>2. QED
    BY <1>1, <2>1 DEF FirstCreate, SecondCreate, Create
<1>2. ASSUME NEW p \in Procs, Quiet(p) PROVE LockTypeOK'
  BY <1>2 DEF Quiet, FindExisting, FindStale, FindBusy, SecondCreateFails
<1>3. ASSUME NEW p \in Procs, Unlink(p) PROVE LockTypeOK'
  BY <1>3 DEF Unlink
<1>4. ASSUME NEW p \in Procs, Release(p) PROVE LockTypeOK'
  BY <1>4 DEF Release
<1>5. ASSUME NEW p \in Procs, Crash(p) PROVE LockTypeOK'
  BY <1>5, LockAssumption DEF Crash
<1>6. CASE GoStale
  <2>1. file' \in [by : Procs, stale : BOOLEAN]
    BY <1>6 DEF GoStale
  <2>2. longRuns' \in 0 .. MaxLongRuns
    BY <1>6, LockAssumption DEF GoStale
  <2>3. QED
    BY <1>6, <2>1, <2>2 DEF GoStale
<1>7. CASE UNCHANGED lockVars
  BY <1>7 DEF lockVars
<1>8. QED
  BY <1>1, <1>2, <1>3, <1>4, <1>5, <1>6, <1>7, LockCases

\* Every variable of the lock keeps to its type.
THEOREM LockTypes == LockSpec => []LockTypeOK
BY LockTypesInit, LockTypesStep, PTL DEF LockSpec

----------------------------------------------------------------------------
(* Ownership                                                               *)

LEMMA OwnsInit == LockInit => HolderOwnsFile
BY DEF LockInit, HolderOwnsFile, Holders

LEMMA OwnsStep ==
    LockTypeOK /\ HolderOwnsFile /\ [LockNext]_lockVars => HolderOwnsFile'
<1> SUFFICES ASSUME LockTypeOK, HolderOwnsFile, [LockNext]_lockVars
             PROVE  HolderOwnsFile'
  OBVIOUS
<1> USE LockAssumption DEF LockTypeOK, Place, HolderOwnsFile, Holders
<1>1. ASSUME NEW p \in Procs, FirstCreate(p) \/ SecondCreate(p) PROVE HolderOwnsFile'
  BY <1>1 DEF FirstCreate, SecondCreate, Create
<1>2. ASSUME NEW p \in Procs, Quiet(p) PROVE HolderOwnsFile'
  BY <1>2 DEF Quiet, FindExisting, FindStale, FindBusy, SecondCreateFails
<1>3. ASSUME NEW p \in Procs, Unlink(p) PROVE HolderOwnsFile'
  BY <1>3 DEF Unlink
<1>4. ASSUME NEW p \in Procs, Release(p) PROVE HolderOwnsFile'
  BY <1>4 DEF Release
<1>5. ASSUME NEW p \in Procs, Crash(p) PROVE HolderOwnsFile'
  BY <1>5 DEF Crash
<1>6. CASE GoStale
  BY <1>6 DEF GoStale
<1>7. CASE UNCHANGED lockVars
  BY <1>7 DEF lockVars
<1>8. QED
  BY <1>1, <1>2, <1>3, <1>4, <1>5, <1>6, <1>7, LockCases

\* Until a reclaim, the lock file is there and is its holder's: filelock.py's
\* O_CREAT | O_EXCL alone, without the reclaim, is a lock.
THEOREM HolderOwnsItsFile == LockSpec => []HolderOwnsFile
<1>1. LockInit => LockTypeOK /\ HolderOwnsFile
  BY LockTypesInit, OwnsInit
<1>2. LockTypeOK /\ HolderOwnsFile /\ [LockNext]_lockVars => (LockTypeOK /\ HolderOwnsFile)'
  BY LockTypesStep, OwnsStep
<1>3. QED
  BY <1>1, <1>2, PTL DEF LockSpec

----------------------------------------------------------------------------
(* Overlap                                                                 *)

Existing == IF file = NoFile THEN 0 ELSE 1

\* Every holder but one is the price of a reclaim, and that one has a file.
PaidFor == Cardinality(Holders) <= reclaims + Existing

LEMMA HoldersFinite ==
    IsFiniteSet(Holders) /\ Cardinality(Holders) \in Nat
BY LockAssumption, FS_Subset, FS_CardinalityType DEF Holders

LEMMA PaidForInit == LockInit => PaidFor
<1> SUFFICES ASSUME LockInit PROVE PaidFor
  OBVIOUS
<1>1. Holders = {}
  BY DEF LockInit, Holders
<1>2. QED
  BY <1>1, FS_EmptySet DEF PaidFor, LockInit, Existing

LEMMA PaidForStep == LockTypeOK /\ PaidFor /\ [LockNext]_lockVars => PaidFor'
<1> SUFFICES ASSUME LockTypeOK, PaidFor, [LockNext]_lockVars PROVE PaidFor'
  OBVIOUS
<1> USE HoldersFinite DEF LockTypeOK, Place, PaidFor, Existing
<1>1. ASSUME NEW p \in Procs, FirstCreate(p) \/ SecondCreate(p) PROVE PaidFor'
  <2>1. p \notin Holders /\ Holders' = Holders \cup {p}
    BY <1>1 DEF FirstCreate, SecondCreate, Create, Holders
  <2>2. Cardinality(Holders') = Cardinality(Holders) + 1
    BY <2>1, FS_AddElement
  <2>3. file = NoFile /\ file' # NoFile /\ reclaims' = reclaims
    BY <1>1, LockAssumption DEF FirstCreate, SecondCreate, Create
  <2>4. QED
    BY <2>2, <2>3
<1>2. ASSUME NEW p \in Procs, Quiet(p) PROVE PaidFor'
  <2>1. Holders' = Holders
    BY <1>2 DEF Quiet, FindExisting, FindStale, FindBusy, SecondCreateFails, Holders
  <2>2. QED
    BY <1>2, <2>1 DEF Quiet, FindExisting, FindStale, FindBusy, SecondCreateFails
<1>3. ASSUME NEW p \in Procs, Unlink(p) PROVE PaidFor'
  <2>1. Holders' = Holders
    BY <1>3 DEF Unlink, Holders
  <2>2. file' = NoFile /\ reclaims' = reclaims + Existing
    BY <1>3 DEF Unlink
  <2>3. QED
    BY <2>1, <2>2
<1>4. ASSUME NEW p \in Procs, Release(p) PROVE PaidFor'
  <2>1. p \in Holders /\ Holders' = Holders \ {p}
    BY <1>4 DEF Release, Holders
  <2>2. Cardinality(Holders') = Cardinality(Holders) - 1
    BY <2>1, FS_RemoveElement
  <2>3. file' = NoFile /\ reclaims' = reclaims
    BY <1>4 DEF Release
  <2>4. QED
    BY <2>2, <2>3
<1>5. ASSUME NEW p \in Procs, Crash(p) PROVE PaidFor'
  <2>1. Holders' \subseteq Holders
    BY <1>5 DEF Crash, Holders
  <2>2. Cardinality(Holders') \in Nat /\ Cardinality(Holders') <= Cardinality(Holders)
    BY <2>1, FS_Subset, FS_CardinalityType
  <2>3. QED
    BY <1>5, <2>2 DEF Crash
<1>6. CASE GoStale
  <2>1. Holders' = Holders
    BY <1>6 DEF GoStale, Holders
  <2>2. file # NoFile /\ file' # NoFile /\ reclaims' = reclaims
    BY <1>6, LockAssumption DEF GoStale
  <2>3. QED
    BY <2>1, <2>2
<1>7. CASE UNCHANGED lockVars
  BY <1>7 DEF lockVars, Holders
<1>8. QED
  BY <1>1, <1>2, <1>3, <1>4, <1>5, <1>6, <1>7, LockCases

\* However many processes retrain and crash, each reclaim of a stale lock lets at
\* most one of them in beside the others, and without a reclaim there is no overlap.
THEOREM OverlapIsPaidFor == LockSpec => []OverlapNeedsReclaim
<1>1. LockInit => LockTypeOK /\ PaidFor
  BY LockTypesInit, PaidForInit
<1>2. LockTypeOK /\ PaidFor /\ [LockNext]_lockVars => (LockTypeOK /\ PaidFor)'
  BY LockTypesStep, PaidForStep
<1>3. LockTypeOK /\ PaidFor => OverlapNeedsReclaim
  BY HoldersFinite DEF LockTypeOK, PaidFor, Existing, OverlapNeedsReclaim
<1>4. QED
  BY <1>1, <1>2, <1>3, PTL DEF LockSpec

=============================================================================
