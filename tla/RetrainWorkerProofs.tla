------------------------ MODULE RetrainWorkerProofs ------------------------
(***************************************************************************)
(* Theorems about RetrainWorker for every set of workers and of versions,  *)
(* every number of replicas, and every cooldown and schedule.              *)
(***************************************************************************)
EXTENDS RetrainWorker, FileLockProofs

USE DEF Go, Move

\* The steps of a worker that leave the lock alone.
Working(w) == RetrainStep(w) \/ PromoteStep(w) \/ Save(w)

LEMMA NextCases ==
    ASSUME Next
    PROVE  \/ \E w \in Procs, fired \in BOOLEAN : Poll(w, fired)
           \/ \E w \in Procs : Locking(w)
           \/ \E w \in Procs : LockLost(w)
           \/ \E w \in Procs : LockTaken(w)
           \/ \E w \in Procs : Working(w)
           \/ \E w \in Procs : Unlock(w)
           \/ \E w \in Procs : CrashWorker(w)
           \/ \E r \in 1 .. Replicas : RestartReplica(r)
           \/ LockAges
           \/ Tick
BY DEF Next, Cycle, Working

LEMMA WorkingCases ==
    ASSUME NEW w, Working(w)
    PROVE  \/ Train(w) \/ Fail(w) \/ HashArtifact(w) \/ RegisterLoad(w)
           \/ CopyArtifact(w) \/ RegisterSave(w)
           \/ ReadIncumbent(w) \/ Judge(w) \/ PromoteLoad(w) \/ Promote(w)
           \/ Reload(w) \/ ReloadFails(w) \/ Save(w)
BY DEF Working, RetrainStep, PromoteStep

\* The steps inside the critical section stay there and do not touch the lock.
LEMMA WorkingInside ==
    ASSUME NEW w, Working(w)
    PROVE  /\ UNCHANGED lockVars
           /\ pc[w] \in Inside
           /\ \E to \in Inside : pc' = [pc EXCEPT ![w] = to]
<1> USE WorkingCases DEF Inside, LoopStep, lockVars
<1>1. CASE Train(w) \/ Fail(w) \/ HashArtifact(w) \/ RegisterLoad(w)
  BY <1>1 DEF Train, Fail, CanFail, HashArtifact, RegisterLoad, LoadIndex
<1>2. CASE CopyArtifact(w) \/ RegisterSave(w) \/ ReadIncumbent(w) \/ Judge(w)
  BY <1>2 DEF CopyArtifact, RegisterSave, ReadIncumbent, Judge
<1>3. CASE PromoteLoad(w) \/ Promote(w)
  BY <1>3 DEF PromoteLoad, Promote, LoadIndex
<1>4. CASE Reload(w) \/ ReloadFails(w) \/ Save(w)
  BY <1>4 DEF Reload, ReloadFails, Save
<1>5. QED
  BY <1>1, <1>2, <1>3, <1>4

\* No step of the critical section is the beginning of a retrain.
LEMMA WorkingHistory ==
    ASSUME NEW w, Working(w)
    PROVE  UNCHANGED <<started, overlapped>>
BY WorkingCases
   DEF Train, Fail, CanFail, HashArtifact, RegisterLoad, CopyArtifact, RegisterSave,
       ReadIncumbent, Judge, PromoteLoad, Promote, Reload, ReloadFails, Save,
       LoadIndex, history

----------------------------------------------------------------------------
(* The loop uses the lock as FileLock says                                 *)

LEMMA StepRefinesLock == [Next]_vars => [LockNext]_lockVars
<1> SUFFICES ASSUME [Next]_vars PROVE [LockNext]_lockVars
  OBVIOUS
<1> USE DEF LockNext, AcquireStep, lockVars
<1>1. ASSUME NEW w \in Procs, NEW fired \in BOOLEAN, Poll(w, fired)
      PROVE [LockNext]_lockVars
  BY <1>1 DEF Poll
<1>2. ASSUME NEW w \in Procs, Locking(w) PROVE [LockNext]_lockVars
  BY <1>2 DEF Locking
<1>3. ASSUME NEW w \in Procs, LockLost(w) PROVE [LockNext]_lockVars
  BY <1>3 DEF LockLost
<1>4. ASSUME NEW w \in Procs, LockTaken(w) PROVE [LockNext]_lockVars
  BY <1>4 DEF LockTaken
<1>5. ASSUME NEW w \in Procs, Working(w) PROVE [LockNext]_lockVars
  BY <1>5, WorkingInside
<1>6. ASSUME NEW w \in Procs, Unlock(w) PROVE [LockNext]_lockVars
  BY <1>6 DEF Unlock
<1>7. ASSUME NEW w \in Procs, CrashWorker(w) PROVE [LockNext]_lockVars
  BY <1>7 DEF CrashWorker
<1>8. ASSUME NEW r \in 1 .. Replicas, RestartReplica(r) PROVE [LockNext]_lockVars
  BY <1>8 DEF RestartReplica
<1>9. CASE LockAges \/ Tick \/ UNCHANGED vars
  BY <1>9 DEF LockAges, Tick, vars
<1>10. QED
  BY <1>1, <1>2, <1>3, <1>4, <1>5, <1>6, <1>7, <1>8, <1>9, NextCases

\* The loop is put together from the actions of FileLock, so every property of the lock
\* alone is one of the whole loop.
LEMMA LoopImplementsLock == Spec => LockSpec
<1>1. Init => LockInit
  BY DEF Init
<1>2. QED
  BY <1>1, StepRefinesLock, PTL DEF Spec, LockSpec

COROLLARY LoopLockTypes == Spec => []LockTypeOK
BY LoopImplementsLock, LockTypes, PTL

----------------------------------------------------------------------------
(* Types                                                                   *)

HasCandidate == {"load", "copy", "register", "incumbent", "judge", "promoteLoad",
                 "promote"}

\* What the types of the index and of the replicas rest on: a worker that
\* registers or promotes has an artifact to register.
HasArtifact ==
    \A w \in Procs :
        /\ pc[w] = "hash" => artifact \in Versions
        /\ pc[w] \in HasCandidate => job[w].candidate \in Versions
        /\ pc[w] = "reload" => job[w].reload # 0

LEMMA NoJobType == NoJob \in Job
BY WorkerAssumption DEF NoJob, Job, Ages, Never, Artifacts, Index, EmptyIndex

LEMMA JobUpdate ==
    ASSUME NEW j \in Job
    PROVE  /\ \A a \in Ages : [j EXCEPT !.since = a] \in Job
           /\ \A v \in Artifacts : [j EXCEPT !.trained = v] \in Job
           /\ \A v \in Artifacts : [j EXCEPT !.candidate = v] \in Job
           /\ \A i \in Index : [j EXCEPT !.idx = i] \in Job
           /\ \A a \in Ages, v \in Artifacts :
                 [j EXCEPT !.since = a, !.incumbent = v] \in Job
           /\ \A n \in 0 .. Replicas : [j EXCEPT !.reload = n] \in Job
BY DEF Job

LEMMA OlderType == \A age \in Ages : Older(age) \in Ages
BY WorkerAssumption DEF Ages, Never, Older

LEMMA ResolvedType == TypeOK => Resolved \subseteq Artifacts
BY DEF TypeOK, Resolved, Artifacts, Index

LEMMA WorkerTypesInit == Init => TypeOK /\ HasArtifact
<1> SUFFICES ASSUME Init PROVE TypeOK /\ HasArtifact
  OBVIOUS
<1>1. Never \in Ages
  BY WorkerAssumption DEF Ages, Never
<1>2. EmptyIndex \in Index
  BY DEF EmptyIndex, Index, Artifacts
<1>3. QED
  BY <1>1, <1>2, NoJobType DEF Init, TypeOK, HasArtifact, HasCandidate, LoopStep, Artifacts

LEMMA WorkerTypesStep == TypeOK /\ HasArtifact /\ [Next]_vars => (TypeOK /\ HasArtifact)'
<1> SUFFICES ASSUME TypeOK, HasArtifact, [Next]_vars PROVE (TypeOK /\ HasArtifact)'
  OBVIOUS
<1> USE DEF TypeOK, HasArtifact, HasCandidate, LoopStep, registry, history
<1>0. 0 \in Ages /\ Replicas \in Nat \ {0}
  BY WorkerAssumption DEF Ages, Never
<1>1. ASSUME NEW w \in Procs, NEW fired \in BOOLEAN, Poll(w, fired)
      PROVE (TypeOK /\ HasArtifact)'
  <2>1. job' \in [Procs -> Job]
    <3>1. [job[w] EXCEPT !.since = saved] \in Job
      BY JobUpdate
    <3>2. job' = job \/ job' = [job EXCEPT ![w] = [job[w] EXCEPT !.since = saved]]
      BY <1>1 DEF Poll
    <3>3. QED
      BY <3>1, <3>2
  <2>2. QED
    BY <1>1, <2>1 DEF Poll
<1>2. ASSUME NEW w \in Procs, LockLost(w) \/ Unlock(w) \/ CrashWorker(w)
      PROVE (TypeOK /\ HasArtifact)'
  BY <1>2, NoJobType DEF LockLost, Unlock, CrashWorker
<1>3. ASSUME NEW w \in Procs, LockTaken(w) PROVE (TypeOK /\ HasArtifact)'
  BY <1>0, <1>3 DEF LockTaken
<1>4. ASSUME NEW w \in Procs, Working(w) PROVE (TypeOK /\ HasArtifact)'
  <2> USE <1>0
  <2>1. CASE Train(w)
    <3>1. PICK v \in Versions : artifact' = v /\ job' = [job EXCEPT ![w].trained = v]
      BY <2>1 DEF Train
    <3>2. job' \in [Procs -> Job]
      BY <3>1, JobUpdate DEF Artifacts
    <3>3. QED
      BY <2>1, <3>1, <3>2 DEF Train, Artifacts
  <2>2. CASE Fail(w)
    BY <2>2 DEF Fail, CanFail
  <2>3. CASE HashArtifact(w)
    <3>1. job' \in [Procs -> Job]
      BY <2>3, JobUpdate DEF HashArtifact
    <3>2. QED
      BY <2>3, <3>1 DEF HashArtifact
  <2>4. CASE RegisterLoad(w) \/ PromoteLoad(w)
    <3>1. job' \in [Procs -> Job]
      <4>1. [job[w] EXCEPT !.idx = index] \in Job
        BY JobUpdate
      <4>2. job' = [job EXCEPT ![w] = [job[w] EXCEPT !.idx = index]]
        BY <2>4 DEF RegisterLoad, PromoteLoad, LoadIndex
      <4>3. QED
        BY <4>1, <4>2
    <3>2. /\ job'[w].candidate = job[w].candidate /\ job[w].candidate \in Versions
          /\ \A u \in Procs \ {w} : job'[u] = job[u]
      BY <2>4 DEF RegisterLoad, PromoteLoad, LoadIndex, Job
    <3>3. QED
      BY <2>4, <3>1, <3>2 DEF RegisterLoad, PromoteLoad, LoadIndex
  <2>5. CASE CopyArtifact(w)
    BY <2>5 DEF CopyArtifact
  <2>6. CASE RegisterSave(w)
    <3>1. job[w].candidate \in Versions /\ job[w].idx \in Index
      BY <2>6 DEF RegisterSave, Job
    <3>2. index' \in Index
      BY <2>6, <3>1 DEF RegisterSave, Index, Artifacts
    <3>3. QED
      BY <2>6, <3>2 DEF RegisterSave
  <2>7. CASE ReadIncumbent(w)
    <3>1. index.current \in Artifacts /\ NoVersion \in Artifacts
      BY DEF Index, Artifacts
    <3>2. job' \in [Procs -> Job]
      BY <1>0, <2>7, <3>1, JobUpdate DEF ReadIncumbent
    <3>3. QED
      BY <2>7, <3>2 DEF ReadIncumbent
  <2>8. CASE Judge(w)
    BY <2>8 DEF Judge
  <2>9. CASE Promote(w)
    <3>1. job[w].candidate \in Versions /\ job[w].idx \in Index
      BY <2>9 DEF Promote, Job
    <3>2. index' \in Index
      BY <2>9, <3>1 DEF Promote, Index, Artifacts
    <3>3. job' \in [Procs -> Job] /\ job'[w].reload = 1
      <4>1. 1 \in 0 .. Replicas
        BY <1>0
      <4>2. job[w] \in Job /\ job' = [job EXCEPT ![w] = [job[w] EXCEPT !.reload = 1]]
        BY <2>9 DEF Promote
      <4>3. [job[w] EXCEPT !.reload = 1] \in Job
        BY <4>1, <4>2, JobUpdate
      <4>4. [job[w] EXCEPT !.reload = 1].reload = 1
        BY <4>2 DEF Job
      <4>5. QED
        BY <4>2, <4>3, <4>4
    <3>4. QED
      BY <2>9, <3>2, <3>3 DEF Promote
  <2>10. CASE Reload(w)
    <3>1. job[w].reload \in 0 .. Replicas /\ job[w].reload # 0
      BY <2>10 DEF Reload, Job
    <3>2. job' \in [Procs -> Job] /\ (pc'[w] = "reload" => job'[w].reload # 0)
      <4> DEFINE n == IF job[w].reload = Replicas THEN 0 ELSE job[w].reload + 1
      <4>1. n \in 0 .. Replicas /\ (job[w].reload # Replicas => n # 0)
        BY <1>0, <3>1
      <4>2. job[w] \in Job /\ job' = [job EXCEPT ![w] = [job[w] EXCEPT !.reload = n]]
        BY <2>10 DEF Reload
      <4>3. [job[w] EXCEPT !.reload = n] \in Job
        BY <4>1, <4>2, JobUpdate
      <4>4. [job[w] EXCEPT !.reload = n].reload = n
        BY <4>2 DEF Job
      <4>5. pc'[w] = "reload" => job[w].reload # Replicas
        BY <2>10 DEF Reload
      <4>6. QED
        BY <4>1, <4>2, <4>3, <4>4, <4>5
    <3>3. serving' \in [1 .. Replicas -> Artifacts]
      BY <2>10, ResolvedType DEF Reload
    <3>4. QED
      BY <2>10, <3>2, <3>3 DEF Reload
  <2>11. CASE ReloadFails(w)
    <3>1. job' \in [Procs -> Job]
      <4>1. [job[w] EXCEPT !.reload = 0] \in Job
        <5>1. 0 \in 0 .. Replicas
          BY <1>0
        <5>2. QED
          BY <5>1, JobUpdate
      <4>2. job' = [job EXCEPT ![w] = [job[w] EXCEPT !.reload = 0]]
        BY <2>11 DEF ReloadFails
      <4>3. QED
        BY <4>1, <4>2
    <3>2. QED
      BY <2>11, <3>1 DEF ReloadFails
  <2>12. CASE Save(w)
    BY <2>12 DEF Save, Job
  <2>13. QED
    BY <1>4, <2>1, <2>2, <2>3, <2>4, <2>5, <2>6, <2>7, <2>8, <2>9, <2>10, <2>11,
       <2>12, WorkingCases
<1>5. ASSUME NEW r \in 1 .. Replicas, RestartReplica(r) PROVE (TypeOK /\ HasArtifact)'
  BY <1>5, ResolvedType DEF RestartReplica
<1>6. CASE Tick
  <2>1. \A w \in Procs : [job[w] EXCEPT !.since = Older(@)] \in Job
    BY OlderType DEF Job
  <2>2. job' \in [Procs -> Job]
    BY <1>6, <2>1 DEF Tick
  <2>3. \A w \in Procs : job'[w].candidate = job[w].candidate /\ job'[w].reload = job[w].reload
    BY <1>6 DEF Tick, Job
  <2>4. QED
    BY <1>6, <2>2, <2>3, OlderType DEF Tick
<1>7. CASE LockAges \/ UNCHANGED vars
  BY <1>7 DEF LockAges, loopVars, vars
<1>8. ASSUME NEW w \in Procs, Locking(w) PROVE (TypeOK /\ HasArtifact)'
  BY <1>8 DEF Locking, loopVars
<1>9. QED
  BY <1>1, <1>2, <1>3, <1>4, <1>5, <1>6, <1>7, <1>8, NextCases

\* Every variable of the loop keeps to its type, whatever fails and crashes and
\* however many retrains overlap.
THEOREM WorkerTypes == Spec => []TypeOK
BY WorkerTypesInit, WorkerTypesStep, PTL DEF Spec

----------------------------------------------------------------------------
(* The critical section                                                    *)

Typed == TypeOK /\ HasArtifact /\ LockTypeOK

LEMMA TypedInit == Init => Typed
BY WorkerTypesInit, LockTypesInit DEF Init, Typed

LEMMA TypedStep == Typed /\ [Next]_vars => Typed'
BY WorkerTypesStep, LockTypesStep, StepRefinesLock DEF Typed

LEMMA InsideStep == Typed /\ LockHeldInside /\ [Next]_vars => LockHeldInside'
<1> SUFFICES ASSUME Typed, LockHeldInside, [Next]_vars PROVE LockHeldInside'
  OBVIOUS
<1>0. pc \in [Procs -> LoopStep] /\ at \in [Procs -> Place]
  BY DEF Typed, TypeOK, LockTypeOK
<1> USE <1>0 DEF LockHeldInside, Inside, LoopStep, Place
<1>1. ASSUME NEW w \in Procs, NEW fired \in BOOLEAN, Poll(w, fired) PROVE LockHeldInside'
  BY <1>1 DEF Poll, lockVars
<1>2. ASSUME NEW w \in Procs, Locking(w) PROVE LockHeldInside'
  BY <1>2 DEF Locking, loopVars, FindExisting, FindStale, Unlink
<1>3. ASSUME NEW w \in Procs, LockLost(w) PROVE LockHeldInside'
  BY <1>3 DEF LockLost, FindBusy, SecondCreateFails
<1>4. ASSUME NEW w \in Procs, LockTaken(w) PROVE LockHeldInside'
  BY <1>4 DEF LockTaken, FirstCreate, SecondCreate, Create
<1>5. ASSUME NEW w \in Procs, Working(w) PROVE LockHeldInside'
  BY <1>5, WorkingInside DEF lockVars
<1>6. ASSUME NEW w \in Procs, Unlock(w) PROVE LockHeldInside'
  BY <1>6 DEF Unlock, Release
<1>7. ASSUME NEW w \in Procs, CrashWorker(w) PROVE LockHeldInside'
  BY <1>7 DEF CrashWorker, Crash
<1>8. ASSUME NEW r \in 1 .. Replicas, RestartReplica(r) PROVE LockHeldInside'
  BY <1>8 DEF RestartReplica, lockVars
<1>9. CASE LockAges \/ Tick \/ UNCHANGED vars
  BY <1>9 DEF LockAges, GoStale, loopVars, Tick, lockVars, vars
<1>10. QED
  BY <1>1, <1>2, <1>3, <1>4, <1>5, <1>6, <1>7, <1>8, <1>9, NextCases

LEMMA InsideInit == Init => LockHeldInside
BY DEF Init, LockInit, LockHeldInside, Inside, LoopStep

\* However a cycle of run_cycle() ends, the worker that goes back to sleep does not
\* hold the lock; and nothing of the critical section runs without it.
THEOREM LockAlwaysReleased == Spec => []LockHeldInside
<1>1. Init => Typed /\ LockHeldInside
  BY TypedInit, InsideInit
<1>2. Typed /\ LockHeldInside /\ [Next]_vars => (Typed /\ LockHeldInside)'
  BY TypedStep, InsideStep
<1>3. QED
  BY <1>1, <1>2, PTL DEF Spec

----------------------------------------------------------------------------
(* One retrain at a time, as long as none has overlapped                   *)

OneHolder ==
    ~overlapped => \A p, q \in Procs : at[p] = "held" /\ at[q] = "held" => p = q

LEMMA TwoAreMoreThanOne ==
    ASSUME NEW S, IsFiniteSet(S), NEW p \in S, NEW q \in S, p # q
    PROVE  Cardinality(S) > 1
<1>1. {p} \cup {q} \subseteq S
  OBVIOUS
<1>2. IsFiniteSet({p}) /\ Cardinality({p}) = 1
  BY FS_Singleton
<1>3. Cardinality({p} \cup {q}) = 2
  BY <1>2, FS_AddElement
<1>4. 2 <= Cardinality(S) /\ Cardinality(S) \in Nat
  BY <1>1, <1>3, FS_Subset, FS_CardinalityType
<1>5. QED
  BY <1>4

LEMMA OneHolderStep == Typed /\ OneHolder /\ [Next]_vars => OneHolder'
<1> SUFFICES ASSUME Typed, OneHolder, [Next]_vars PROVE OneHolder'
  OBVIOUS
<1>0. at \in [Procs -> Place]
  BY DEF Typed, LockTypeOK
<1> USE <1>0 DEF OneHolder, Place
<1>1. ASSUME NEW w \in Procs, NEW fired \in BOOLEAN, Poll(w, fired) PROVE OneHolder'
  BY <1>1 DEF Poll, lockVars, history
<1>2. ASSUME NEW w \in Procs, Locking(w) PROVE OneHolder'
  BY <1>2 DEF Locking, loopVars, history, FindExisting, FindStale, Unlink
<1>3. ASSUME NEW w \in Procs, LockLost(w) PROVE OneHolder'
  BY <1>3 DEF LockLost, history, FindBusy, SecondCreateFails
<1>4. ASSUME NEW w \in Procs, LockTaken(w) PROVE OneHolder'
  <2> SUFFICES ASSUME ~overlapped', NEW p \in Procs, NEW q \in Procs,
                      at'[p] = "held", at'[q] = "held", p # q
               PROVE  FALSE
    OBVIOUS
  <2>1. p \in Holders' /\ q \in Holders'
    BY DEF Holders
  <2>2. Cardinality(Holders') > 1
    <3>1. IsFiniteSet(Holders')
      BY LockAssumption, FS_Subset DEF Holders
    <3>2. QED
      BY <2>1, <3>1, TwoAreMoreThanOne
  <2>3. QED
    BY <1>4, <2>2 DEF LockTaken
<1>5. ASSUME NEW w \in Procs, Working(w) PROVE OneHolder'
  BY <1>5, WorkingHistory, WorkingInside DEF lockVars
<1>6. ASSUME NEW w \in Procs, Unlock(w) PROVE OneHolder'
  BY <1>6 DEF Unlock, Release, history
<1>7. ASSUME NEW w \in Procs, CrashWorker(w) PROVE OneHolder'
  BY <1>7 DEF CrashWorker, Crash, history
<1>8. ASSUME NEW r \in 1 .. Replicas, RestartReplica(r) PROVE OneHolder'
  BY <1>8 DEF RestartReplica, lockVars, history
<1>9. CASE LockAges \/ Tick \/ UNCHANGED vars
  BY <1>9 DEF LockAges, GoStale, loopVars, Tick, lockVars, vars, history
<1>10. QED
  BY <1>1, <1>2, <1>3, <1>4, <1>5, <1>6, <1>7, <1>8, <1>9, NextCases

----------------------------------------------------------------------------
(* The registry, as long as no two retrains have overlapped                *)

First(c) == [versions |-> {c}, current |-> c]

RegistrySound ==
    /\ index.current \in index.versions \/ index = EmptyIndex
    /\ \A v \in Versions : store[v] \in {NoVersion, v}
    /\ \A v \in index.versions : store[v] # NoVersion

\* What a worker knows at each step of its cycle: its candidate is new until it
\* is registered, and nothing it has read has changed since.
StepSound(w) ==
    LET c == job[w].candidate IN
    /\ c \in {NoVersion, job[w].trained}
    /\ pc[w] \in {"sleep", "lock", "train", "hash"} => c = NoVersion
    /\ pc[w] = "hash" => artifact = job[w].trained /\ store[artifact] = NoVersion
    /\ pc[w] \in {"load", "copy"} => artifact = c /\ store[c] = NoVersion
    /\ pc[w] \in {"copy", "register", "promote"} => job[w].idx = index
    /\ pc[w] = "register" => store[c] = c /\ c \notin index.versions
    /\ pc[w] = "incumbent" => (index.current = c => index = First(c))
    /\ pc[w] \in {"judge", "promoteLoad", "promote"} =>
          index.current = job[w].incumbent \/ index = First(c)
    /\ pc[w] = "promote" => c \in index.versions

Sound == ~overlapped => RegistrySound /\ \A w \in Procs : StepSound(w)

\* A worker outside of its critical section knows nothing.
LEMMA OutsideSound ==
    ASSUME NEW w \in Procs, pc[w] \in {"sleep", "lock"}, job[w].candidate = NoVersion
    PROVE  StepSound(w)
BY DEF StepSound

\* While one worker is in its critical section, the others are not.
LEMMA OthersOutside ==
    ASSUME Typed, LockHeldInside, OneHolder, ~overlapped,
           NEW w \in Procs, pc[w] \in Inside, NEW u \in Procs, u # w
    PROVE  pc[u] \in {"sleep", "lock"}
BY DEF Typed, TypeOK, LockHeldInside, OneHolder, Inside

\* One step of the critical section keeps the registry sound and leaves its worker
\* at a step where what it has read still holds.
LEMMA WorkingSound ==
    ASSUME Typed, ~overlapped, RegistrySound, NEW w \in Procs, StepSound(w), Working(w)
    PROVE  RegistrySound' /\ StepSound(w)'
<1>0. /\ pc \in [Procs -> LoopStep] /\ job \in [Procs -> Job] /\ index \in Index
      /\ store \in [Versions -> Artifacts] /\ NoVersion \notin Versions
  BY WorkerAssumption DEF Typed, TypeOK
<1>00. /\ pc[w] = "hash" => artifact \in Versions
       /\ pc[w] \in HasCandidate => job[w].candidate \in Versions
  BY DEF Typed, HasArtifact
<1> USE <1>0, <1>00 DEF StepSound, RegistrySound, HasCandidate, Job
<1>1. CASE Train(w)
  <2>1. PICK v \in Versions : New(v) /\ artifact' = v /\ job' = [job EXCEPT ![w].trained = v]
    BY <1>1 DEF Train
  <2>2. QED
    BY <1>1, <2>1 DEF Train, New
<1>2. CASE Fail(w)
  BY <1>2 DEF Fail, CanFail, registry
<1>3. CASE HashArtifact(w)
  BY <1>3 DEF HashArtifact, registry
<1>4. CASE RegisterLoad(w)
  BY <1>4 DEF RegisterLoad, LoadIndex, registry
<1>5. CASE CopyArtifact(w)
  BY <1>5 DEF CopyArtifact, registry
<1>6. CASE RegisterSave(w)
  <2> DEFINE c == job[w].candidate
  <2>1. c \in Versions /\ store[c] = c /\ c \notin index.versions /\ job[w].idx = index
    BY <1>6 DEF RegisterSave
  <2>2. /\ store' = store /\ job' = job /\ pc'[w] = "incumbent"
        /\ index' = [versions |-> index.versions \cup {c},
                     current |-> IF index.current = NoVersion THEN c ELSE index.current]
    BY <1>6, <2>1 DEF RegisterSave
  <2>3. index.current \in index.versions \/ index' = First(c)
    <3>1. CASE index = EmptyIndex
      <4>1. index.versions = {} /\ index.current = NoVersion
        BY <3>1 DEF EmptyIndex
      <4>2. {} \cup {c} = {c}
        OBVIOUS
      <4>3. QED
        BY <2>2, <4>1, <4>2 DEF First
    <3>2. QED
      BY <3>1
  <2>4. index.current \in index.versions => index.current # NoVersion
    BY DEF Index
  <2>5. RegistrySound'
    <3>1. index'.current \in index'.versions
      BY <2>2, <2>3, <2>4 DEF First
    <3>2. \A v \in index'.versions : store'[v] # NoVersion
      BY <2>1, <2>2
    <3>3. QED
      BY <2>2, <3>1, <3>2
  <2>6. index'.current = c => index' = First(c)
    BY <2>1, <2>2, <2>3, <2>4
  <2>7. QED
    BY <2>2, <2>5, <2>6
<1>7. CASE ReadIncumbent(w)
  BY <1>7 DEF ReadIncumbent, registry, First
<1>8. CASE Judge(w)
  BY <1>8 DEF Judge, registry
<1>9. CASE PromoteLoad(w)
  BY <1>9 DEF PromoteLoad, LoadIndex, registry
<1>10. CASE Promote(w)
  BY <1>10 DEF Promote, registry
<1>11. CASE Reload(w) \/ ReloadFails(w)
  BY <1>11 DEF Reload, ReloadFails, registry
<1>12. CASE Save(w)
  BY <1>12 DEF Save, registry
<1>13. QED
  BY <1>1, <1>2, <1>3, <1>4, <1>5, <1>6, <1>7, <1>8, <1>9, <1>10, <1>11, <1>12, WorkingCases

\* A step of the critical section changes the locals of its own worker only.
LEMMA WorkingAlone ==
    ASSUME Typed, LockHeldInside, OneHolder, ~overlapped, NEW w \in Procs, Working(w)
    PROVE  /\ UNCHANGED overlapped
           /\ \A u \in Procs : u # w => /\ job'[u] = job[u]
                                        /\ pc[u] \in {"sleep", "lock"}
                                        /\ pc'[u] = pc[u]
<1>0. pc \in [Procs -> LoopStep] /\ job \in [Procs -> Job]
  BY DEF Typed, TypeOK
<1>1. \A u \in Procs : u # w => job'[u] = job[u]
  BY <1>0, WorkingCases
     DEF Train, Fail, CanFail, HashArtifact, RegisterLoad, CopyArtifact, RegisterSave,
         ReadIncumbent, Judge, PromoteLoad, Promote, Reload, ReloadFails, Save,
         LoadIndex, history, registry
<1>2. pc[w] \in Inside /\ \A u \in Procs : u # w => pc'[u] = pc[u]
  BY <1>0, WorkingInside
<1>3. QED
  BY <1>1, <1>2, OthersOutside, WorkingHistory

\* A worker that does not move, in a step that leaves the registry alone.
LEMMA StillSound ==
    ASSUME NEW u, StepSound(u), UNCHANGED registry, pc'[u] = pc[u],
           job'[u].candidate = job[u].candidate, job'[u].trained = job[u].trained,
           job'[u].idx = job[u].idx, job'[u].incumbent = job[u].incumbent
    PROVE  StepSound(u)'
BY DEF StepSound, registry

LEMMA SoundInit == Init => Sound
BY DEF Init, Sound, RegistrySound, StepSound, NoJob, EmptyIndex

LEMMA SoundStep ==
    Typed /\ LockHeldInside /\ OneHolder /\ Sound /\ [Next]_vars => Sound'
<1> SUFFICES ASSUME Typed, LockHeldInside, OneHolder, Sound, [Next]_vars, ~overlapped'
             PROVE  RegistrySound' /\ \A u \in Procs : StepSound(u)'
  BY DEF Sound
<1>0. pc \in [Procs -> LoopStep] /\ job \in [Procs -> Job]
  BY DEF Typed, TypeOK
<1>1. ASSUME NEW w \in Procs, Working(w)
      PROVE RegistrySound' /\ \A u \in Procs : StepSound(u)'
  <2>1. ~overlapped
    BY <1>1, WorkingHistory
  <2>2. \A u \in Procs : u # w => /\ job'[u] = job[u]
                                  /\ pc[u] \in {"sleep", "lock"} /\ pc'[u] = pc[u]
    BY <1>1, <2>1, WorkingAlone
  <2>3. RegistrySound /\ \A u \in Procs : StepSound(u)
    BY <2>1 DEF Sound
  <2>4. RegistrySound' /\ StepSound(w)'
    BY <1>1, <2>1, <2>3, WorkingSound
  <2>5. ASSUME NEW u \in Procs, u # w PROVE StepSound(u)'
    <3>1. job[u].candidate = NoVersion
      BY <2>2, <2>3, <2>5 DEF StepSound
    <3>2. pc'[u] \in {"sleep", "lock"} /\ job'[u].candidate = NoVersion
      BY <2>2, <2>5, <3>1
    <3>3. QED
      BY <3>2 DEF StepSound
  <2>6. QED
    BY <2>4, <2>5
<1>2. CASE \E w \in Procs : \/ \E fired \in BOOLEAN : Poll(w, fired)
                          \/ Locking(w) \/ LockLost(w) \/ LockTaken(w)
                          \/ Unlock(w) \/ CrashWorker(w)
  <2>1. ~overlapped /\ UNCHANGED registry
    <3>1. UNCHANGED registry
      BY <1>2 DEF Poll, Locking, LockLost, LockTaken, Unlock, CrashWorker, loopVars
    <3>2. overlapped => overlapped'
      <4>1. CASE \E w \in Procs : LockTaken(w)
        BY <4>1 DEF LockTaken
      <4>2. CASE ~(\E w \in Procs : LockTaken(w))
        BY <1>2, <4>2 DEF Poll, Locking, LockLost, Unlock, CrashWorker, loopVars, history
      <4>3. QED
        BY <4>1, <4>2
    <3>3. QED
      BY <3>1, <3>2
  <2>2. RegistrySound' /\ \A u \in Procs : StepSound(u)
    BY <2>1 DEF Sound, RegistrySound, registry
  <2>3. PICK w \in Procs : \/ \E fired \in BOOLEAN : Poll(w, fired)
                          \/ Locking(w) \/ LockLost(w) \/ LockTaken(w)
                          \/ Unlock(w) \/ CrashWorker(w)
    BY <1>2
  <2>4. ASSUME NEW u \in Procs PROVE StepSound(u)'
    <3>1. CASE pc'[u] = pc[u] /\ job'[u] = job[u]
      BY <2>1, <2>2, <3>1, StillSound
    <3>2. CASE pc'[u] # pc[u] \/ job'[u] # job[u]
      <4>1. u = w
        BY <1>0, <2>3, <3>2
           DEF Poll, Locking, LockLost, LockTaken, Unlock, CrashWorker, loopVars
      <4>2. CASE LockTaken(w)
        <5>1. pc[w] = "lock" /\ pc'[w] = "train" /\ job' = job
          BY <1>0, <4>2 DEF LockTaken
        <5>2. job[w].candidate = NoVersion
          BY <2>2, <5>1 DEF StepSound
        <5>3. QED
          BY <4>1, <5>1, <5>2 DEF StepSound
      <4>3. CASE ~LockTaken(w)
        <5>1. pc'[u] \in {"sleep", "lock"} /\ job'[u].candidate = NoVersion
          <6>1. CASE \E fired \in BOOLEAN : Poll(w, fired)
            <7>1. pc[w] = "sleep" /\ job[w].candidate = NoVersion
              BY <2>2, <6>1 DEF Poll, StepSound
            <7>2. QED
              BY <1>0, <4>1, <6>1, <7>1 DEF Poll, Job
          <6>2. CASE Locking(w)
            BY <3>2, <6>2 DEF Locking, loopVars
          <6>3. CASE LockLost(w) \/ Unlock(w) \/ CrashWorker(w)
            BY <1>0, <4>1, <6>3 DEF LockLost, Unlock, CrashWorker, NoJob
          <6>4. QED
            BY <2>3, <4>3, <6>1, <6>2, <6>3
        <5>2. QED
          BY <5>1 DEF StepSound
      <4>4. QED
        BY <4>2, <4>3
    <3>3. QED
      BY <3>1, <3>2
  <2>5. QED
    BY <2>2, <2>4
<1>3. CASE Tick \/ LockAges \/ UNCHANGED vars \/ \E r \in 1 .. Replicas : RestartReplica(r)
  <2>1. ~overlapped /\ UNCHANGED <<pc, artifact, store, index>>
    BY <1>3 DEF Tick, LockAges, loopVars, vars, RestartReplica, history, registry
  <2>2. RegistrySound' /\ \A u \in Procs : StepSound(u)
    BY <2>1 DEF Sound, RegistrySound
  <2>3. \A u \in Procs : /\ job'[u].candidate = job[u].candidate
                         /\ job'[u].trained = job[u].trained
                         /\ job'[u].idx = job[u].idx
                         /\ job'[u].incumbent = job[u].incumbent
    BY <1>0, <1>3 DEF Tick, LockAges, loopVars, vars, RestartReplica, Job
  <2>4. ASSUME NEW u \in Procs PROVE StepSound(u)'
    BY <2>1, <2>2, <2>3 DEF StepSound
  <2>5. QED
    BY <2>2, <2>4
<1>4. QED
  BY <1>1, <1>2, <1>3, NextCases

OneAtATime == Typed /\ LockHeldInside /\ OneHolder /\ Sound

LEMMA SoundAlways == Spec => []OneAtATime
<1>1. Init => OneAtATime
  BY TypedInit, InsideInit, SoundInit DEF OneAtATime, OneHolder, Init, LockInit
<1>2. OneAtATime /\ [Next]_vars => OneAtATime'
  BY TypedStep, InsideStep, OneHolderStep, SoundStep DEF OneAtATime
<1>3. QED
  BY <1>1, <1>2, PTL DEF Spec

\* As long as no two retrains overlap, no worker registers what another trained, and
\* every file of the registry holds the artifact its name is the hash of.
THEOREM CandidatesOwn == Spec => []CandidateIsOwn
<1>1. OneAtATime => CandidateIsOwn
  BY DEF OneAtATime, Sound, RegistrySound, StepSound, CandidateIsOwn
<1>2. QED
  BY <1>1, SoundAlways, PTL

\* As long as no two retrains overlap, registry.json loses nothing and names nothing
\* that is not there.
THEOREM IndexNeverLosesAVersion == Spec => []IndexComplete
<1>1. OneAtATime => IndexComplete
  BY DEF OneAtATime, Sound, RegistrySound, StepSound, IndexComplete
<1>2. QED
  BY <1>1, SoundAlways, PTL

\* As long as no two retrains overlap, the gate's verdict is about the very version
\* the promotion replaces.
THEOREM PromotionsWereJudged == Spec => []JudgedAgainstReplaced
<1>1. OneAtATime => JudgedAgainstReplaced
  BY DEF OneAtATime, Sound, StepSound, First, JudgedAgainstReplaced
<1>2. QED
  BY <1>1, SoundAlways, PTL

----------------------------------------------------------------------------
(* The replicas                                                            *)

\* A replica serves the contents of the file the pointer names.
Follows(r) == serving[r] = store[index.current]

\* The loop over the reload URLs, while it runs: the pointer names a version, and
\* the replicas that were told follow it.
Told(w) ==
    pc[w] = "reload" =>
        /\ index.current # NoVersion
        /\ \A r \in 1 .. Replicas : r < job[w].reload => Follows(r)

Following ==
    ~overlapped =>
        /\ ~lapse /\ index.current # NoVersion => \A r \in 1 .. Replicas : Follows(r)
        /\ \A w \in Procs : Told(w)

LEMMA FollowingInit == Init => Following
BY DEF Init, Following, Told, EmptyIndex

\* Nothing a replica is compared with changes: neither the replicas, nor the pointer,
\* nor the file it names.
LEMMA StillFollowing ==
    ASSUME Following, ~overlapped, UNCHANGED serving, index'.current = index.current,
           index.current # NoVersion => store'[index.current] = store[index.current],
           lapse' = lapse,
           \A u \in Procs : pc'[u] = "reload" =>
               pc[u] = "reload" /\ job'[u].reload = job[u].reload
    PROVE  Following'
BY DEF Following, Told, Follows

LEMMA FollowingWorks ==
    ASSUME OneAtATime, Following, ~overlapped, NEW w \in Procs, Working(w)
    PROVE  Following'
<1>0. /\ pc \in [Procs -> LoopStep] /\ job \in [Procs -> Job] /\ index \in Index
      /\ store \in [Versions -> Artifacts] /\ NoVersion \notin Versions
      /\ serving \in [1 .. Replicas -> Artifacts] /\ Replicas \in Nat \ {0}
      /\ lapse \in BOOLEAN
  BY WorkerAssumption DEF OneAtATime, Typed, TypeOK
<1>1. /\ UNCHANGED overlapped
      /\ \A u \in Procs : u # w => /\ job'[u] = job[u]
                                   /\ pc[u] \in {"sleep", "lock"} /\ pc'[u] = pc[u]
  BY WorkingAlone DEF OneAtATime
<1>2. RegistrySound /\ StepSound(w)
  BY DEF OneAtATime, Sound
<1>3. pc[w] \in HasCandidate => job[w].candidate \in Versions
  BY DEF OneAtATime, Typed, HasArtifact
<1>4. ASSUME UNCHANGED <<store, index, serving, lapse>>, pc'[w] # "reload"
      PROVE  Following'
  BY <1>1, <1>4, StillFollowing
<1>5. CASE Train(w) \/ Fail(w) \/ HashArtifact(w) \/ RegisterLoad(w) \/ ReadIncumbent(w)
           \/ Judge(w) \/ PromoteLoad(w) \/ ReloadFails(w) \/ Save(w)
  BY <1>0, <1>4, <1>5
     DEF Train, Fail, HashArtifact, RegisterLoad, ReadIncumbent, Judge, PromoteLoad,
         ReloadFails, Save, LoadIndex, registry, history
<1>6. CASE CopyArtifact(w)
  <2>1. store[job[w].candidate] = NoVersion
    BY <1>2, <1>6 DEF CopyArtifact, StepSound
  <2>2. index.current # NoVersion => store[index.current] # NoVersion
    BY <1>0, <1>2 DEF RegistrySound, EmptyIndex
  <2>3. index.current # NoVersion => store'[index.current] = store[index.current]
    BY <1>0, <1>6, <2>1, <2>2 DEF CopyArtifact, Index, Artifacts
  <2>4. /\ UNCHANGED <<index, serving, lapse>> /\ pc'[w] = "register"
    BY <1>0, <1>6 DEF CopyArtifact, history
  <2>5. QED
    BY <1>1, <2>3, <2>4, StillFollowing
<1>7. CASE RegisterSave(w)
  <2>1. job[w].idx = index
    BY <1>2, <1>7 DEF RegisterSave, StepSound
  <2>2. UNCHANGED <<store, serving>> /\ pc'[w] = "incumbent"
    BY <1>0, <1>7 DEF RegisterSave
  <2>3. CASE index.current = NoVersion
    <3>1. lapse'
      BY <1>7, <2>1, <2>3 DEF RegisterSave
    <3>2. QED
      BY <1>1, <2>2, <3>1 DEF Following, Told
  <2>4. CASE index.current # NoVersion
    <3>1. index'.current = index.current /\ lapse' = lapse
      BY <1>0, <1>7, <2>1, <2>4 DEF RegisterSave
    <3>2. QED
      BY <1>1, <2>2, <3>1, StillFollowing
  <2>5. QED
    BY <2>3, <2>4
<1>8. CASE Promote(w)
  <2>1. job[w].idx = index /\ job[w].candidate \in Versions
    BY <1>2, <1>3, <1>8 DEF Promote, StepSound, HasCandidate
  <2>2. index'.current # NoVersion
    BY <1>0, <1>8, <2>1 DEF Promote, Index
  <2>3. lapse' /\ job'[w].reload = 1
    BY <1>0, <1>8 DEF Promote, Job
  <2>4. Told(w)'
    BY <2>2, <2>3 DEF Told
  <2>5. QED
    BY <1>1, <2>3, <2>4 DEF Following, Told
<1>9. CASE Reload(w)
  <2> DEFINE k == job[w].reload
  <2>1. /\ pc[w] = "reload" /\ k \in 1 .. Replicas
        /\ UNCHANGED <<store, index>>
    BY <1>0, <1>9 DEF Reload, OneAtATime, Typed, HasArtifact, Job
  <2>2. index.current # NoVersion /\ \A r \in 1 .. Replicas : r < k => Follows(r)
    BY <2>1 DEF Following, Told
  <2>3. serving' = [serving EXCEPT ![k] = store[index.current]]
    BY <1>9, <2>2 DEF Reload, Resolved
  <2>4. \A r \in 1 .. Replicas : r <= k => Follows(r)'
    BY <1>0, <2>1, <2>2, <2>3 DEF Follows
  <2>5. CASE k = Replicas
    <3>1. pc'[w] = "save"
      BY <1>0, <1>9, <2>5 DEF Reload
    <3>2. \A r \in 1 .. Replicas : Follows(r)'
      BY <1>0, <2>4, <2>5
    <3>3. QED
      BY <1>1, <3>1, <3>2 DEF Following, Told
  <2>6. CASE k # Replicas
    <3>1. lapse' = lapse /\ job'[w].reload = k + 1
      BY <1>0, <1>9, <2>6 DEF Reload, Job
    <3>2. Told(w)'
      BY <1>0, <2>1, <2>2, <2>4, <3>1 DEF Told
    <3>3. ~lapse' => \A r \in 1 .. Replicas : Follows(r)'
      BY <1>0, <2>1, <2>2, <2>3, <3>1 DEF Following, Follows
    <3>4. QED
      BY <1>1, <3>2, <3>3 DEF Following, Told
  <2>7. QED
    BY <2>5, <2>6
<1>10. QED
  BY <1>5, <1>6, <1>7, <1>8, <1>9, WorkingCases

LEMMA FollowingStep == OneAtATime /\ Following /\ [Next]_vars => Following'
<1> SUFFICES ASSUME OneAtATime, Following, [Next]_vars, ~overlapped' PROVE Following'
  BY DEF Following
<1>0. /\ pc \in [Procs -> LoopStep] /\ job \in [Procs -> Job]
      /\ serving \in [1 .. Replicas -> Artifacts]
  BY DEF OneAtATime, Typed, TypeOK
<1>1. ASSUME NEW w \in Procs, Working(w) PROVE Following'
  BY <1>1, FollowingWorks, WorkingHistory
<1>2. ASSUME NEW w \in Procs,
             \/ \E fired \in BOOLEAN : Poll(w, fired)
             \/ Locking(w) \/ LockLost(w) \/ LockTaken(w) \/ Unlock(w) \/ CrashWorker(w)
      PROVE  Following'
  <2>1. UNCHANGED registry /\ lapse' = lapse
    BY <1>2 DEF Poll, Locking, LockLost, LockTaken, Unlock, CrashWorker, loopVars, history
  <2>2. overlapped => overlapped'
    <3>1. CASE LockTaken(w)
      BY <3>1 DEF LockTaken
    <3>2. CASE ~LockTaken(w)
      BY <1>2, <3>2 DEF Poll, Locking, LockLost, Unlock, CrashWorker, loopVars, history
    <3>3. QED
      BY <3>1, <3>2
  <2>3. \A u \in Procs : pc'[u] = "reload" => pc[u] = "reload" /\ job'[u] = job[u]
    BY <1>0, <1>2 DEF Poll, Locking, LockLost, LockTaken, Unlock, CrashWorker, loopVars
  <2>4. QED
    BY <2>1, <2>2, <2>3, StillFollowing DEF registry
<1>3. ASSUME NEW r \in 1 .. Replicas, RestartReplica(r) PROVE Following'
  <2>1. UNCHANGED <<pc, job, store, index, lapse, overlapped>>
    BY <1>3 DEF RestartReplica, history
  <2>2. CASE index.current = NoVersion
    BY <2>1, <2>2 DEF Following, Told
  <2>3. CASE index.current # NoVersion
    <3>1. serving' = [serving EXCEPT ![r] = store[index.current]]
      BY <1>3, <2>3 DEF RestartReplica, Resolved
    <3>2. \A q \in 1 .. Replicas : Follows(q) => Follows(q)'
      BY <1>0, <2>1, <3>1 DEF Follows
    <3>3. QED
      BY <2>1, <3>2 DEF Following, Told
  <2>4. QED
    BY <2>2, <2>3
<1>4. CASE Tick \/ LockAges \/ UNCHANGED vars
  <2>1. UNCHANGED <<pc, store, index, serving, lapse, overlapped>>
    BY <1>4 DEF Tick, LockAges, loopVars, vars, history, registry
  <2>2. \A u \in Procs : job'[u].reload = job[u].reload
    BY <1>0, <1>4 DEF Tick, LockAges, loopVars, vars, Job
  <2>3. QED
    BY <2>1, <2>2, StillFollowing
<1>5. QED
  BY <1>1, <1>2, <1>3, <1>4, NextCases

LEMMA FollowingAlways == Spec => [](OneAtATime /\ Following)
BY SoundAlways, FollowingInit, FollowingStep, PTL DEF Spec

\* As long as no two retrains overlap: once a change of the pointer has reached the
\* end of the reload loop, every replica serves what the pointer names, and it stays
\* so whatever restarts and whichever cycle fails, until the pointer moves again.
THEOREM ReplicasAlwaysFollow == Spec => []ReplicasFollow
<1>1. Following => ReplicasFollow
  BY DEF Following, Follows, ReplicasFollow, Resolved
<1>2. QED
  BY <1>1, FollowingAlways, PTL

----------------------------------------------------------------------------
(* The cooldown                                                            *)

\* The steps after mark_retrain(), where the state in memory has the new date.
Marked == {"judge", "promoteLoad", "promote", "reload", "save"}

\* The state file is never older than what any worker has saved, a retrain that was
\* marked is newer than the file it will be saved in, and a worker on its way to the
\* lock read a date that is at least a cooldown old and no older than its own.
AgesInOrder ==
    ~overlapped =>
        \A w \in Procs :
            /\ saved <= own[w]
            /\ pc[w] \in Marked => job[w].since <= saved
            /\ pc[w] = "lock" => Cooldown <= job[w].since /\ job[w].since <= own[w]

LEMMA AgesAreNumbers ==
    /\ \A a \in Ages : a \in Nat /\ 0 <= a /\ a <= Never
    /\ 0 \in Ages /\ Never \in Ages
    /\ Cooldown \in Nat /\ Cooldown < Never
BY WorkerAssumption DEF Ages, Never

LEMMA OlderKeepsOrder ==
    ASSUME NEW a \in Ages, NEW b \in Ages, a <= b
    PROVE  Older(a) <= Older(b) /\ a <= Older(a)
BY WorkerAssumption DEF Ages, Never, Older

LEMMA AgesInOrderInit == Init => AgesInOrder
BY AgesAreNumbers DEF Init, AgesInOrder, Marked

LEMMA AgesInOrderStep == OneAtATime /\ AgesInOrder /\ [Next]_vars => AgesInOrder'
<1> SUFFICES ASSUME OneAtATime, AgesInOrder, [Next]_vars, ~overlapped' PROVE AgesInOrder'
  BY DEF AgesInOrder
<1>0. /\ pc \in [Procs -> LoopStep] /\ job \in [Procs -> Job]
      /\ saved \in Ages /\ own \in [Procs -> Ages]
      /\ \A u \in Procs : job[u].since \in Ages
  BY DEF OneAtATime, Typed, TypeOK, Job
<1> USE <1>0 DEF Marked
<1>1. ASSUME NEW w \in Procs, Working(w) PROVE AgesInOrder'
  <2>1. ~overlapped
    BY <1>1, WorkingHistory
  <2>2. \A u \in Procs : u # w => /\ job'[u] = job[u]
                                  /\ pc[u] \in {"sleep", "lock"} /\ pc'[u] = pc[u]
    BY <1>1, <2>1, WorkingAlone DEF OneAtATime
  <2>3. CASE Save(w)
    <3>1. /\ saved' = job[w].since /\ own' = [own EXCEPT ![w] = job[w].since]
          /\ pc'[w] = "release" /\ job[w].since <= saved
      BY <2>1, <2>3 DEF Save, AgesInOrder
    <3>2. \A u \in Procs : saved' <= own'[u]
      BY <2>1, <3>1, AgesAreNumbers DEF AgesInOrder
    <3>3. QED
      BY <2>1, <2>2, <3>1, <3>2 DEF AgesInOrder
  <2>4. CASE ReadIncumbent(w)
    <3>1. UNCHANGED <<saved, own>> /\ job'[w].since = 0 /\ pc'[w] = "judge"
      BY <2>4 DEF ReadIncumbent, history, Job
    <3>2. QED
      BY <2>1, <2>2, <3>1, AgesAreNumbers DEF AgesInOrder
  <2>5. CASE ~Save(w) /\ ~ReadIncumbent(w)
    <3>1. /\ UNCHANGED <<saved, own>> /\ job'[w].since = job[w].since
          /\ pc'[w] # "lock" /\ (pc'[w] \in Marked => pc[w] \in Marked)
      <4>1. CASE Train(w) \/ Fail(w) \/ HashArtifact(w) \/ RegisterLoad(w)
        BY <4>1 DEF Train, Fail, HashArtifact, RegisterLoad, LoadIndex, history, Job
      <4>2. CASE CopyArtifact(w) \/ RegisterSave(w) \/ Judge(w) \/ PromoteLoad(w)
        BY <4>2 DEF CopyArtifact, RegisterSave, Judge, PromoteLoad, LoadIndex, history, Job
      <4>3. CASE Promote(w) \/ Reload(w) \/ ReloadFails(w)
        BY <4>3 DEF Promote, Reload, ReloadFails, registry, history, Job
      <4>4. QED
        BY <1>1, <2>5, <4>1, <4>2, <4>3, WorkingCases
    <3>2. QED
      BY <2>1, <2>2, <3>1 DEF AgesInOrder
  <2>6. QED
    BY <2>3, <2>4, <2>5
<1>2. ASSUME NEW w \in Procs, NEW fired \in BOOLEAN, Poll(w, fired) PROVE AgesInOrder'
  <2>1. UNCHANGED <<saved, own, overlapped>>
    BY <1>2 DEF Poll, history
  <2>2. CASE UNCHANGED <<pc, job>>
    BY <2>1, <2>2 DEF AgesInOrder
  <2>3. CASE ~UNCHANGED <<pc, job>>
    <3>1. /\ ShouldRetrain(saved, fired)
          /\ pc' = [pc EXCEPT ![w] = "lock"] /\ job' = [job EXCEPT ![w].since = saved]
      BY <1>2, <2>3 DEF Poll
    <3>2. Cooldown <= saved
      BY <3>1, AgesAreNumbers DEF ShouldRetrain
    <3>3. job'[w].since = saved /\ \A u \in Procs : u # w => job'[u] = job[u]
      BY <3>1 DEF Job
    <3>4. QED
      BY <2>1, <3>1, <3>2, <3>3 DEF AgesInOrder
  <2>4. QED
    BY <2>2, <2>3
<1>3. ASSUME NEW w \in Procs,
             Locking(w) \/ LockLost(w) \/ LockTaken(w) \/ Unlock(w) \/ CrashWorker(w)
      PROVE  AgesInOrder'
  <2>1. UNCHANGED <<saved, own>>
    BY <1>3 DEF Locking, LockLost, LockTaken, Unlock, CrashWorker, loopVars, history
  <2>2. ~overlapped
    <3>1. CASE LockTaken(w)
      BY <3>1 DEF LockTaken
    <3>2. CASE ~LockTaken(w)
      BY <1>3, <3>2 DEF Locking, LockLost, Unlock, CrashWorker, loopVars, history
    <3>3. QED
      BY <3>1, <3>2
  <2>3. \A u \in Procs : pc'[u] \in Marked \cup {"lock"} => pc'[u] = pc[u] /\ job'[u] = job[u]
    BY <1>3 DEF Locking, LockLost, LockTaken, Unlock, CrashWorker, loopVars
  <2>4. QED
    BY <2>1, <2>2, <2>3 DEF AgesInOrder
<1>4. CASE Tick
  <2>1. ~overlapped /\ pc' = pc /\ saved' = Older(saved)
    BY <1>4 DEF Tick
  <2>2. \A u \in Procs : own'[u] = Older(own[u]) /\ job'[u].since = Older(job[u].since)
    BY <1>4 DEF Tick, Job
  <2>3. ASSUME NEW u \in Procs
        PROVE  /\ saved' <= own'[u]
               /\ pc'[u] \in Marked => job'[u].since <= saved'
               /\ pc'[u] = "lock" => Cooldown <= job'[u].since /\ job'[u].since <= own'[u]
    <3>1. saved <= own[u] /\ own[u] \in Ages /\ job[u].since \in Ages
      BY <2>1 DEF AgesInOrder
    <3>2. saved' <= own'[u]
      BY <2>1, <2>2, <3>1, OlderKeepsOrder
    <3>3. pc'[u] \in Marked => job'[u].since <= saved'
      BY <2>1, <2>2, <3>1, OlderKeepsOrder DEF AgesInOrder
    <3>4. ASSUME pc'[u] = "lock"
          PROVE  Cooldown <= job'[u].since /\ job'[u].since <= own'[u]
      <4>1. Cooldown <= job[u].since /\ job[u].since <= own[u]
        BY <2>1, <3>4 DEF AgesInOrder
      <4>2. job[u].since <= Older(job[u].since) /\ Older(job[u].since) <= Older(own[u])
        BY <3>1, <4>1, OlderKeepsOrder
      <4>3. QED
        BY <2>2, <3>1, <4>1, <4>2, AgesAreNumbers, OlderType
    <3>5. QED
      BY <3>2, <3>3, <3>4
  <2>4. QED
    BY <2>3 DEF AgesInOrder
<1>5. CASE LockAges \/ UNCHANGED vars \/ \E r \in 1 .. Replicas : RestartReplica(r)
  BY <1>5 DEF LockAges, RestartReplica, loopVars, vars, history, AgesInOrder
<1>6. QED
  BY <1>1, <1>2, <1>3, <1>4, <1>5, NextCases

LEMMA AgesInOrderAlways == Spec => [](OneAtATime /\ AgesInOrder)
BY SoundAlways, AgesInOrderInit, AgesInOrderStep, PTL DEF Spec

\* As long as no two retrains overlap, no worker starts to retrain within the cooldown
\* of a retrain it has saved: its own date survives its crashes in the state file, and
\* no other worker's save puts an older one back.
THEOREM CooldownOfOwnRetrains == Spec => OwnCooldown
<1> DEFINE Starts ==
      \A w \in Procs :
          ~overlapped /\ pc[w] = "lock" /\ pc'[w] = "train" => own[w] >= Cooldown
<1>1. OneAtATime /\ AgesInOrder => Starts
  <2> SUFFICES ASSUME OneAtATime, AgesInOrder, NEW w \in Procs, ~overlapped, pc[w] = "lock"
               PROVE  own[w] >= Cooldown
    OBVIOUS
  <2>1. own[w] \in Ages /\ job[w].since \in Ages
    BY DEF OneAtATime, Typed, TypeOK, Job
  <2>2. Cooldown <= job[w].since /\ job[w].since <= own[w]
    BY DEF AgesInOrder
  <2>3. QED
    BY <2>1, <2>2, AgesAreNumbers
<1>2. QED
  BY <1>1, AgesInOrderAlways, PTL DEF OwnCooldown

=============================================================================
