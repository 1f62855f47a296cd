--------------------------- MODULE RetrainWorker ---------------------------
(***************************************************************************)
(* The retraining loop (services/automl_service/worker.py): each worker    *)
(* polls, decides from the state file whether to retrain, takes the file   *)
(* lock, merges and trains, registers the candidate, judges it against the *)
(* incumbent, moves the registry's pointer, tells every replica to reload, *)
(* saves its state and releases the lock.  The state file is read before   *)
(* the lock is taken and written under it.  A worker may crash anywhere.   *)
(*                                                                         *)
(* Time is counted in ages, as in CircuitBreaker: the state file holds the *)
(* age of the last retrain it knows of, up to Schedule.                    *)
(* An artifact is identified by its contents, of which the version is the  *)
(* hash.  The dataset, and which candidate is better, are left open.       *)
(***************************************************************************)
EXTENDS FileLock

CONSTANTS
    Replicas,      \* how many ml-service replicas AUTOML_RELOAD_URL lists
    Versions,      \* artifacts the trainer can produce (a bound)
    NoVersion,     \* no artifact; in a replica: the model bundled with the code
    Cooldown,      \* cooldown_minutes
    Schedule       \* max_interval_minutes

ASSUME WorkerAssumption ==
    /\ Replicas \in Nat \ {0}
    /\ NoVersion \notin Versions
    /\ Cooldown \in Nat /\ Schedule \in Nat /\ Cooldown <= Schedule

VARIABLES
    pc,         \* where each worker is in main() and run_cycle()
    job,        \* the local variables of each worker's cycle
    saved,      \* retrain_state.json: the age of last_retrain_utc
    artifact,   \* what the trainer's output path holds
    store,      \* the contents of each version's file in the registry
    index,      \* registry.json
    serving,    \* the artifact each replica serves
    own,        \* history: the age of each worker's last saved retrain
    started,    \* history: the age of the last retrain that started
    overlapped, \* history: have two retrains run at once
    lapse       \* history: has a change of the pointer not reached the replicas

registry == <<artifact, store, index, serving>>
history  == <<own, started, overlapped, lapse>>
loopVars == <<pc, job, saved, registry, history>>
vars     == <<lockVars, loopVars>>

Never == Schedule + 1    \* the age of a retrain that never was
Ages  == 0 .. Never
Older(age) == IF age < Schedule THEN age + 1 ELSE age

Artifacts == Versions \cup {NoVersion}
Index     == [versions : SUBSET Versions, current : Artifacts]
EmptyIndex == [versions |-> {}, current |-> NoVersion]

\* since: last_retrain_utc in the RetrainState in memory; trained: what the
\* trainer wrote; candidate: its version; idx: a registry index in memory;
\* incumbent: what the candidate is judged against; reload: the next replica.
Job == [since : Ages, trained : Artifacts, candidate : Artifacts, idx : Index,
        incumbent : Artifacts, reload : 0 .. Replicas]

NoJob == [since |-> Never, trained |-> NoVersion, candidate |-> NoVersion,
          idx |-> EmptyIndex, incumbent |-> NoVersion, reload |-> 0]

LoopStep == {"sleep", "lock", "train", "hash", "load", "copy", "register",
             "incumbent", "judge", "promoteLoad", "promote", "reload", "save",
             "release"}

Init ==
    /\ LockInit
    /\ pc = [w \in Procs |-> "sleep"]
    /\ job = [w \in Procs |-> NoJob]
    /\ saved = Never
    /\ artifact = NoVersion
    /\ store = [v \in Versions |-> NoVersion]
    /\ index = EmptyIndex
    /\ serving = [r \in 1 .. Replicas |-> NoVersion]
    /\ own = [w \in Procs |-> Never]
    /\ started = Never
    /\ overlapped = FALSE
    /\ lapse = FALSE

Go(w, from, to) ==
    /\ pc[w] = from
    /\ pc' = [pc EXCEPT ![w] = to]

----------------------------------------------------------------------------
(* The trigger and the lock                                                *)

\* Seeded faults: the schedule rule is missing; the cooldown does not stand in
\* front of the other rules.
ShouldRetrainUnscheduled(since, fired) ==
    \/ since = Never
    \/ since >= Cooldown /\ fired

ShouldRetrainUncooled(since, fired) == fired \/ since >= Schedule

\* should_retrain(): fired stands for the volume and the drift rule.
ShouldRetrain(since, fired) ==
    \/ since = Never
    \/ since >= Cooldown /\ (fired \/ since >= Schedule)

\* Load the state file, gather the signals, decide.
Poll(w, fired) ==
    /\ pc[w] = "sleep"
    /\ IF ShouldRetrain(saved, fired)
       THEN /\ pc' = [pc EXCEPT ![w] = "lock"]
            /\ job' = [job EXCEPT ![w].since = saved]
       ELSE UNCHANGED <<pc, job>>
    /\ UNCHANGED <<lockVars, saved, registry, history>>

Locking(w) ==
    /\ FindExisting(w) \/ FindStale(w) \/ Unlink(w)
    /\ pc[w] = "lock"
    /\ UNCHANGED loopVars

\* Seeded fault: the cycle goes on without the lock.
LockLostIgnored(w) ==
    /\ FindBusy(w) \/ SecondCreateFails(w)
    /\ Go(w, "lock", "train")
    /\ UNCHANGED <<job, saved, registry, history>>

\* LockBusy, or the FileExistsError that main() logs: the cycle is skipped.
LockLost(w) ==
    /\ FindBusy(w) \/ SecondCreateFails(w)
    /\ Go(w, "lock", "sleep")
    /\ job' = [job EXCEPT ![w] = NoJob]
    /\ UNCHANGED <<saved, registry, history>>

LockTaken(w) ==
    /\ FirstCreate(w) \/ SecondCreate(w)
    /\ Go(w, "lock", "train")
    /\ started' = 0
    /\ overlapped' = (overlapped \/ Cardinality(Holders') > 1)
    /\ UNCHANGED <<job, saved, registry, own, lapse>>

----------------------------------------------------------------------------
(* run_retrain() and ModelRegistry.register()                              *)

\* An artifact embeds the time of its training: no two are the same.
New(v) ==
    /\ store[v] = NoVersion /\ artifact # v
    /\ \A w \in Procs : job[w].trained # v

\* The merge, the validation gate and the trainer, a process of its own, that
\* leaves its artifact at a path all retrains share.
Train(w) ==
    /\ Go(w, "train", "hash")
    /\ \E v \in {x \in Versions : New(x)} :
          /\ artifact' = v
          /\ job' = [job EXCEPT ![w].trained = v]
    /\ UNCHANGED <<lockVars, saved, store, index, serving, history>>

CanFail == {"train", "hash", "load", "copy", "register", "incumbent", "judge",
            "promoteLoad", "promote", "save"}

\* Seeded fault: a failed cycle returns outside the finally block.
FailUnlocked(w) ==
    /\ pc[w] \in CanFail
    /\ pc' = [pc EXCEPT ![w] = "sleep"]
    /\ UNCHANGED <<lockVars, job, saved, registry, history>>

\* The gate or the trainer fails, or the merge, the registry, the evaluation, the
\* promotion or the save raises: the cycle ends without saving the state.
Fail(w) ==
    /\ pc[w] \in CanFail
    /\ pc' = [pc EXCEPT ![w] = "release"]
    /\ UNCHANGED <<lockVars, job, saved, registry, history>>

\* register() reads the artifact to find its version, ...
HashArtifact(w) ==
    /\ Go(w, "hash", "load")
    /\ job' = [job EXCEPT ![w].candidate = artifact]
    /\ UNCHANGED <<lockVars, saved, registry, history>>

\* reads the index, under a lock no other process knows of, ...
LoadIndex(w, from, to) ==
    /\ Go(w, from, to)
    /\ job' = [job EXCEPT ![w].idx = index]
    /\ UNCHANGED <<lockVars, saved, registry, history>>

RegisterLoad(w) == LoadIndex(w, "load", "copy")

\* Seeded fault: the index is replaced without the copy.
CopySkipped(w) ==
    /\ Go(w, "copy", "register")
    /\ UNCHANGED <<lockVars, job, saved, registry, history>>

\* copies whatever is at the artifact's path by now, unless the version is there,
CopyArtifact(w) ==
    /\ Go(w, "copy", "register")
    /\ LET v == job[w].candidate IN
          store' = IF store[v] = NoVersion
                   THEN [store EXCEPT ![v] = artifact] ELSE store
    /\ UNCHANGED <<lockVars, job, saved, artifact, index, serving, history>>

\* Seeded fault: every version is current as soon as it is registered.
RegisterPromotes(w) ==
    /\ Go(w, "register", "incumbent")
    /\ LET c == job[w].candidate IN
          index' = [versions |-> job[w].idx.versions \cup {c}, current |-> c]
    /\ lapse' = TRUE
    /\ UNCHANGED <<lockVars, job, saved, artifact, store, serving, own, started, overlapped>>

\* and replaces the index; the first version ever is current at once.
RegisterSave(w) ==
    /\ Go(w, "register", "incumbent")
    /\ LET i == job[w].idx
           c == job[w].candidate
           first == i.current = NoVersion
       IN  /\ index' = [versions |-> i.versions \cup {c},
                        current  |-> IF first THEN c ELSE i.current]
           /\ lapse' = (lapse \/ first)
    /\ UNCHANGED <<lockVars, job, saved, artifact, store, serving, own, started, overlapped>>

----------------------------------------------------------------------------
(* mark_retrain(), the promotion, the reload, and the end of the cycle      *)

\* mark_retrain(); then the pointer is read to find the incumbent.
ReadIncumbent(w) ==
    /\ Go(w, "incumbent", "judge")
    /\ LET c == index.current IN
          job' = [job EXCEPT ![w].since = 0,
                             ![w].incumbent = IF c = job[w].candidate
                                              THEN NoVersion ELSE c]
    /\ UNCHANGED <<lockVars, saved, registry, history>>

\* evaluate_candidate() and decide(): either verdict.
Judge(w) ==
    /\ \E to \in {"promoteLoad", "save"} : Go(w, "judge", to)
    /\ UNCHANGED <<lockVars, job, saved, registry, history>>

PromoteLoad(w) ==
    /\ job[w].candidate \in index.versions    \* else KeyError: Fail(w)
    /\ LoadIndex(w, "promoteLoad", "promote")

Promote(w) ==
    /\ Go(w, "promote", "reload")
    /\ index' = [job[w].idx EXCEPT !.current = job[w].candidate]
    /\ job' = [job EXCEPT ![w].reload = 1]
    /\ lapse' = TRUE
    /\ UNCHANGED <<lockVars, saved, artifact, store, serving, own, started, overlapped>>

\* resolve_artifact(): the pointer's version or, before the first registration, the
\* legacy model, whose path is the trainer's output path: it is the newest artifact
\* in a process that shares the worker's disk, and the bundled model in another.
Resolved ==
    IF index.current = NoVersion THEN {NoVersion, artifact} ELSE {store[index.current]}

\* Seeded fault: the loop over the URLs ends after the first.
ReloadFirst(w) ==
    /\ Go(w, "reload", "save")
    /\ \E m \in Resolved : serving' = [serving EXCEPT ![job[w].reload] = m]
    /\ job' = [job EXCEPT ![w].reload = 0]
    /\ lapse' = FALSE
    /\ UNCHANGED <<lockVars, saved, artifact, store, index, own, started, overlapped>>

\* POST /admin/reload-models to the next replica: it builds new predictors from
\* the pointer's version and swaps them in.
Reload(w) ==
    LET r == job[w].reload
        last == r = Replicas
    IN  /\ Go(w, "reload", IF last THEN "save" ELSE "reload")
        /\ \E m \in Resolved : serving' = [serving EXCEPT ![r] = m]
        /\ job' = [job EXCEPT ![w].reload = IF last THEN 0 ELSE r + 1]
        /\ lapse' = (lapse /\ ~last)
        /\ UNCHANGED <<lockVars, saved, artifact, store, index, own, started, overlapped>>

\* The call fails: the replicas that follow in the list are not told.
ReloadFails(w) ==
    /\ Go(w, "reload", "save")
    /\ job' = [job EXCEPT ![w].reload = 0]
    /\ UNCHANGED <<lockVars, saved, registry, history>>

Save(w) ==
    /\ Go(w, "save", "release")
    /\ saved' = job[w].since
    /\ own' = [own EXCEPT ![w] = job[w].since]
    /\ UNCHANGED <<lockVars, job, registry, started, overlapped, lapse>>

Unlock(w) ==
    /\ Release(w)
    /\ Go(w, "release", "sleep")
    /\ job' = [job EXCEPT ![w] = NoJob]
    /\ UNCHANGED <<saved, registry, history>>

----------------------------------------------------------------------------
\* The worker dies; its container starts it again.
CrashWorker(w) ==
    /\ Crash(w)
    /\ pc' = [pc EXCEPT ![w] = "sleep"]
    /\ job' = [job EXCEPT ![w] = NoJob]
    /\ UNCHANGED <<saved, registry, history>>

\* A replica restarts and loads what the pointer names.
RestartReplica(r) ==
    /\ \E m \in Resolved : serving' = [serving EXCEPT ![r] = m]
    /\ UNCHANGED <<lockVars, pc, job, saved, artifact, store, index, history>>

LockAges == GoStale /\ UNCHANGED loopVars

Tick ==
    /\ saved' = Older(saved)
    /\ job' = [w \in Procs |-> [job[w] EXCEPT !.since = Older(@)]]
    /\ own' = [w \in Procs |-> Older(own[w])]
    /\ started' = Older(started)
    /\ UNCHANGED <<lockVars, pc, registry, overlapped, lapse>>

RetrainStep(w) ==
    \/ Train(w) \/ Fail(w) \/ HashArtifact(w) \/ RegisterLoad(w)
    \/ CopyArtifact(w) \/ RegisterSave(w)

PromoteStep(w) ==
    \/ ReadIncumbent(w) \/ Judge(w) \/ PromoteLoad(w) \/ Promote(w)
    \/ Reload(w) \/ ReloadFails(w)

Cycle(w) ==
    \/ Locking(w) \/ LockLost(w) \/ LockTaken(w)
    \/ RetrainStep(w) \/ PromoteStep(w) \/ Save(w) \/ Unlock(w)

Next ==
    \/ \E w \in Procs, fired \in BOOLEAN : Poll(w, fired)
    \/ \E w \in Procs : Cycle(w) \/ CrashWorker(w)
    \/ \E r \in 1 .. Replicas : RestartReplica(r)
    \/ LockAges
    \/ Tick

Spec == Init /\ [][Next]_vars

(* Each worker polls forever and its cycle ends; time passes.  Nothing     *)
(* makes the volume or the drift rule fire.                                *)
Fairness ==
    /\ \A w \in Procs : WF_vars(Poll(w, FALSE) \/ Cycle(w))
    /\ WF_vars(LockAges) /\ WF_vars(Tick)

LiveSpec == Spec /\ Fairness

----------------------------------------------------------------------------
(* Properties                                                              *)

TypeOK ==
    /\ pc \in [Procs -> LoopStep]
    /\ job \in [Procs -> Job]
    /\ saved \in Ages
    /\ artifact \in Artifacts
    /\ store \in [Versions -> Artifacts]
    /\ index \in Index
    /\ serving \in [1 .. Replicas -> Artifacts]
    /\ own \in [Procs -> Ages]
    /\ started \in Ages
    /\ overlapped \in BOOLEAN
    /\ lapse \in BOOLEAN

\* Every way into a cycle takes the lock and every way out of it, a failure or an
\* exception at any step, gives it back: a worker that sleeps never holds it.
Inside == LoopStep \ {"sleep", "lock"}

LockHeldInside == \A w \in Procs : pc[w] \in Inside <=> at[w] = "held"

\* Until two retrains have overlapped, no retrain sees the artifact of another at the
\* shared path: a candidate is what its own worker trained, and every file of the
\* registry holds the contents its name promises.
CandidateIsOwn ==
    ~overlapped =>
        /\ \A w \in Procs : job[w].candidate \in {NoVersion, job[w].trained}
        /\ \A v \in Versions : store[v] \in {NoVersion, v}

\* Until two retrains have overlapped, the pointer names a registered version that has
\* its file, and no registration or promotion is lost from the index.
IndexComplete ==
    ~overlapped =>
        /\ index.current \in index.versions \/ index = EmptyIndex
        /\ \A v \in index.versions : store[v] # NoVersion
        /\ \A w \in Procs : pc[w] \in {"copy", "register", "promote"} => job[w].idx = index

\* Until two retrains have overlapped, the version a promotion replaces is the
\* one the candidate was judged against; only the first version ever has none.
JudgedAgainstReplaced ==
    ~overlapped =>
        \A w \in Procs : pc[w] \in {"judge", "promoteLoad", "promote"} =>
            \/ index.current = job[w].incumbent
            \/ index = [versions |-> {job[w].candidate}, current |-> job[w].candidate]

\* Until two retrains have overlapped, a worker, across its crashes and restarts, does
\* not start to retrain within the cooldown of a retrain it has saved.
OwnCooldown ==
    [][\A w \in Procs :
          ~overlapped /\ pc[w] = "lock" /\ pc'[w] = "train" => own[w] >= Cooldown]_vars

\* Once a promotion has told every replica, all of them serve what the pointer
\* names, and replicas that restart in the meantime do too.
ReplicasFollow ==
    ~overlapped /\ ~lapse /\ index.current # NoVersion =>
        \A r \in 1 .. Replicas : serving[r] \in Resolved

\* Whatever crashes and whatever fails, the loop keeps retraining: the schedule
\* rule is a heartbeat, and no crash leaves the lock held for ever.
Heartbeat == []<>(\E w \in Procs : pc[w] = "train")

\* triggers.py, docs/PHASE5D_TRIGGERS.md: never retrain more often than the
\* cooldown; the first retrain of a deployment is the only one that skips it.
CooldownKept ==
    [][\A w \in Procs :
          pc[w] = "lock" /\ pc'[w] = "train" => started >= Cooldown \/ saved = Never]_vars

=============================================================================
