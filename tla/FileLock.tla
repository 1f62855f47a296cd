------------------------------ MODULE FileLock ------------------------------
(***************************************************************************)
(* The advisory lock of the retraining loop                                *)
(* (services/automl_service/filelock.py).  The lock is a file created with *)
(* O_CREAT | O_EXCL; one that is older than stale_after_s is unlinked by   *)
(* whoever finds it and created anew.  Every step below is one call on the *)
(* file system: nothing makes the test of the age, the unlink and the      *)
(* second create atomic.  A process may crash between any two of them and  *)
(* starts again at the top of its loop; the file survives the crash.       *)
(***************************************************************************)
EXTENDS Naturals, FiniteSets

CONSTANTS
    Procs,         \* the processes that retrain
    NoFile,        \* the value of file when there is none
    MaxCrashes,    \* bound: how many processes crash
    MaxLongRuns    \* bound: how often a running retrain outlives stale_after_s

ASSUME LockAssumption ==
    /\ IsFiniteSet(Procs)
    /\ \A p \in Procs : [by |-> p, stale |-> TRUE] # NoFile
    /\ \A p \in Procs : [by |-> p, stale |-> FALSE] # NoFile
    /\ MaxCrashes \in Nat /\ MaxLongRuns \in Nat

VARIABLES
    file,        \* the lock file: who created it, and is its mtime too old
    at,          \* where each process is in acquire() or release()
    reclaims,    \* history: how many lock files were unlinked as stale
    crashes,     \* how many processes have crashed
    longRuns     \* how often a lock went stale under a running holder

lockVars == <<file, at, reclaims, crashes, longRuns>>

\* "exists": the create found a file; "reclaim": it is stale; "recreate": it has
\* been unlinked; "held": between acquire() and release().
Place == {"free", "exists", "reclaim", "recreate", "held"}

LockInit ==
    /\ file = NoFile
    /\ at = [p \in Procs |-> "free"]
    /\ reclaims = 0
    /\ crashes = 0
    /\ longRuns = 0

Move(p, from, to) ==
    /\ at[p] = from
    /\ at' = [at EXCEPT ![p] = to]

----------------------------------------------------------------------------
(* acquire()                                                               *)

\* Seeded fault: the file is opened without O_EXCL.
CreateShared(p, from) ==
    /\ Move(p, from, "held")
    /\ file' = [by |-> p, stale |-> FALSE]
    /\ UNCHANGED <<reclaims, crashes, longRuns>>

\* os.open(O_CREAT | O_EXCL) succeeds: the holder is written and acquire()
\* returns.
Create(p, from) ==
    /\ file = NoFile
    /\ Move(p, from, "held")
    /\ file' = [by |-> p, stale |-> FALSE]
    /\ UNCHANGED <<reclaims, crashes, longRuns>>

FirstCreate(p) == Create(p, "free")

FindExisting(p) ==
    /\ file # NoFile
    /\ Move(p, "free", "exists")
    /\ UNCHANGED <<file, reclaims, crashes, longRuns>>

\* Seeded fault: the age is never found to be past stale_after_s.
IsStaleNever == FALSE

IsStale == file # NoFile /\ file.stale

FindStale(p) ==
    /\ IsStale
    /\ Move(p, "exists", "reclaim")
    /\ UNCHANGED <<file, reclaims, crashes, longRuns>>

\* A fresh file, and one that is gone by now: LockBusy.
FindBusy(p) ==
    /\ ~IsStale
    /\ Move(p, "exists", "free")
    /\ UNCHANGED <<file, reclaims, crashes, longRuns>>

\* path.unlink(): whatever file has the name by now is removed.
Unlink(p) ==
    /\ Move(p, "reclaim", "recreate")
    /\ file' = NoFile
    /\ reclaims' = IF file = NoFile THEN reclaims ELSE reclaims + 1
    /\ UNCHANGED <<crashes, longRuns>>

SecondCreate(p) == Create(p, "recreate")

\* The second create has no handler: FileExistsError reaches the caller.
SecondCreateFails(p) ==
    /\ file # NoFile
    /\ Move(p, "recreate", "free")
    /\ UNCHANGED <<file, reclaims, crashes, longRuns>>

----------------------------------------------------------------------------
\* release() unlinks the path, whoever created the file that is there.
Release(p) ==
    /\ Move(p, "held", "free")
    /\ file' = NoFile
    /\ UNCHANGED <<reclaims, crashes, longRuns>>

\* The process dies and is started again.
Crash(p) ==
    /\ crashes < MaxCrashes
    /\ at' = [at EXCEPT ![p] = "free"]
    /\ crashes' = crashes + 1
    /\ UNCHANGED <<file, reclaims, longRuns>>

\* stale_after_s passes since the file was created.
GoStale ==
    /\ file # NoFile /\ ~file.stale
    /\ file' = [file EXCEPT !.stale = TRUE]
    /\ IF at[file.by] = "held"
       THEN longRuns < MaxLongRuns /\ longRuns' = longRuns + 1
       ELSE UNCHANGED longRuns
    /\ UNCHANGED <<at, reclaims, crashes>>

AcquireStep(p) ==
    \/ FirstCreate(p) \/ FindExisting(p) \/ FindStale(p) \/ FindBusy(p)
    \/ Unlink(p) \/ SecondCreate(p) \/ SecondCreateFails(p)

LockNext ==
    \/ \E p \in Procs : AcquireStep(p) \/ Release(p) \/ Crash(p)
    \/ GoStale

LockSpec == LockInit /\ [][LockNext]_lockVars

(* The loop of every process polls forever, a retrain ends, and time       *)
(* passes.                                                                 *)
LockFairness ==
    /\ \A p \in Procs : WF_lockVars(AcquireStep(p)) /\ WF_lockVars(Release(p))
    /\ WF_lockVars(GoStale)

LiveLockSpec == LockSpec /\ LockFairness

----------------------------------------------------------------------------
(* Properties                                                              *)

Holders == {p \in Procs : at[p] = "held"}

LockTypeOK ==
    /\ file \in [by : Procs, stale : BOOLEAN] \cup {NoFile}
    /\ at \in [Procs -> Place]
    /\ reclaims \in Nat
    /\ crashes \in 0 .. MaxCrashes
    /\ longRuns \in 0 .. MaxLongRuns

\* As long as no lock file has been reclaimed, one process retrains at a time,
\* whatever crashes; and every reclaim lets in at most one process more, although
\* a displaced holder's release() removes the lock of its successor.
OverlapNeedsReclaim == Cardinality(Holders) <= 1 + reclaims

\* Until a reclaim, a holder's lock file is its own and is there.
HolderOwnsFile ==
    reclaims = 0 => \A p \in Holders : file # NoFile /\ file.by = p

\* A crashed holder cannot wedge the loop: the lock is taken again and again.
NeverWedged == []<>(Holders # {})

\* filelock.py: only one retrain may run at a time, with a reclaim of stale locks.
SingleFlight == Cardinality(Holders) <= 1

=============================================================================
