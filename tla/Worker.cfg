SPECIFICATION Spec
SYMMETRY Interchangeable
CONSTRAINT BeforeOverlap
CONSTANTS
    Procs = {w1, w2}
    NoFile = NoFile
    MaxCrashes = 1
    MaxLongRuns = 0
    Replicas = 2
    Versions = {v1, v2}
    NoVersion = NoVersion
    Cooldown = 1
    Schedule = 2
INVARIANTS LockHeldInside CandidateIsOwn IndexComplete JudgedAgainstReplaced ReplicasFollow
PROPERTY OwnCooldown
