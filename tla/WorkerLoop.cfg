SPECIFICATION LiveSpec
CONSTANTS
    Procs = {w1, w2}
    NoFile = NoFile
    MaxCrashes = 1
    MaxLongRuns = 1
    Replicas = 1
    Versions = {v1}
    NoVersion = NoVersion
    Cooldown = 1
    Schedule = 2
INVARIANT OverlapNeedsReclaim
PROPERTIES NeverWedged Heartbeat
