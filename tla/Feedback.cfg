SPECIFICATION LiveSpec
CONSTANTS
    Records = {e1, e2}
    SameRequest = {e1, e2}
    SameName = {e1, e2}
    Foreign = {m1}
    Poison = {p1}
    Capacity = 1
    Mergers = {worker, script}
    Worker = worker
    Base = base
    MaxRecords = 2
    MaxCrashes = 1
    MaxScripts = 1
INVARIANTS MergedOnce WatermarkNeverAhead
PROPERTIES VolumeKeepsCount CrashFree EveryDeliveredIsMerged
