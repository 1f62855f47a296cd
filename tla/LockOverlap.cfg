SPECIFICATION LockSpec
CONSTANTS
    Procs = {p1, p2}
    NoFile = NoFile
    MaxCrashes = 1
    MaxLongRuns = 0
INVARIANT SingleFlight
