SPECIFICATION LiveSpec
CONSTANTS
    Threads = {t1, t2, t3}
    Threshold = 3
    Window = 3
    Reset = 2
INVARIANTS OpeningHolds ClosedCountsWindow
PROPERTIES OpensOnEvidence Recovers
