SPECIFICATION Spec
CONSTANTS
    Threads = {t1, t2, t3}
    Conns = {c1, c2, c3, c4, c5}
    NoConn = NoConn
    MinConn = 1
    MaxConn = 2
    MaxBreaks = 0
INVARIANT CreatedWithinCap
SYMMETRY ThreadsAndConns
