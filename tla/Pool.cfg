SPECIFICATION LiveSpec
CONSTANTS
    Threads = {t1, t2}
    Conns = {c1, c2, c3}
    NoConn = NoConn
    MinConn = 1
    MaxConn = 1
    MaxBreaks = 2
INVARIANTS TypeOK NoneLost CountedExactly BoundedOvershoot CapWhenQuiet
PROPERTIES CallsReturn LendsExclusively
