SPECIFICATION Spec
CONSTANTS
    Threads = {t1, t2}
    Threshold = 2
    Window = 2
    Reset = 2
INVARIANT SingleTrial
