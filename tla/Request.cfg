SPECIFICATION LiveSpec
CONSTANTS
    Threads = {t1, t2}
    Conns = {c1}
    NoConn = NoConn
    Variants = {default, no_hashjoin, no_nestloop}
    Default = default
    NoVariant = NoVariant
    Budget = 2
    Minimum = 1
INVARIANTS SessionIsOwn FeedbackHonest BreakerHears OverrunBounded
PROPERTY RequestsEnd
