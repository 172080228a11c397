SPECIFICATION FairSpec
CONSTANTS
    Workers = {w1, w2}
    Closers = {c1}
    MaxDials = 2
    DialRetries = 2
    MaxMisses = 2
    MaxSessions = 1
    NoOne = NoOne
CHECK_DEADLOCK FALSE
PROPERTIES DroppedIsRetried
