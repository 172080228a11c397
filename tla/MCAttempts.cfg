\* One execution, two workers with a session each, one reconciler; the first
\* session's connection may be lost, the reconciler's is not.
SPECIFICATION FairSpec
CONSTANTS
    w1 = w1
    w2 = w2
    s1 = s1
    s2 = s2
    r1 = r1
    r2 = r2
    Free = Free
    Execs = {1}
    Workers = {w1, w2}
    Sessions = {s1, s2}
    WorkerOf <- TwoWorkers
    Reconcilers = {r1}
    Leases = {2}
    Outcomes = {"succeeded", "failed"}
    Crashable = {s1}
    MaxAttempts = 2
    MaxClock = 3
INVARIANTS
    NoImplicitRetry
    OutcomesSettled
    LeaseFencesOutcome
    LockOrder
PROPERTIES
    TerminalImmutable
    ReconciliationSettles
