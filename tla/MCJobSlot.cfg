SPECIFICATION SlotFairSpec
CONSTANTS
    q1 = q1
    q2 = q2
    q3 = q3
    Nobody = Nobody
    Requests = {q1, q2, q3}
    Offered <- MCOffered
    Found = {"absent", "ready"}
INVARIANTS
    SlotOwned
    JournalMatchesSlot
    OrchestratorGated
PROPERTIES
    ViewRunningIsLive
    EveryRequestEnds
