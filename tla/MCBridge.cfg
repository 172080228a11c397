SPECIFICATION BridgeFairSpec
CONSTANTS
    Chunks = 3
    Window = 1
    TransferRetries = 4
CHECK_DEADLOCK FALSE
INVARIANTS BatchSound
PROPERTIES BatchEnds
