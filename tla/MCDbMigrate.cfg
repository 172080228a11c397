\* Eight inventories, both tiers, one write to the live source, two attempts
\* per dump, two runs.
SPECIFICATION Spec
CONSTANTS
    Registry = Registry
    NoPrefix = NoPrefix
    Unknown = Unknown
    Nobody = Nobody
    NoPass = NoPass
    NoDB = NoDB
    NoOne = NoOne
    MaxName = 2
    Inventories <- MCInventories
    Tables = {"t"}
    Objects = {"v"}
    Rows <- MCRows
    Coll <- MCColl
    Data <- MCData
    Body <- MCBody
    InitialSource <- MCSource
    Writes <- MCWrites
    Generated <- MCGenerated
    OldDest <- MCOldDest
    TransferRetries = 2
    MaxWrites = 1
    MaxRuns = 2
INVARIANTS
    CleanRun
PROPERTIES
    ImportsUndisturbed
CHECK_DEADLOCK FALSE
