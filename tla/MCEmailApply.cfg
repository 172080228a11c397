CONSTANTS
    Items = {1, 2, 3, 4, 5, 6, 7}
    Section <- MCSection
    Address <- MCAddress
    Unwritable = {3}
    SourceStates <- MCSourceStates
    DestStates <- MCDestStates
    OwnerEdits <- MCOwnerEdits
    Listings <- MCListings
    MaxEdits = 1
    MaxRuns = 5
    MaxFaults = 1
    Absent = Absent
    Unread = Unread
    ListError = ListError
    Missing = Missing
SPECIFICATION Spec
INVARIANTS RecordsSound CleanMeansMigrated
PROPERTIES OnlyReviewedReplaced KeepsPromise
CHECK_DEADLOCK FALSE
