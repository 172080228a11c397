CONSTANTS
    Names = {1, 2, 3}
    Rests = {"a", "b"}
    SourceTabs <- MCSourceTabs
    DestTabs <- MCDestTabs
    OwnerLines <- MCOwnerLines
    MaxEdits = 2
    MaxRuns = 4
    MaxFaults = 1
    Missing = Missing
SPECIFICATION Spec
INVARIANTS CrontabSound
PROPERTIES OwnerLinesKept
CHECK_DEADLOCK FALSE
