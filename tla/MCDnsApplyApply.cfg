\* Two zones, every plan class among their rrsets, two foreign edits, four runs.
SPECIFICATION Spec
CONSTANTS
    Names <- MCNames
    ValidationNames <- MCValidationNames
    Values <- MCValues
    IPMap <- MCIPMap
    Zones = {1, 2}
    SourceZones <- MCSource
    DestZones <- MCDest
    ForeignRecs <- MCForeign
    MaxEdits = 2
    MaxRuns = 4
    Missing = Missing
PROPERTIES
    BackupIsPreImage
    OnlyReviewedRemoved
    CnameStaysAlone
    AppliedIsCertified
    UndoSound
CHECK_DEADLOCK FALSE
