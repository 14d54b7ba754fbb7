SPECIFICATION MCSpec
CONSTANTS
    NoName = NoName
    Ids <- MCIds
    MaxEntries = 2
    MaxChanges = 1
    MaxChecks = 1
    MaxEvents = 1
INVARIANTS FilesInv FinishedStays VerdictIsFair
CHECK_DEADLOCK FALSE
