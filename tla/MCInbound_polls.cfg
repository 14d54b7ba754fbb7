SPECIFICATION FairSpec
CONSTANTS
    MaxEvents = 3
    PageSize = 2
    MaxAttempts = 2
    SuspendAt = 2
    Cooldown = 2
    MaxCrashes = 1
    MaxStale = 1
INVARIANTS PollInv CursorPassesOnlyStored
PROPERTY CatchesUp
