SPECIFICATION FairSpec
CONSTANTS
    p1 = p1
    MaxTweets = 2
    PageSize = 1
    MaxNew = 1
    MaxAttempts = 2
    Cooldown = 1
    Presses <- MCPresses
    MaxInputs = 3
INVARIANTS TargetInv CursorPassesOnlyKept
PROPERTIES OpenIsHandled
CHECK_DEADLOCK FALSE
