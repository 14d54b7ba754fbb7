SPECIFICATION FairSpec
CONSTANTS
    l1 = l1
    u1 = u1
    w1 = w1
    None = None
    Locked <- MCLocked
    Unlocked <- MCUnlocked
    Writebacks <- MCWritebacks
    StaleAfter = 2
    Patience = 1
    MaxCrashes = 2
    MaxStalls = 1
INVARIANT MutualExclusion
PROPERTIES Implements CallsEnd
CHECK_DEADLOCK FALSE
