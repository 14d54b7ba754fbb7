SPECIFICATION FairSpec
CONSTANTS
    m1 = m1
    m2 = m2
    m3 = m3
    thread = thread
    cancelSchedule = cancelSchedule
    listSchedule = listSchedule
    None = None
    Messages <- MCMessages
    Keys <- MCKeys
    KeyOf <- MCKeyOf
    Calls <- MCCalls
    Destructive <- MCDestructive
    AlwaysConfirmed <- MCDestructive
    Display <- MCDisplay
    MaxQueued = 1
    Ttl = 1
    ExpiredTtl = 1
    MaxTime = 1
    MaxCrashes = 1
INVARIANTS TurnInv ExecutedOncePerPrompt
PROPERTIES LockSpec RefusedOnlyWhenFull RecordLivesAsLongAsTurn EveryMessageSettles
CHECK_DEADLOCK FALSE
