SPECIFICATION FairSpec
CONSTANTS
    c1 = c1
    x1 = x1
    Cron = cron
    Handlers = {h1}
    Collectors = {k1}
    Contents = {c1}
    Prefixes = {x1}
    NoPrefix = none
    InitialQueues <- MCStartQueues
    MaxItems = 2
    Day = 1
    MaxTime = 2
    MaxRetries = 1
    MaxRequests = 2
    MaxCrashes = 1
INVARIANTS
    Inv
    CronTweetsAccounted
PROPERTIES
    OnlyStaleWritesRevive
    OnlySkipStrandsSessions
    DueItemsSettle
