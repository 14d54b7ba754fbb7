SPECIFICATION FairRuns
CONSTANTS
    daily = daily
    request = request
    seeder = seeder
    i1 = i1
    i2 = i2
    i3 = i3
    Callers <- MCCallers
    Guarded <- MCGuarded
    Seeders <- MCSeeders
    Ids <- MCIds
    NoId = NoId
    RepairMaxAttempts = 2
    Ttl = 1
    MaxDrafts = 2
    MaxTime = 1
    MaxRuns = 3
INVARIANT VerdictIsOnCurrentDraft
PROPERTY RunsEnd
CHECK_DEADLOCK FALSE
