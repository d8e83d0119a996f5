SPECIFICATION MCSpec
CONSTANTS
    v0 = v0
    v1 = v1
    empty = empty
    NoProfile = empty
    Profiles <- MCProfiles
    StandardShot <- MCStandard
    StoredProfiles <- MCStored
    MaxProfiles = 1
    Temps = {1, 2}
    BrewTemp = 1
    Values = {v0, v1}
    Initial = v0
    Offered <- AllCommands
    QueueDepth = 2
    SleepTimeout = 2
    MaxVolume = 1
INVARIANTS
    TypeOK
    OperationServesState
    ActuatorsFollowOperation
    SetpointFollowsState
    SavesWaitForIdle
    LatestSaveInEffect
PROPERTIES
    KeepsContract
    SleepsOnlyWhenQuiet
