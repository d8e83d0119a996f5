SPECIFICATION Spec
CONSTANTS
    v0 = v0
    v1 = v1
    empty = empty
    NoProfile = empty
    Profiles <- MCProfiles
    StandardShot <- MCStandard
    StoredProfiles <- MCStored
    MaxProfiles = 1
    Temps = {1, 2}
    BrewTemp = 1
    Values = {v0, v1}
    Initial = v0
    Offered <- LivenessCommands
    QueueDepth = 1
    SleepTimeout = 1
    MaxVolume = 1
PROPERTIES
    KeepsWholeContract
    HeldSaveApplied
