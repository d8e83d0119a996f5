SPECIFICATION CrewSpec
CONSTANTS
    v0 = v0
    empty = empty
    NoProfile = empty
    Profiles <- MCProfiles
    StandardShot <- MCStandard
    StoredProfiles <- MCStored
    MaxProfiles = 1
    Temps = {1, 2}
    BrewTemp = 1
    Values = {v0}
    Initial = v0
    Offered <- AllCommands
    QueueDepth = 2
    SleepTimeout = 1
    MaxVolume = 0
PROPERTIES
    NoInheritedWindup
