SPECIFICATION StoreSpec
CONSTANTS
    empty = empty
    NoProfile = empty
    Profiles <- MCProfiles
    StandardShot <- Shot
    StoredProfiles <- MCStored
    MaxProfiles = 1
    Temps = {1}
    BrewTemp = 1
    Values = {0, 1}
    Initial = 0
    Offered <- MachineForm
    QueueDepth = 1
    SleepTimeout = 1
    MaxVolume = 0
    MaxFailures = 0
    MaxOutages = 0
PROPERTIES
    NoWriteWhileBusy
