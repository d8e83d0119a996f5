SPECIFICATION VersionSpec
CONSTANTS
    empty = empty
    NoProfile = empty
    Profiles <- MCProfiles
    StandardShot <- Shot
    StoredProfiles <- MCStored
    MaxProfiles = 1
    Temps = {1}
    BrewTemp = 1
    Values = {0, 1, 2, 3}
    Initial = 0
    Offered <- Versions
    QueueDepth = 2
    SleepTimeout = 1
    MaxVolume = 0
    MaxFailures = 1
    MaxOutages = 1
INVARIANTS
    FlashNeverAhead
    GainsStoredTogether
PROPERTIES
    NoStaleWrite
