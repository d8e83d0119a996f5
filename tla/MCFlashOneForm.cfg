SPECIFICATION FormSpec
CONSTANTS
    empty = empty
    NoProfile = empty
    Profiles <- MCProfiles
    StandardShot <- Shot
    StoredProfiles <- MCStored
    MaxProfiles = 1
    Temps = {1}
    BrewTemp = 1
    Values = {0, 1}
    Initial = 0
    Offered <- OneForm
    Forms <- MCForms
    QueueDepth = 1
    SleepTimeout = 1
    MaxVolume = 1
    MaxFailures = 0
    MaxOutages = 1
INVARIANTS
    StoreTypeOK
    FlashMatchesRAM
PROPERTIES
    Persists
