SPECIFICATION BenchSpec
CONSTANTS
    Commands <- TwoButtons
    DebounceSamples = 3
    QueueDepth = 2
    RateEdges = 2
    FifoDepth = 2
    Timeout = 2
    Latency = 1
    MaxEdges = 5
    Full = 2
    Every = 2
    TickWrap = 3
    Depth = 2
    StepProfiles <- ShortProfiles
    StepSafety = 4
    MaxPumpRun = 3
    MaxHotWater = 5
    SteamLimit = 2
    VolumePoll = 2
    TempPoll = 1
    MaxFlow = 1
    Delay = 1
INVARIANTS
    ButtonsTypeOK
    FlowTypeOK
    RateFromFreshFlow
    WindowHoldsLatest
    VolumeCountsEdges
    PowerTypeOK
    StaleWordsRunOut
    HeaterSpendsDuty
    EndsOnTime
    DoseRespected
PROPERTIES
    CommandsApart
    HeldIsHeard
    HeaterFailsSafe
