SPECIFICATION PowerSpec
CONSTANTS
    Full = 2
    Every = 2
    TickWrap = 3
    Depth = 2
PROPERTIES
    DecisionReachesWater
