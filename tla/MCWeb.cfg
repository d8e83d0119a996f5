SPECIFICATION WebSpec
CONSTANTS
    Tasks = {"http1", "http2"}
    Requests <- MCRequests
    NoRequest = NoRequest
    BufLen = 4
    WordSize = 8
    QueueDepth = 1
    Streams <- MCStreams
    Texts <- MCTexts
    LineMax = 2
    ReadMax = 3
    MaxTicks = 2
INVARIANTS
    HttpTypeOK
    AnswersDeserved
    ErrorsHaveNoEffect
    LinesReassembled
    FramesAdvance
PROPERTIES
    ServersReturn
