SPECIFICATION WebSpec
CONSTANTS
    Tasks = {"http1", "http2"}
    Requests <- GoodPosts
    NoRequest = NoRequest
    BufLen = 4
    WordSize = 8
    QueueDepth = 1
    Streams <- MCStreams
    Texts <- MCTexts
    LineMax = 2
    ReadMax = 3
    MaxTicks = 2
INVARIANTS
    AnsweredMeansQueued
