SPECIFICATION FairSpec
CONSTANTS
    MaxRequests = 3
    MaxChunks = 2
    WritesFail = TRUE
    NoCommand = NoCommand
INVARIANTS
    TypeOK
    BuffersOutliveTransfers
    CalledOnceWithReply
    ExecsKeepUp
PROPERTIES
    EveryPostAnswered
    FrameReturns
