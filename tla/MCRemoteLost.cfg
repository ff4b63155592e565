SPECIFICATION Spec
CONSTANTS
    MaxRequests = 2
    MaxChunks = 1
    WritesFail = FALSE
    NoCommand = NoCommand
INVARIANT EveryCommandExecuted
