\* close() on an application thread races terminate() on the strand.
CONSTANTS
    AppThreads = {a1}
    Strand = strand
    NoThread = none
    Senders = {}
    Closers = {a1}
    ApiOps = {"data"}
    IsServer = FALSE
    DropOnProtocolError = FALSE
    CloseTimeout = TRUE
    MaxCalls = 1
    MaxFrames = 1
SPECIFICATION Spec
INVARIANT CloseHandlerAtMostOnce
CHECK_DEADLOCK FALSE
