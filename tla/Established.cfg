\* Two application threads send, handlers close, and so does the remote end.
CONSTANTS
    AppThreads = {a1, a2}
    Strand = strand
    NoThread = none
    Senders = {a1, a2, strand}
    Closers = {strand}
    ApiOps = {"data"}
    IsServer = TRUE
    DropOnProtocolError = FALSE
    CloseTimeout = TRUE
    MaxCalls = 1
    MaxFrames = 2
SYMMETRY AppSymmetry
SPECIFICATION Spec
INVARIANTS TypeOK OneWrite NoLostWakeup InOrder NothingAfterTerminal CloseHandlerOnce
PROPERTIES StateForward
CHECK_DEADLOCK FALSE
