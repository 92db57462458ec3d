\* Two endpoints: both applications may close, with every kind of code and
\* reason; a message, and a message that is too big or a reset; with and without
\* timers.  One endpoint: a mute remote endpoint and hanging writes.
CONSTANTS
    AppCodes = {0, 1000, 1002, 1006}
    AppReasons = {"none", "long_cut"}
    Timers = {TRUE, FALSE}
    MaxCalls = 1
    MaxData = 1
    MaxFaults = 1
    AppThreads = {a1}
    Strand = strand
    NoThread = none
    Senders = {a1}
    Closers = {a1, strand}
    ApiOps = {"data"}
    IsServer = FALSE
    DropOnProtocolError = TRUE
    CloseTimeout = TRUE
    MaxApiCalls = 1
    MaxFrames = 1
SPECIFICATION MCSpec
INVARIANTS WireSound Agreement
PROPERTIES HandshakeEnds ClosingEnds CloseHandlerRuns QueueDrains
CHECK_DEADLOCK FALSE
