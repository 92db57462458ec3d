\* Every configuration of the setup; an application that pauses and resumes at
\* any time; short and long reads and supplies; an application that listens
\* again once the accept loop has ended; a thread that pings.
CONSTANTS
    Configurations <- AllConfigurations
    Threading = {TRUE, FALSE}
    MaxPauses = 5
    MaxReads = 6
    Supplies = {0, 1, 2, 3, 5}
    Lengths = {1, 2, 3}
    MaxSupplies = 3
    MaxBuffers = 2
    Slots = {c1, c2}
    NoSlot = no
    Patient = TRUE
    MaxListens = 2
    MaxConnects = 1
    Pingers = {p1}
    MaxPings = 3
    MaxStrays = 2
SPECIFICATION MCSpec
INVARIANTS
    SetupClean ReadingFollowsCalls BytesAccounted AcceptsOnce
    PongTimeoutJustified
PROPERTIES SetupAnswered ReadsAll AcceptingEnds
CHECK_DEADLOCK FALSE
