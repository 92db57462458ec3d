\* A queue of two prices, data messages of up to two, and every count the server
\* may ask for; numbers, requests and data messages at the edges of their
\* lengths.
CONSTANTS
    Capacity = 2
    MaxTicks = 2
    Acks = {0, 1, 2, 3}
    MaxCounter = 3
    Radix = 32
    sizeArray = 3
    Inputs <- MCInputs
SPECIFICATION MCSpec
INVARIANTS OrderKept AcksOnTime MessagesRead
PROPERTY SentWhileTicksCome
CHECK_DEADLOCK FALSE
