\* A server or a client, and everything that may be sent to it; every sequence
\* of boundary bytes; requests and responses cut anywhere; two threads that
\* send compressed messages.
CONSTANTS
    Radix = 2
    BasicLimit = 2
    Roles = {TRUE, FALSE}
    MaxMessageSize = 7
    NoMsg = NoMsg
    CutOnly = FALSE
    Frames <- MCFrames
    MaxFrames = 3
    BufferSize = 6
    Octets <- BoundaryBytes
    Heads <- MCHeads
    Trailing = 3
    HttpBufferSize = 7
    max_header_size = 24
    max_body_size = 2
    Streams <- MCStreams
    Hybi00BufferSize = 4
    Threads = {t1, t2}
    NoThread = none
    Messages <- MCMessages
    MaxSends = 2
    Window = 2
    CompressBufferSize = 7
SPECIFICATION ReadingSpec
INVARIANTS
    FramesBounded PeerUnderstood Utf8Agrees HttpRead Hybi00Messages StreamsAgree
    TextReadBack AddressesReadBack
PROPERTY ParsesFrames
CHECK_DEADLOCK FALSE
