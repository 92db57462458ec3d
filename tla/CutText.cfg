\* A fragmented text message that ends inside a character.
CONSTANTS
    Radix = 2
    BasicLimit = 2
    Roles = {TRUE}
    MaxMessageSize = 7
    NoMsg = NoMsg
    CutOnly = TRUE
    Frames <- MCFrames
    MaxFrames = 2
    BufferSize = 5
SPECIFICATION Spec
INVARIANT TextIsUtf8
CHECK_DEADLOCK FALSE
