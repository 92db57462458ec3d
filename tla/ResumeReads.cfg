\* One thread runs the io_service, and the application resumes when it likes.
CONSTANTS
    Threading = {TRUE}
    MaxCalls = 2
    MaxReads = 3
SPECIFICATION Spec
INVARIANT OneRead
CHECK_DEADLOCK FALSE
