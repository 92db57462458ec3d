\* Servers and clients with a remote endpoint that may stay mute: every request
\* and response, deferred responses, the timer, every error, and extensions
\* that may be refused.  Servers and clients of different settings, and requests
\* of other clients with up to two offers.
CONSTANTS
    Roles = {TRUE, FALSE}
    OpenTimeout = TRUE
    HasHttpHandler = TRUE
    MayDefer = TRUE
    ProcessorCanDial = TRUE
    Refusals = {TRUE, FALSE}
    MaxReads = 2
    ServerSettings <- MCServers
    ClientSettings <- MCClients
    Requests <- MCRequests
    Subprotocols = {"p", "q"}
SPECIFICATION MCSpec
INVARIANTS RespondsOnce CompressionAgreed SpeaksToItself
PROPERTIES KeepsContract QuietAfterEnd Settles
CHECK_DEADLOCK FALSE
