\* Endpoints that nobody configured.
CONSTANTS
    ServerSettings <- Defaults
    ClientSettings <- Defaults
    Requests <- MCRequests
    Subprotocols = {"p", "q"}
SPECIFICATION Spec
INVARIANT SubprotocolKnown
CHECK_DEADLOCK FALSE
