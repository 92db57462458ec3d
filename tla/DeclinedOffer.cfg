\* Endpoints that nobody configured.
CONSTANTS
    ServerSettings <- Defaults
    ClientSettings <- Defaults
    Requests <- MCRequests
    Subprotocols = {"p", "q"}
SPECIFICATION Spec
PROPERTY DeclinedOffersLeaveNothing
CHECK_DEADLOCK FALSE
