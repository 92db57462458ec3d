\* A TLS client whose host name is refused.
CONSTANTS
    Configurations <- BadHost
SPECIFICATION Spec
INVARIANT InitCalledOnce
CHECK_DEADLOCK FALSE
