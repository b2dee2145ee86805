\* A torn down connect may settle after the reconnect backoff.
CONSTANTS
    ClientBound = 3
    BreakageBound = 2
    MaxBackoff = 1
    LateSettle = TRUE
SPECIFICATION ListenerSpec
INVARIANT SingleRelay
