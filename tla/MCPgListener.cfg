\* A torn down connect settles before the reconnect backoff elapses.
CONSTANTS
    ClientBound = 5
    BreakageBound = 4
    MaxBackoff = 2
    LateSettle = FALSE
SPECIFICATION FairListenerSpec
INVARIANTS
    SingleClient
    NeverStuck
    QuietAfterStop
PROPERTIES
    MissedIsCaughtUp
