\* Two workers, three deliveries of which two disable the endpoint, one fault.
CONSTANTS
    d1 = d1
    d2 = d2
    d3 = d3
    w1 = w1
    w2 = w2
    Deliveries = {d1, d2, d3}
    Workers = {w1, w2}
    ClaimLimit = 2
    MaxAttempts = 1
    MinFailures = 2
    AttemptBound = 2
    FaultBound = 1
SPECIFICATION Spec
CHECK_DEADLOCK FALSE
SYMMETRY Symmetry
INVARIANTS
    NoticesExplained
    DuplicatesNeedFaults
PROPERTIES
    DisabledForCause
    ImplementsQueue
