\* Two relays race for one event and its death notice; every fault is possible.
CONSTANTS
    e1 = e1
    e2 = e2
    r1 = r1
    r2 = r2
    h1 = h1
    h2 = h2
    Null = Null
    Events = {e1}
    Relays = {r1, r2}
    Handlers = {h1, h2}
    Subscribed <- SameHandlers
    ClaimLimit = 2
    Concurrency = 1
    MaxAttempts = 2
    Lease = 2
    RetryCap = 1
    DeadRetry = 3
    FaultBound = 3
    StopBound = 2
SPECIFICATION Spec
SYMMETRY RelaySymmetry
INVARIANTS
    Fencing
    LeaseHonoured
    SnapshotFresh
    DispatchedImpliesHandled
    DeployBurnsNothing
PROPERTIES
    ImplementsQueue
