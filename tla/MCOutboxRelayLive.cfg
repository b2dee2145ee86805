\* Once the faults cease every event is dispatched, one of the two processes having no subscriber for it.
CONSTANTS
    e1 = e1
    e2 = e2
    r1 = r1
    r2 = r2
    h1 = h1
    h2 = h2
    Null = Null
    Events = {e1}
    Relays = {r1, r2}
    Handlers = {h1}
    Subscribed <- MixedHandlers
    ClaimLimit = 2
    Concurrency = 2
    MaxAttempts = 1
    Lease = 2
    RetryCap = 1
    DeadRetry = 3
    FaultBound = 2
    StopBound = 1
SPECIFICATION FairSpec
INVARIANTS
    DispatchedImpliesHandled
PROPERTIES
    EventuallyDispatched
