\* Two workers, two emails, a batch of up to two, any three faults.
CONSTANTS
    Workers = {w1, w2}
    EmailBound = 2
    ChunkSize = 2
    ClaimLimit = 2
    MaxAttempts = 2
    AttemptBound = 3
    FaultBound = 3
SPECIFICATION Spec
CHECK_DEADLOCK FALSE
INVARIANTS
    DuplicatesAreExplained
    SentWasDelivered
    BatchStaysTogether
PROPERTIES
    ImplementsQueue
