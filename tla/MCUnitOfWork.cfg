\* Two services with an outbox, one without; two transactions, the second
\* opened inside the first or after it; runs nested three deep.
CONSTANTS
    Wired = {w1, w2}
    Bare = {b1}
    SaveBound = 2
    TxBound = 2
    DepthBound = 3
SPECIFICATION Spec
CHECK_DEADLOCK FALSE
INVARIANTS
    EventsFollowRows
    FailureRollsBack
    AnswerIsTrue
    NeverFinishedTransaction
    RollbackStaysInside
