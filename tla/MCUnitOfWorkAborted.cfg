\* One save per service; a statement of a transaction may fail and be logged only.
CONSTANTS
    Wired = {w1, w2}
    Bare = {b1}
    SaveBound = 1
    TxBound = 2
    DepthBound = 3
SPECIFICATION Spec
CHECK_DEADLOCK FALSE
INVARIANTS
    SuccessIsCommitted
