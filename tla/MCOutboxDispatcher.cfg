\* Three commits, two of the wake-ups or drains going wrong, a stop anywhere.
CONSTANTS
    DrainBound = 2
    CommitBound = 3
    FaultBound = 2
    ClaimLimit = 2
SPECIFICATION FairSpec
INVARIANTS
    OneDrain
    NoLongSleepOverWork
    StopWaits
PROPERTIES
    EventuallyDrained
