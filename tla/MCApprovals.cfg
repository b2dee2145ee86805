\* Two requests after one another, two deciders, two sweep runs, one fault.
CONSTANTS
    Requests = {"q1", "q2"}
    Subject = "subject"
    Requesters = {"asker"}
    Deciders = {"first", "second"}
    Sweeps = {"s1", "s2"}
    BatchSize = 2
    FaultBound = 1
    Nobody = "nobody"
SPECIFICATION FairSpec
INVARIANTS
    OneEnding
    DeletedStaysClosed
    LeaseIsItsOwners
PROPERTIES
    OverdueExpires
