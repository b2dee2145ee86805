\* Two people, any of them listed; two overlapping sweep runs.
CONSTANTS
    a = a
    b = b
    s1 = s1
    s2 = s2
    Nobody = Nobody
    People = {a, b}
    Sweeps = {s1, s2}
    BatchSize = 2
SPECIFICATION Spec
CHECK_DEADLOCK FALSE
SYMMETRY AccountSymmetry
INVARIANTS
    CancelIsFinal
    DeletedOnce
PROPERTIES
    LastManagerStays
