CONSTANTS
    Threads = {t1, t2}
    Handles = {1, 2, 3}
    Cap = 3
    UsizeMax = 7
SPECIFICATION Spec
SYMMETRY Symmetry
INVARIANTS
    NothingDangles
    CountIsExact
    CapacityIsRemembered
    NothingLeaks
    TryIntoMutReuses
