CONSTANTS
    Handles = {1, 2, 3}
    Blocks = {1, 2}
    InitCap = 3
    MaxCap = 6
    MaxBytes = 2
    MaxCalls = 5
    MAX_VEC_POS = 1
    MIN_ORIGINAL_CAPACITY_WIDTH = 1
    MAX_ORIGINAL_CAPACITY_WIDTH = 3
SPECIFICATION Spec
CHECK_DEADLOCK FALSE
INVARIANTS
    TextIsKept
    WritableIsPrivate
    HandlesMatchAllocation
    ReserveMakesRoom
