CONSTANTS
    Cells = {1, 2, 3}
    limit = 2
    MaxHeight = 2
    MaxRollbacks = 1
    capacity <- MCCapacity
    minCapacities <- MCMinCapacities
SPECIFICATION WaitSpec
CHECK_DEADLOCK FALSE
INVARIANTS
    DuplicateOnlyByRollback
    CollectsTheStableCells
    AnswerMeansFunds
PROPERTIES
    FundingEndsTheWait
