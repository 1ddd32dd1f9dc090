CONSTANTS
    SHANNONS_PER_CKB = 1000
    WITNESS_LOCK_BYTES = 5269
    MaxCells = 3
    CellLists <- MCCellLists
    Amounts <- MCAmounts
    FeeRates <- MCFeeRates
    ArgsLengths <- MCArgsLengths
    Networks <- MCNetworks
SPECIFICATION Spec
CHECK_DEADLOCK FALSE
INVARIANTS
    BalancedOutputs
    SmallestFirst
    FirstFit
    FailureIsGenuine
    FeePaysForAllButChange
