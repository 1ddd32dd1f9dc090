CONSTANTS
    Commands = {p1, p2}
    Amounts = {3, 4}
    FundingCells = {4, 5}
    Fee = 1
    MinCapacity = 2
SPECIFICATION Spec
CHECK_DEADLOCK FALSE
INVARIANT
    BalanceShowsTheTransfer
