CONSTANTS
    timeoutMs = 5
    intervalMs = 2
    MaxLatency = 2
    MaxJitter = 1
    RawStatuses <- MCRawStatuses
    NodeSteps <- MCNodeSteps
    AcceptedStatuses <- MCAcceptedStatuses
SPECIFICATION FairSpec
CHECK_DEADLOCK FALSE
INVARIANTS
    StableAcceptanceIsSeen
    OverrunIsBounded
    AttemptsAreSpaced
PROPERTIES
    WaitEnds
