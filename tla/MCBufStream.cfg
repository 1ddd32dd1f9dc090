CONSTANTS
    Radix = 2
    target_endian = "le"
    UsizeMax = 55
    IsizeMax = 27
    Growth = 3
    LEN = 2
    MaxPuts = 2
    MaxIoSlices = 4
    Sinks <- MCSinks
    Sources <- MCSources
    Counts <- MCCounts
    NBytes <- MCNBytes
    Slices <- MCSlices
    Samples <- MCSamples
    LaterPuts <- MCLaterPuts
SPECIFICATION Spec
CHECK_DEADLOCK FALSE
INVARIANTS
    ChunkContract
    VectoredIsPrefix
    WhatIsPutIsGot
    WritesWhatItAdvances
PROPERTIES
    RefinesFlat
