CONSTANTS
    Callers = {c1, c2}
    Contents = {"short", "right"}
SPECIFICATION FairBridgeSpec
INVARIANTS
    NoBlockIsLeft
    WorksOnTheBytesGiven
PROPERTIES
    EveryCallSettles
