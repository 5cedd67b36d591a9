\* Five events through channels of depth two, under each of the three policies.
SPECIFICATION FairSpec
CONSTANTS
    MaxEvents = 5
    Depth = 2
    None = None
INVARIANTS
    NewestKept
PROPERTIES
    KeepsStream
    PumpMovesOn
CHECK_DEADLOCK FALSE
