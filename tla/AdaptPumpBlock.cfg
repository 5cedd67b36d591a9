\* Block, and an event is lost in front of a full channel.
SPECIFICATION FairSpec
CONSTANTS
    MaxEvents = 5
    Depth = 2
    None = None
INVARIANTS
    BlockLosesNothing
CHECK_DEADLOCK FALSE
