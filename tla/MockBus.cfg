\* Two servers under one key, one subscription closed while two Emits run.
SPECIFICATION FairSpec
CONSTANTS
    sa = sa
    c1 = c1
    Servers = {v1, v2}
    Services = {c1}
    Subs = {sa}
    OwnerOf <- MCOwner
    Closers = {k1}
    Closing <- MCClosing
    Emits = {e1, e2}
    Depth = 1
    None = None
INVARIANTS
    ClosedOnce
    LaterEmitsQuiet
    BoundIsLive
PROPERTIES
    EmitReturns
CHECK_DEADLOCK FALSE
