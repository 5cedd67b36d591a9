\* What docs and requirements say of the bus and the code does not keep.
\* Run with -continue: each invariant is violated.
SPECIFICATION Spec
CONSTANTS
    sa = sa
    c1 = c1
    Servers = {v1, v2}
    Services = {c1}
    Subs = {sa}
    OwnerOf <- MCOwner
    Closers = {k1}
    Closing <- MCClosing
    Emits = {e1}
    Depth = 1
    None = None
INVARIANTS
    NoSendOnClosed
    RegisteredRoutes
    ServiceCloseShuts
CHECK_DEADLOCK FALSE
