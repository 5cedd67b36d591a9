\* What docs and tests say of a closed or a cut connection and the code does not keep.
\* Run with -continue: each property is violated.
SPECIFICATION Spec
CONSTANTS
    Calls = {c1}
    Posts = {}
    NoCall = NoCall
    MaxSession = 2
    Window = 1
    Methods = {m1}
    MethodOf <- MCMethodOf
    Interfaces = {0}
    Severs = TRUE
    Closers = {"service", "server"}
INVARIANTS
    DroppedNotConnected
PROPERTIES
    PendingGetsErrClosed
    NoHandlerAfterClose
CHECK_DEADLOCK FALSE
