\* A call to a server that does not read: its write finds no room and has no deadline.
SPECIFICATION StallSpec
CONSTANTS
    Calls = {c1}
    Posts = {p1}
    NoCall = NoCall
    MaxSession = 2
    Window = 1
    Methods = {m1}
    MethodOf <- MCMethodOf
    Interfaces = {0}
    Severs = FALSE
    Closers = {}
PROPERTIES
    CallReturns
CHECK_DEADLOCK FALSE
