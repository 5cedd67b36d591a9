\* Server.Close while a service stays connected.
SPECIFICATION FairSpec
CONSTANTS
    Calls = {c1}
    Posts = {}
    NoCall = NoCall
    MaxSession = 2
    Window = 1
    Methods = {m1}
    MethodOf <- MCMethodOf
    Interfaces = {0}
    Severs = FALSE
    Closers = {"server"}
PROPERTIES
    ServerCloseReturns
CHECK_DEADLOCK FALSE
