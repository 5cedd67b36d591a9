\* Both ends may close and the network may cut the connection. One frame fills it, so that
\* the write of one operation waits until the server has read that of the other.
SPECIFICATION FairSpec
CONSTANTS
    Calls = {c1}
    Posts = {p1}
    NoCall = NoCall
    MaxSession = 2
    Window = 1
    Methods = {m1}
    MethodOf <- MCMethodOf
    Interfaces = {0}
    Severs = TRUE
    Closers = {"service", "server"}
PROPERTIES
    ServerCloseQuiet
    CloseReturns
    ServerDrains
    KeepsPromise
CHECK_DEADLOCK FALSE
