\* A call, a duplicated request, overlapping handlers and both Close operations.
SPECIFICATION FairSpec
CONSTANTS
    Calls = {c1}
    Posts = {}
    NoCall = NoCall
    MaxSession = 2
    Methods = {m1}
    MethodOf <- MCMethodOf
    MaxJobs = 2
    Closers = {"service", "server"}
    HandlerCodes = {"OK"}
PROPERTIES
    CloseQuiet
    CloseReturns
    KeepsPromise
CHECK_DEADLOCK FALSE
