\* A handler goroutine outlives Server.Close.
SPECIFICATION Spec
CONSTANTS
    Calls = {c1}
    Posts = {p1}
    NoCall = NoCall
    MaxSession = 2
    Methods = {m1}
    MethodOf <- MCMethodOf
    MaxJobs = 2
    HandlerCodes = {"OK", "NotOK"}
    Closers = {"server"}
PROPERTIES
    NoHandlerAfterClose
CHECK_DEADLOCK FALSE
