\* The counter wraps while a call is in flight.
SPECIFICATION Spec
CONSTANTS
    Calls = {c1, c2}
    Posts = {p1}
    NoCall = NoCall
    MaxSession = 1
    Methods = {m1}
    MethodOf <- MCMethodOf
    MaxJobs = 1
    HandlerCodes = {"OK"}
    Closers = {}
INVARIANTS
    UniqueSessions
CHECK_DEADLOCK FALSE
