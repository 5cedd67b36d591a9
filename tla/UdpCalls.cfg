\* Two concurrent calls and a CallNoReturn on the numbers 0 and 1: the counter wraps
\* and two of them share a number. One handler job at a time.
SPECIFICATION Spec
CONSTANTS
    Calls = {c1, c2}
    Posts = {p1}
    NoCall = NoCall
    MaxSession = 1
    Methods = {m1}
    MethodOf <- MCMethodOf
    MaxJobs = 1
    Closers = {}
    HandlerCodes = {"OK"}
SYMMETRY MCSymmetry
INVARIANTS
    SessionMatch
    Correlated
    WaiterReachable
    AnswerWasExecuted
    PostsUnanswered
CHECK_DEADLOCK FALSE
