\* Two concurrent calls and a CallNoReturn on the numbers 0 and 1: the counter wraps
\* and two of them share a number. Two frames fill a direction of the connection.
SPECIFICATION Spec
CONSTANTS
    Calls = {c1, c2}
    Posts = {p1}
    NoCall = NoCall
    MaxSession = 1
    Window = 2
    Methods = {m1}
    MethodOf <- MCMethodOf
    Interfaces = {0, 1}
    Severs = FALSE
    Closers = {}
INVARIANTS
    SessionMatch
    Correlated
    RefusedNotRun
CHECK_DEADLOCK FALSE
