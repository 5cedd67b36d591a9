\* What docs and requirements say of the daemon and the code does not keep.
\* Run with -continue: each invariant is violated.
SPECIFICATION Spec
CONSTANTS
    k1 = k1
    v1 = v1
    Keys = {k1}
    ServiceOf <- MCServiceOf
    Any = Any
    MaxTTL = 1
    MaxAgo = 0
    None = None
    Offers = {o1, o2}
    KeyOf <- MCKeyOf
    Addressed = {}
    Requests = {r1}
    TTL = 1
INVARIANTS
    NoPanic
    AllStopped
    Reachable
PROPERTIES
    ReplacedIsStopped
CHECK_DEADLOCK FALSE
