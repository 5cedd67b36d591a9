\* What docs and tests say of subscriptions and the code does not keep.
\* Run with -continue: each invariant is violated.
SPECIFICATION Spec
CONSTANTS
    Subs = {s1, s2}
    Services = {v1}
    ServiceOf <- MCOneService
    Events = {e1}
    EventOf <- MCOneEvent
    Depth = 1
    MaxEmits = 0
    MaxStops = 1
    MaxFaults = 0
    Reorders = FALSE
    Closers = {v1}
INVARIANTS
    LiveMeansRegistered
    GoneMeansUnregistered
    RegisteredBeforeReturn
    CloseClosesChannels
CHECK_DEADLOCK FALSE
