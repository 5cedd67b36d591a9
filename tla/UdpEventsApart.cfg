\* One subscription each of two services, on a perfect network.
SPECIFICATION Spec
CONSTANTS
    Subs = {s1, s2}
    Services = {v1, v2}
    ServiceOf <- MCOwnService
    Events = {e1}
    EventOf <- MCOneEvent
    Depth = 1
    MaxEmits = 1
    MaxStops = 1
    MaxFaults = 0
    Reorders = FALSE
    Closers = {"server"}
INVARIANTS
    LiveMeansRegistered
CHECK_DEADLOCK FALSE
