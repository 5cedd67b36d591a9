\* Datagrams are lost, duplicated and reordered; nobody need read the channel;
\* the subscription may be ended twice.
SPECIFICATION FairSpec
CONSTANTS
    Subs = {s1}
    Services = {v1}
    ServiceOf <- MCOneService
    Events = {e1}
    EventOf <- MCOneEvent
    Depth = 1
    MaxEmits = 2
    MaxStops = 2
    MaxFaults = 1
    Reorders = TRUE
    Closers = {v1}
PROPERTIES
    EndingReturns
    CloseReturns
CHECK_DEADLOCK FALSE
