\* Two subscriptions of one service to one event share the address and svc.mu.
SPECIFICATION Spec
CONSTANTS
    Subs = {s1, s2}
    Services = {v1}
    ServiceOf <- MCOneService
    Events = {e1}
    EventOf <- MCOneEvent
    Depth = 1
    MaxEmits = 2
    MaxStops = 1
    MaxFaults = 0
    Reorders = FALSE
    Closers = {v1, "server"}
INVARIANTS
    NoSendOnClosed
    DeliveredOnce
PROPERTIES
    QuietAfterUnsubscribe
CHECK_DEADLOCK FALSE
