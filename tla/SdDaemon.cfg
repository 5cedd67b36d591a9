\* Two Offers of one key and a request of the peer, lost and reordered datagrams,
\* Close and a crash.
SPECIFICATION FairSpec
CONSTANTS
    k1 = k1
    v1 = v1
    Keys = {k1}
    ServiceOf <- MCServiceOf
    Any = Any
    MaxTTL = 1
    MaxAgo = 0
    None = None
    Offers = {o1, o2}
    KeyOf <- MCKeyOf
    Addressed = {o1, o2}
    Requests = {r1}
    TTL = 1
INVARIANTS
    OneAnnouncer
    StaleBound
PROPERTIES
    NewestWins
    ClosedForgotten
    CloseReturns
