\* Offers and StopOffers of two services while two Finds run.
SPECIFICATION RegistrySpec
CONSTANTS
    k1 = k1
    f1 = f1
    v1 = v1
    v2 = v2
    Keys = {k1, k2}
    ServiceOf <- MCServiceOf
    Any = Any
    MaxTTL = 2
    MaxAgo = 2
    None = None
    Values = {e1}
    Finds = {f1, f2}
    WantOf <- MCWantOf
INVARIANTS
    FindExact
