SPECIFICATION CacheSpec
CONSTANTS
    None = None
    Keys = {k1, k2, k3, k4}
    Values = {v1, v2}
    Capacity = 3
    Ttl = 2
    MaxNow = 3
INVARIANT CacheTypeOK
INVARIANT RecencyIsUse
PROPERTY ImplementsLruMap
