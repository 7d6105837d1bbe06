SPECIFICATION MCFairSpec
CONSTANTS
    Keys = {k1, k2}
    Requests = {r1, r2, r3}
    NoRequest = NoRequest
    MaxClears = 2
INVARIANTS
    CacheInv
    StoredSinceClear
    OneRequestPerKey
PROPERTIES
    KeysComeFree
CHECK_DEADLOCK FALSE
