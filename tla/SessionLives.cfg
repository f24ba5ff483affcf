CONSTANTS
    Slots = {t1, t2}
    AccessLife = 2
    RefreshLife = 6
    TTL = 6
    Latency = 1
    MaxSessions = 1
    Faults = {"redis_error", "eviction", "bad_gateway", "unreachable"}
SYMMETRY Symmetry
SPECIFICATION Spec
INVARIANTS
    TypeOK
    UsedSessionIsKept
    LogoutIsFinal
    EndedSessionIsRefused
