CONSTANTS
    Slots = {t1, t2}
    AccessLife = 2
    RefreshLife = 6
    TTL = 6
    Latency = 1
    MaxSessions = 1
    Faults = {}
SPECIFICATION Spec
PROPERTY DiscardedEntryIsDead
