CONSTANTS
    Tabs = {t1, t2}
    Replicas = {r1, r2}
    Operators = {op1, op2}
    Managers = {mgr}
    TTL = 1
    Latency = 1
    QueryIds = {q1, q2}
    MaxSessions = 2
SYMMETRY Symmetry
SPECIFICATION Spec
INVARIANTS
    TypeOK
    OwnListOnly
    TotalAgeBounded
