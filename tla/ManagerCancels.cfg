CONSTANTS
    op = op
    boss = boss
    aide = aide
    i1 = i1
    i2 = i2
    i3 = i3
    Ids = {i1, i2, i3}
    Unknown = {i3}
    Users = {op, boss, aide}
    Owner <- MCOwner
    Scopes <- MCScopes
    Requests = {b1}
    Menu <- MCCancels
    MaxBulk = 2
    Faults = {}
SPECIFICATION Spec
CHECK_DEADLOCK FALSE
INVARIANT DecisionPermitted
