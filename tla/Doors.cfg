CONSTANTS
    op = op
    boss = boss
    aide = aide
    i1 = i1
    i2 = i2
    i3 = i3
    Ids = {i1, i2, i3}
    Unknown = {i3}
    Users = {op, boss, aide}
    Owner <- MCOwner
    Scopes <- MCScopes
    Requests = {b1, b2}
    Menu <- MCMenu
    MaxBulk = 2
    Faults = {"rpc_error", "lost", "native_cancel"}
SYMMETRY Symmetry
SPECIFICATION Spec
CHECK_DEADLOCK FALSE
INVARIANTS
    TypeOK
    FailedDidNotWin
    FailureIsTrue
    OkWasAccepted
    VerdictPermitted
    UnhandledDecidedNothing
    EveryWinnerWasAsked
PROPERTIES
    EveryReviewKeepsContract
