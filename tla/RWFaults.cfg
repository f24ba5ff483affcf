CONSTANTS
    Calls = {c1, c2}
    Users = {requester, manager}
    Requester = requester
    Payloads = {p0, p1}
    InitPayload = p0
    MaxAttempts = 1
    Faults = {"lost_attempt", "native_cancel", "admin_kill", "rpc_error", "raw_signal"}
SYMMETRY CallSymmetry
SPECIFICATION Spec
CHECK_DEADLOCK FALSE
INVARIANTS
    TypeOK
    IInv
    FinalizedIsPersisted
    CompletedIsPersisted
    ConfirmedDecisionStands
    DetachedMeansClosed
    NobodyWaitsInVain
PROPERTIES
    ImplementsLifecycle
    KeepsContract
