CONSTANTS
    Calls = {c1, c2}
    Users = {requester, manager}
    Requester = requester
    Payloads = {p0, p1}
    InitPayload = p0
    MaxAttempts = 2
    Faults = {"lost_attempt"}
SYMMETRY CallSymmetry
SPECIFICATION Spec
CHECK_DEADLOCK FALSE
PROPERTIES
    DecidedRowIsFinal
    PayloadFrozen
    AttemptsRunOut
INVARIANTS
    SingleWinner
    HandlerFindsRow
    CancelledByRequester
