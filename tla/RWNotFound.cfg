CONSTANTS
    Calls = {c1, c2}
    Users = {requester, manager}
    Requester = requester
    Payloads = {p0, p1}
    InitPayload = p0
    MaxAttempts = 1
    Faults = {}

SPECIFICATION Spec
CHECK_DEADLOCK FALSE
INVARIANT MarkedCancelledIsTrue
