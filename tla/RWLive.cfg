CONSTANTS
    Calls = {c1, c2}
    Users = {requester}
    Requester = requester
    Payloads = {p0}
    InitPayload = p0
    MaxAttempts = 1
    Faults = {"lost_attempt"}
SPECIFICATION FairSpec
CHECK_DEADLOCK FALSE
PROPERTIES
    AcceptedDecisionCloses
    CreatedReviewAppears
