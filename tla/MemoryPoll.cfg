CONSTANTS
    Ids = {i1, i2}
    Slots = {h1, h2}
    MaxSessions = 1
SPECIFICATION Spec
CHECK_DEADLOCK FALSE
PROPERTIES
    PollKeepsSelection
