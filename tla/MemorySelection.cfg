CONSTANTS
    Ids = {i1}
    Slots = {h1, h2}
    MaxSessions = 2
SYMMETRY Symmetry
SPECIFICATION Spec
CHECK_DEADLOCK FALSE
INVARIANTS
    TypeOK
    ActedWereChecked
    SelectionIsWanted
