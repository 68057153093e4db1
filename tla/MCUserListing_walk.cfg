SPECIFICATION Spec
CONSTANTS
    Users = {u1, u2, u3, u4}
    u1 = u1
    u2 = u2
    u3 = u3
    u4 = u4
    Limits = {0, 1, 2, Undefined}
    MaxTime = 2
    DEFAULT_LIMIT = 2
    MAX_LIMIT = 2
    MAX_PAGE = 3
    Undefined = Undefined
SYMMETRY Symmetry
CHECK_DEADLOCK FALSE
INVARIANTS
    TypeOK
    NobodySkipped
    TotalCoversPage
    RefusedOnlyBeyondReach
