SPECIFICATION Spec
CONSTANTS
    Users = {u1, u2}
    Calls = {c1, c2, c3, c4}
    u1 = u1
    u2 = u2
    c1 = c1
    c2 = c2
    c3 = c3
    c4 = c4
    TTL = 1
    MaxFaults = 0
    None = None
SYMMETRY Symmetry
INVARIANTS
    TypeOK
    OneTokenPerSession
    ReuseRevokesEarlierTokens
    IssuedWhileActive
    RevokedForCause
    OneSuccessor
PROPERTIES
    EndedForGood
