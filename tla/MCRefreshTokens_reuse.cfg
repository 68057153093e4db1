SPECIFICATION Spec
CONSTANTS
    Users = {u1}
    Calls = {c1, c2, c3, c4}
    u1 = u1
    c1 = c1
    c2 = c2
    c3 = c3
    c4 = c4
    TTL = 1
    MaxFaults = 0
    None = None
SYMMETRY Symmetry
PROPERTIES
    ReuseEndsSession
