SPECIFICATION Spec
CONSTANTS
    Requests = {r1, r2}
    Identities = {i1}
    Hashes = {h1}
    r1 = r1
    r2 = r2
    i1 = i1
    h1 = h1
    TTL = 2
    HandlersMayOverrun = FALSE
    MaxFaults = 1
    None = None
SYMMETRY Symmetry
PROPERTIES
    InProgressMeansRunning
