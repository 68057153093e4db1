SPECIFICATION Spec
CONSTANTS
    Requests = {r1, r2, r3}
    Identities = {i1, i2}
    Hashes = {h1, h2}
    r1 = r1
    r2 = r2
    r3 = r3
    i1 = i1
    i2 = i2
    h1 = h1
    h2 = h2
    TTL = 2
    HandlersMayOverrun = FALSE
    MaxFaults = 2
    None = None
SYMMETRY Symmetry
INVARIANTS
    TypeOK
    IInv
    AtMostOneHandler
    ReplayFidelity
    NoReexecutionInWindow
PROPERTIES
    InProgressMeansRunningOrFault
    ImplementsContract
