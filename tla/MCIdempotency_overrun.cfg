SPECIFICATION FairSpec
CONSTANTS
    Requests = {r1, r2, r3}
    Identities = {i1}
    Hashes = {h1, h2}
    r1 = r1
    r2 = r2
    r3 = r3
    i1 = i1
    h1 = h1
    h2 = h2
    TTL = 2
    HandlersMayOverrun = TRUE
    MaxFaults = 1
    None = None
PROPERTIES
    EventuallySettled
    CompletedIsReplayable
    ReservationsOnlyRunOut
    
