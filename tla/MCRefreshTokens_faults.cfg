SPECIFICATION FairSpec
CONSTANTS
    Users = {u1}
    Calls = {c1, c2, c3}
    u1 = u1
    c1 = c1
    c2 = c2
    c3 = c3
    TTL = 1
    MaxFaults = 1
    None = None
INVARIANTS
    IInv
    LogoutRevokes
    SigningFailureMintsNothing
PROPERTIES
    EveryCallAnswered
    ImplementsSessions
