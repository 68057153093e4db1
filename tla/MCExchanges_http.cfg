SPECIFICATION Spec
CONSTANTS
    Users = {u1, u2}
    Addresses = {a1}
    Keys = {k1}
    Bodies <- SmallBodies
    Fingerprints <- SmallFingerprints
    Data <- SmallData
    Queries = {q1}
    Limit = 2
    MaxEffects = 2
    None = None
SYMMETRY Symmetry
INVARIANTS
    TypeOK
    OneAnswerPerKey
    OwnAnswersOnly
    
    FingerprintIsCanonical

    
