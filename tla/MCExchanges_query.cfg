SPECIFICATION Spec
CONSTANTS
    Users = {u1}
    Addresses = {a1}
    Keys = {k1}
    Bodies <- OneBody
    Fingerprints <- SmallFingerprints
    Data <- SmallData
    Queries = {q1, q2}
    Limit = 2
    MaxEffects = 1
    None = None
INVARIANTS
    OtherQueryConflicts
