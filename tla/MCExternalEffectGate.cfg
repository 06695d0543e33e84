SPECIFICATION MCSpec
CONSTANTS
    Request = {r1, r2, r3}
    Key = {k1, k2}
    Operation = {o1}
    MostFences = 2
    Effect = k1
    Fence <- Fences
    NoFence = NoFence
    Fingerprint <- Fingerprints
    NoFingerprint = NoFingerprint
    Lease = 1
    Ttl = 2
    InFlightWait = 0
    MaxEntries = 1
    Rounding = 0
SYMMETRY Requests
INVARIANTS
    GateTypeOK
    OneAttempt
    TombstoneStands
PROPERTY
    StaleOwnersStop
