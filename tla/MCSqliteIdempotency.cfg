SPECIFICATION Spec
CONSTANTS
    Request = {r1, r2, r3}
    Key = {k1, k2}
    Fingerprint = {f1, f2}
    NoFingerprint = NoFingerprint
    Lease = 2
    Ttl = 2
    InFlightWait = 1
    MaxEntries = 1
    Busy = 1
SYMMETRY Requests
INVARIANTS
    TypeOK
    VerdictsAgree
PROPERTY
    AtMostOnce
