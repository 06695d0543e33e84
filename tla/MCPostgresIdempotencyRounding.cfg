SPECIFICATION MCSpec
CONSTANTS
    r1 = r1
    r2 = r2
    r3 = r3
    k1 = k1
    k2 = k2
    f1 = f1
    f2 = f2
    Request = {r1, r2, r3}
    Key = {k1, k2}
    Fingerprint = {f1, f2}
    NoFingerprint = NoFingerprint
    Lease = 2
    Ttl = 3
    InFlightWait = 1
    MaxEntries = 1
    Rounding = 1
INVARIANT UnknownMeansLost
