SPECIFICATION FairSpec
CONSTANTS
    Task = {t1, t2}
    Call = {c1, c2}
    Nobody = Nobody
    ClaimTtl = 2
    Retention = 3
    MaxRetries = 2
    MaxEntries = 2
    MaxClaims = 2
    RecoverBatch = 1
INVARIANTS
    TypeOK
    LiveOwnerKeepsTask
PROPERTIES
    FencedOwnership
    TakenUp
