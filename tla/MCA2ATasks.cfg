SPECIFICATION Spec
CONSTANTS
    alice = alice
    i1 = i1
    Task = {t1, t2}
    Owner = {alice}
    OwnerOf <- OneOwner
    Instance = {i1, i2}
    Exec = {e1, e2}
    NoExec = NoExec
    NoTask = NoTask
    Clock <- Skewed
    MaxEntries = 2
    MaxEntriesPerOwner = 1
    MaxLeases = 1
SYMMETRY Symmetry
INVARIANTS
    TypeOK
    CountersExact
    WatchdogSet
PROPERTY
    SettledOnce
