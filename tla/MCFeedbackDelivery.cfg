CONSTANTS
    e1 = e1
    e2 = e2
    o1 = o1
    o2 = o2
    Other = Other
    NoClient = NoClient
    NoOp = NoOp
    NoEvent = NoEvent
    Event = {e1}
    Op = {o1, o2}
    Posted = {e1}
    MaxAdmission = 2
    MaxMarkers = 1
    BatchSize = 1
    MaxFaults = 3
    MaxChanges = 1
SYMMETRY Symmetric
SPECIFICATION Spec
INVARIANTS
    TypeOK
    CountedOncePerAdmission
    AppliedIsCounted
PROPERTIES
    RevocationStands
    CountedForGood
