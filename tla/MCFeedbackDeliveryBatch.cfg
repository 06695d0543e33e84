CONSTANTS
    e1 = e1
    e2 = e2
    o1 = o1
    o2 = o2
    Other = Other
    NoClient = NoClient
    NoOp = NoOp
    NoEvent = NoEvent
    Event = {e1, e2}
    Op = {o1, o2}
    Posted = {}
    MaxAdmission = 1
    MaxMarkers = 1
    BatchSize = 2
    MaxFaults = 1
    MaxChanges = 1
SPECIFICATION FairSpec
INVARIANTS
    DeliveredIsCounted
    MarkersFit
PROPERTY
    EveryEventDelivered
