CONSTANTS
    e1 = e1
    e2 = e2
    o1 = o1
    o2 = o2
    Other = Other
    NoClient = NoClient
    NoOp = NoOp
    NoEvent = NoEvent
    Event = {e1}
    Op = {o1}
    Posted = {}
    MaxAdmission = 1
    MaxMarkers = 1
    BatchSize = 1
    MaxFaults = 0
    MaxChanges = 1
SPECIFICATION Spec
INVARIANT AcknowledgedIsCounted
