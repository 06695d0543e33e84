SPECIFICATION FairSpec
CONSTANTS
    x1 = x1
    x2 = x2
    Execution = {x1}
    Nothing = Nothing
    MaxFaults = 3
INVARIANTS
    TypeOK
    StoresAgree
    FeedbackIsEarned
PROPERTIES
    EffectsMatchVerdicts
    EveryRowFinalized
CHECK_DEADLOCK FALSE
