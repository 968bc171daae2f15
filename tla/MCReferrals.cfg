SPECIFICATION FairSpec
CONSTANTS
    Task = {t1, t2}
    Scenarios <- MCScenarios
    NoTask = NoTask
    Channel = {c1}
    NoChannel = NoChannel
    MaxFaults = 1
INVARIANTS
    CreditedOnce
    CreditAfterJoining
    ReferredUnlessFault
PROPERTIES
    CreditAfterCaptcha
    ImplementsVetting
    CommandReadOrOverwritten
    RecheckSettles
CHECK_DEADLOCK FALSE
