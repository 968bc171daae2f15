SPECIFICATION FairSpec
CONSTANTS
    Payment = {p1, p2}
    Charge = {1, 2}
    NoCharge = NoCharge
    PendingTTL = 1
    PollTTL = 1
    PageLimit = 2
    MaxTime = 2
    MaxFaults = 1
INVARIANTS
    FirstTransferDecides
    EffectsFollowCommit
PROPERTIES
    SelectedTransferSettles
    ImplementsLedger
CHECK_DEADLOCK FALSE
