SPECIFICATION FairSpec
CONSTANTS
    NoCharge = NoCharge
    Payment = {p1, p2}
    Charge = {c1, c2}
    NumHooks = 2
    MaxFaults = 2
INVARIANTS
    PaidMeansCollected
PROPERTIES
    FirstChargeKept
    SettledInvoiceRefused
    CleanChargeCompletes
    ImplementsLedger
CHECK_DEADLOCK FALSE
