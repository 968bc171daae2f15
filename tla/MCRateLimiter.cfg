SPECIFICATION Spec
CONSTANTS
    Event = {e1, e2, e3, e4, e5, e6}
    Window = 3
    MaxEvents = 2
    Block = 4
    MaxDelay = 1
    MaxTime = 9
SYMMETRY EventSymmetry
INVARIANTS
    BurstCapped
    RefusedOnlyAfterBurst
PROPERTY BlockEarned
CHECK_DEADLOCK FALSE
