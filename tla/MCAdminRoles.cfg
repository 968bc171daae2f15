SPECIFICATION Spec
CONSTANTS
    Task = {t1, t2}
    User = {u1, u2}
    NoUser = NoUser
    NoRole = NoRole
    MaxStarts = 2
    MaxFaults = 1
SYMMETRY Symmetries
INVARIANTS
    StaleOnlyInDoubt
    KickedMayReturn
PROPERTIES
    SuperadminsRule
    AdminsPunishUsers
CHECK_DEADLOCK FALSE
