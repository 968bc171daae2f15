SPECIFICATION Spec
CONSTANTS
    Task = {t1, t2}
    Answer = {a1, a2}
    NoAnswer = NoAnswer
    MaxTries = 2
    MaxTime = 1
    MaxFaults = 1
SYMMETRY TaskSymmetry
INVARIANTS
    CaptchaNotForgotten
PROPERTIES
    ImplementsVetting
    OnlyRacingUpdatesUndo
CHECK_DEADLOCK FALSE
