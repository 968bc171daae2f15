SPECIFICATION FairSpec
CONSTANTS
    Task = {t1, t2}
    Answer = {a1, a2}
    NoAnswer = NoAnswer
    MaxTries = 2
    MaxTime = 0
    MaxFaults = 0
INVARIANT NewUserAnswersFirst
CHECK_DEADLOCK FALSE
