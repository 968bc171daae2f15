SPECIFICATION Spec
CONSTANTS
    Session = {s1, s2}
    None = None
    AskLimit = 1
    CrashLimit = 1
SYMMETRY Symmetry
VIEW View
CHECK_DEADLOCK FALSE


PROPERTIES
    CompletedSessionKept
