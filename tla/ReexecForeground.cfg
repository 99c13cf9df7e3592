CONSTANTS
    Statuses = 3
    Buffer = 2
SPECIFICATION Spec
CHECK_DEADLOCK FALSE
INVARIANT ForegroundKeepsStdio
