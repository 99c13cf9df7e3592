CONSTANTS
    Statuses = 3
    Buffer = 2
SPECIFICATION FairSpec
CHECK_DEADLOCK FALSE
INVARIANTS NilMeansUp NotTwice
PROPERTY ParentReturns
