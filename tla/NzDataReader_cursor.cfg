SPECIFICATION FairSpec
CONSTANTS
    MaxSets = 2
    MaxRows = 2
    MaxOthers = 1
INVARIANT LockKept
PROPERTY ImplementsCursor
PROPERTY CallsAnswered
CHECK_DEADLOCK FALSE
