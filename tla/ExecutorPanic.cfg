SPECIFICATION FairSpec
CONSTANTS
    t1 = t1
    Submitters <- MCSubmitters
    MaxConcurrent = 2
    MaxOps = 2
    OpsMayPanic = TRUE
PROPERTIES StreamEnds
CHECK_DEADLOCK FALSE
