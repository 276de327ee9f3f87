SPECIFICATION Spec
CONSTANTS
    e1 = e1
    e2 = e2
    NoEngine = NoEngine
    Engines <- MCEngines
    Requests <- MCRequests
    MaxRecords = 4
    MaxTurns = 3
    MaxSteps = 3
SYMMETRY MCSymmetry
INVARIANTS
    ViewIsTranscript
    Restored
    FollowUpIsWarm
CHECK_DEADLOCK FALSE
