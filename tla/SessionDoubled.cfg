SPECIFICATION Spec
CONSTANTS
    e1 = e1
    e2 = e2
    NoEngine = NoEngine
    Engines <- MCEngines
    Requests <- MCFewRequests
    MaxRecords = 4
    MaxTurns = 3
    MaxSteps = 4
INVARIANTS
    SeenOnce
    ParkedIsTranscript
CHECK_DEADLOCK FALSE
