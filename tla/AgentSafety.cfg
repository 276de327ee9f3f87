SPECIFICATION FairSpec
CONSTANTS
    Calls <- MCCalls
    MaxIds = 4
    MaxNotes = 1
    Chatty = FALSE
    Rounds <- MCRounds
    MaxSteps = 2
    MaxCalls = 2
    MaxSteer = 1
    Asks = TRUE
INVARIANTS RoundsWhole SteeringHeard GateHolds RepliesAreOwn
PROPERTY RunEnds
CHECK_DEADLOCK FALSE
