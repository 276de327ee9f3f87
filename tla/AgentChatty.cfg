SPECIFICATION FairSpec
CONSTANTS
    Calls <- MCCalls
    MaxIds = 2
    MaxNotes = 1
    Chatty = TRUE
    Rounds <- MCRounds
    MaxSteps = 1
    MaxCalls = 2
    MaxSteer = 0
    Asks = TRUE
PROPERTY RunEnds
CHECK_DEADLOCK FALSE
