SPECIFICATION FairSpec
CONSTANTS
    t1 = t1
    Submitters <- MCSubmitters
    MaxConcurrent = 2
    MaxOps = 3
    OpsMayPanic = TRUE
INVARIANTS GuardsRespected InFlightExact
PROPERTIES CancelStopsStarts ImplementsToolStream CloseDrains ValuesArrive
CHECK_DEADLOCK FALSE
