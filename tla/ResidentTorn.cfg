SPECIFICATION Spec
CONSTANTS
    a = a
    b = b
    NoValue = NoValue
    Notes <- MCNotes
    Values <- MCValues
    Calls <- MCCalls
    Budget = 2
    Batches <- MCReply
    IdleAfter = 1
    Crashes = {"half"}
    Errors = {}
    MaxEntries = 6
    MaxCrashes = 2
INVARIANTS HistoryLoads
CHECK_DEADLOCK FALSE
