SPECIFICATION Spec
CONSTANTS
    a = a
    b = b
    NoValue = NoValue
    Notes <- MCNotes
    Values <- MCValues
    Calls <- MCCalls
    Budget = 2
    Batches <- MCBatches
    IdleAfter = 1
    Crashes = {"half", "bare", "whole"}
    Errors = {"none"}
    MaxEntries = 5
    MaxCrashes = 2
INVARIANTS JournalKept RebuiltWhole
PROPERTIES WakesKept
CHECK_DEADLOCK FALSE
