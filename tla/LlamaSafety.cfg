CONSTANTS
    KeepRecent = 1
    MinReserve = 2
    SummarySize = 1
    Models = {m1, m2}
    Ctx = 10
    MaxTokens = 4
    ToolsSize = 4
    Margin = 1
    Sizes <- MCSizes
    Lengths <- MCLengths
    Others <- MCOthers
    Stuck <- MCStuck
    KeepFiles = 4
    Budget = 8
    MaxMessages = 4
    MaxEdits = 1
    MaxSaves = 1
SPECIFICATION Spec
INVARIANTS KvIsTranscript AskedIsAnswered StoreWithinBudget
PROPERTIES DropsWholeRounds
SYMMETRY MCSymmetry
CHECK_DEADLOCK FALSE
