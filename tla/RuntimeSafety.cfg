SPECIFICATION Spec
CONSTANTS
    t1 = t1
    t2 = t2
    i1 = i1
    w1 = w1
    p1 = p1
    p2 = p2
    Nobody = Nobody
    Texts <- MCTexts
    Images <- MCImages
    Workers <- MCWorkers
    Callers <- MCCallers
    Info <- MCInfo
    Weights <- MCWeights
    Peak <- MCPeak
    Machine <- MCMachine
    Base = 300
    OthersMb <- MCOthers
    HostBudget <- MCHostBudget
SYMMETRY MCSymmetry
INVARIANTS LedgerWithinBudget JobKeepsItsContext CeilingHolds
CHECK_DEADLOCK FALSE
