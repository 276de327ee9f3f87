SPECIFICATION Spec
CONSTANTS
    p1 = p1
    p2 = p2
    Nobody = Nobody
    Kinds <- MCKinds
    Callers <- MCCallers
    Streamers <- MCOneCaller
    Cap = 1
    PcmCap = 1
    MaxBlocks = 1
INVARIANTS UnloadReachesWork ReleasedFirst SlotExact
PROPERTIES EveryoneReturns
CHECK_DEADLOCK FALSE
