SPECIFICATION Spec
CONSTANTS
    p1 = p1
    p2 = p2
    Nobody = Nobody
    Kinds <- MCDiarizer
    Callers <- MCOneCaller
    Streamers <- MCOneCaller
    Cap = 1
    PcmCap = 2
    MaxBlocks = 2
INVARIANTS AcceptedIsConsumed
CHECK_DEADLOCK FALSE
