SPECIFICATION Spec
CONSTANTS
    c1 = c1
    c2 = c2
    e0 = e0
    e1 = e1
    ChatIds <- MCTwoChats
    TaskIds <- MCTasks
    BaseTask = e0
    Requests <- MCAll
    Cap = 2
    MaxActive = 1
    MaxTurns = 2
    StampsCollide = FALSE
SYMMETRY MCSymmetry
INVARIANTS TypeOK NothingOutlivesItsRuntime WaitingReaderHasWriter NoFinishedTaskLingers
PROPERTIES EndIsTold RoomIsMade
CHECK_DEADLOCK FALSE
