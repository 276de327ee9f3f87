SPECIFICATION FairSpec
CONSTANTS
    c1 = c1
    c2 = c2
    e0 = e0
    e1 = e1
    ChatIds <- MCOneChat
    TaskIds <- MCOneTask
    BaseTask = e0
    Requests <- MCTextMic
    Cap = 2
    MaxActive = 1
    MaxTurns = 2
    StampsCollide = FALSE
PROPERTIES ReaderFreed
CHECK_DEADLOCK FALSE
