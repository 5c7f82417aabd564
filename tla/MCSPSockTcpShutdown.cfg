CONSTANTS
    Fd = {3, 4}
    IOThreads = 1
    Worker = {w1}
    QUEUE_LENGTH = 1
    BATCH_SUBMIT = 1
    BATCH_PROCESS = 1
    MAX_EVENT = 2
    DEFAULT_EVENT <- MCDefaultInOut
    CLOSE_BATCH = 1
    Callbacks <- MCReadOnly
    Marks <- MCReadOnly
    Interests <- MCIn
    CtlMayFail = FALSE
    InitFailures = 1
    MayExit = TRUE
SPECIFICATION ShutdownSpec
INVARIANTS ExclusiveOwner CountExact
PROPERTIES ShutdownEnds
