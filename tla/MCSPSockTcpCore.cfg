CONSTANTS
    Fd = {3, 4}
    IOThreads = 1
    Worker = {w1, w2}
    QUEUE_LENGTH = 2
    BATCH_SUBMIT = 2
    BATCH_PROCESS = 2
    MAX_EVENT = 2
    DEFAULT_EVENT <- MCDefaultIn
    CLOSE_BATCH = 1
    Callbacks <- MCBoth
    Marks <- MCBoth
    Interests <- MCInterests
    CtlMayFail = TRUE
    InitFailures = 0
    MayExit = FALSE
SPECIFICATION Spec
INVARIANTS TypeOK ExclusiveOwner NoneForgotten
SYMMETRY Workers
