CONSTANTS
    Fd = {3, 4, 5}
    IOThreads = 1
    Worker = {w1}
    QUEUE_LENGTH = 1
    BATCH_SUBMIT = 1
    BATCH_PROCESS = 1
    MAX_EVENT = 3
    DEFAULT_EVENT <- MCDefaultIn
    CLOSE_BATCH = 1
    Callbacks <- MCBoth
    Marks <- MCReadOnly
    Interests <- MCIn
    CtlMayFail = FALSE
    InitFailures = 0
    MayExit = FALSE
SPECIFICATION Spec
INVARIANTS ExclusiveOwner
