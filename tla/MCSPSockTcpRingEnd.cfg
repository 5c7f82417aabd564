CONSTANTS
    Fd = {c1, c2, c3, c4}
    IOThreads = 1
    Worker = {w1}
    QUEUE_LENGTH = 2
    BATCH_SUBMIT = 2
    BATCH_PROCESS = 1
    MAX_EVENT = 2
    DEFAULT_EVENT <- MCDefaultIn
    CLOSE_BATCH = 1
    Callbacks <- MCBoth
    Marks <- NoMarks
    Interests <- MCIn
    CtlMayFail = FALSE
    InitFailures = 0
    MayExit = FALSE
SPECIFICATION Spec
INVARIANTS NoneForgotten
SYMMETRY Descriptors
