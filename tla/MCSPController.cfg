CONSTANTS
    READ_BSIZE = 3
    WRITE_BSIZE = 2
    Marks <- MCMarks
    Unlimited = Unlimited
    TOTAL = 4
    MAX_CALLS = 2
SPECIFICATION Spec
INVARIANTS EchoInOrder MoveUsesQuota
PROPERTIES ReadServed WriteServed PeerCloseServed
CHECK_DEADLOCK FALSE
