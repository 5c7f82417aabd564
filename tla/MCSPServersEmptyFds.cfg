CONSTANTS
    MAX_BLOCKS = 1
    PEER_ALLOC_NUM = 1
    MIN_BLOCK_NUM = 1
    Conn = {c1}
    HARDWARE = 2
    SOCKETS = 2
    RATIOS = {60}
    MAX_LOOPS = 2
    NoBuf = NoBuf
SPECIFICATION Spec
INVARIANTS EventLoopHasSocket
CHECK_DEADLOCK FALSE
