CONSTANTS
    MAX_BLOCKS = 1
    PEER_ALLOC_NUM = 1
    MIN_BLOCK_NUM = 1
    Conn = {c1}
    HARDWARE = 4
    SOCKETS = 4
    RATIOS = {60}
    MAX_LOOPS = 2
    NoBuf = NoBuf
SPECIFICATION Spec
INVARIANTS StartedLoopsAreOpen
CHECK_DEADLOCK FALSE
