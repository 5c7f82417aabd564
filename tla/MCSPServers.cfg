CONSTANTS
    MAX_BLOCKS = 2
    PEER_ALLOC_NUM = 2
    MIN_BLOCK_NUM = 2
    Conn = {c1, c2, c3}
    HARDWARE = 5
    SOCKETS = 5
    RATIOS = {60, 90}
    MAX_LOOPS = 3
    NoBuf = NoBuf
SPECIFICATION Spec
INVARIANTS
    TypeOK NoDescriptorLost LoopsServeOpenEpolls MappedIsOpen BuffersComeInPairs
    ReleaseFreesAll NoDanglingBuffer HandedOutOnce RefCountExact
    SocketOutlivesThread NoSocketLost
PROPERTIES PoolSpec UdpExitReturns
CHECK_DEADLOCK FALSE
