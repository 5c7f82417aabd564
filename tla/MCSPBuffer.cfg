CONSTANTS
    BSIZE = 3
    Byte = {0, 1}
    Data <- MCData
    Lengths <- MCLengths
SPECIFICATION Spec
INVARIANTS TypeOK PositionsAgree
PROPERTY ImplementsFifo
