CONSTANTS
    Buffer = {p1, p2, p3, p4}
    MIN_SIZE = 16
    Sizes = {12, 20}
    blockSize = 8
    align = 2
    TrialSizes = {1, 3, 5, 7, 9}
    MaxBlocks = 2
    Args <- MCArgs
SYMMETRY Symmetry
SPECIFICATION TSpec
INVARIANTS
    TypeOK
    BuffersFit
    NoBufferShared
    AllBuffersCounted
    TTypeOK
    OwnBuffers
    BestIsIntact
    CostsCountOnce
    DaxKeepsDeflate
    OutputsPaired
PROPERTIES
    SizeKeptWhileHeld
