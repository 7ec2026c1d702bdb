CONSTANTS
    Buffer = {p1, p2, p3, p4}
    MIN_SIZE = 16
    Sizes = {16}
    blockSize = 8
    align = 2
    TrialSizes = {1, 3, 5, 7, 9}
    MaxBlocks = 1
    Args <- MCCostArgs
SYMMETRY Symmetry
SPECIFICATION TSpec
INVARIANT EachCostIsABound
