CONSTANTS
    SECTOR_SIZE = 2
    STANDARD_SIZE = 4
    MAX_BLOCK_SIZE = 32
    DAX_FRAME_SIZE = 4
    MIN_SIZE = 8
    SMALL_BLOCK_SIZE = 2
    LARGE_BLOCK_SIZE = 8
    LARGE_BLOCK_SIZE_THRESH = 14
    File <- MCCutFile
    Owner <- MCOwner
SPECIFICATION Spec
INVARIANT SuccessIsOfSource
CHECK_DEADLOCK FALSE
