CONSTANTS
    Sector = {s1, s2, s3}
    nullptr = nullptr
    MAX_BUFS = 2
    SECTOR_SIZE = 4
    CSO_HEADER = 2
    CSO_ENTRY = 1
    DAX_HEADER = 1
    DAX_ENTRY = 1
    IndexBits = 4
    DAX_FRAME = 2
    TrialSizes = {2, 3, 7}
    Task <- MCTask
SYMMETRY Symmetry
SPECIFICATION Spec
INVARIANTS
    TypeOK
    NoSectorSharedOrLost
    NoBufferRace
    FileInOrder
    ExtentsApart
    SuccessMeansReadable
    OneVerdict
PROPERTIES
    IndexFrozen
    ImplementsBlockFile
CHECK_DEADLOCK FALSE
