CONSTANTS
    Sector = {s1, s2, s3}
    nullptr = nullptr
    MAX_BUFS = 2
    SECTOR_SIZE = 4
    CSO_HEADER = 2
    CSO_ENTRY = 1
    DAX_HEADER = 2
    DAX_ENTRY = 1
    IndexBits = 5
    DAX_FRAME = 2
    TrialSizes = {2}
    InputBlocks = {1, 2}
    Task <- MCTask
    TaskLists <- MCTaskLists
SPECIFICATION PSpec
INVARIANTS
    PTypeOK
    EnqueueHasRoom
    DrainedMeansReported
    SuccessStandsAlone
    SectorsComeBack
PROPERTIES
    StepsAreOutputs
    Terminates
CHECK_DEADLOCK FALSE
