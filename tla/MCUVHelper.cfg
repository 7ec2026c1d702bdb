CONSTANTS
    Thread = {t1, t2}
    Req = {read, work1, work2}
    FsReq = {read}
    none = none
    MaxTickets = 4
SPECIFICATION Spec
INVARIANTS
    UTypeOK
    NoLostWakeup
    CallsMatch
    QuietAtReturn
PROPERTIES
    RunsDry
    ImplementsRequests
CHECK_DEADLOCK FALSE
