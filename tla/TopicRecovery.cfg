\* Two threads and the checkpoint thread.
CONSTANTS
    p1 = p1  p2 = p2  ck = ck  t1 = t1  t2 = t2
    NoProc = NoProc  AnyTag = AnyTag
    Procs = {p1, p2}
    Ckpt = ck
    Tags = {t1}
    BatchSizes = {1, 2}
    ReserveAhead = 2
    Setups <- MCSound
SPECIFICATION FairSpec
INVARIANTS
    VisibleIsCommitted
    AckedSurvive
    SeqsNeverReused
    DeletesHold
PROPERTIES
    RequestsReturn
CHECK_DEADLOCK FALSE
