\* One topic, its writers and its background threads.
CONSTANTS
    w1 = w1  w2 = w2
    Writers = {w1, w2}
    Deleter = Deleter  Relocator = Relocator  Reader = Reader
    Checkpointer = Checkpointer  NoProc = NoProc
    MAX_SEQ = 4
    RESERVE_AHEAD = 1
    CACHE_CAP = 1
    COLD_CACHE_CAP = 1
    Setups <- MCSound
SPECIFICATION Spec
INVARIANTS
    Readable
    SnapshotHolds
    
PROPERTIES
    NoOrphans
CHECK_DEADLOCK FALSE
