\* Two request threads and a reader.
CONSTANTS
    p1 = p1  p2 = p2  k1 = k1
    NoProc = NoProc  NoKey = NoKey  Reader = Reader
    Procs = {p1, p2}
    Keys = {k1}
    Setups <- MCSound
SYMMETRY Swaps
SPECIFICATION Spec
INVARIANTS
    NoSilentLoss
    NoResurrection
    GaugeExact
    KeyedOnce
CHECK_DEADLOCK FALSE
