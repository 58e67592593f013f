\* Two jobs, two request threads, fsync class, a delivery limit of one;
\* no restart.
CONSTANTS
    n1 = n1  n2 = n2  c1 = c1  p1 = p1  p2 = p2
    NoConn = NoConn  NoProc = NoProc
    Nodes = {n1, n2}
    Conns = {c1}
    Procs = {p1, p2}
    Cohorts <- MCTwoClaims
    MaxSeq = 2
    LeaseTtl = 0
    NackDelays = {0, 1}
    MaxLag = 1
    MaxDeliveries = 1
    HasDeadLetter = TRUE
    FsyncClass = TRUE
    LeasesDurable = FALSE
    MaxLeaseId = 3
    MaxFaults = 1
    MaxExtends = 1
    MaxSnapshots = 0
    MaxCrashes = 0
SPECIFICATION RSpec
SYMMETRY MCThreadSymmetry
INVARIANTS
    OnePlace
    NoJobStranded
    AckedNeverRedelivered
    AckHoldsLastLease
    DeadLetterKeepsACopy
