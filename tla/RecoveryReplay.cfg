\* Leases are logged; one failed call, no checkpoint, one thread.
CONSTANTS
    n1 = n1  n2 = n2  c1 = c1  p1 = p1  p2 = p2
    NoConn = NoConn  NoProc = NoProc
    Nodes = {n1, n2}
    Conns = {c1}
    Procs = {p1}
    Cohorts <- MCPollsOfTwo
    MaxSeq = 2
    LeaseTtl = 0
    NackDelays = {0}
    MaxLag = 0
    MaxDeliveries = 0
    HasDeadLetter = FALSE
    FsyncClass = TRUE
    LeasesDurable = TRUE
    MaxLeaseId = 3
    MaxFaults = 1
    MaxExtends = 0
    MaxSnapshots = 0
    MaxCrashes = 1
SPECIFICATION RSpec
INVARIANTS
    AckIsFinal
    ReplayShowsHolders
