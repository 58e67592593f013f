\* Disk class, leases not logged, a checkpoint at any time, a failed call and a
\* crash that may lose Delete frames.  Fair polls, no duty to ack.
CONSTANTS
    n1 = n1  n2 = n2  c1 = c1  p1 = p1  p2 = p2
    NoConn = NoConn  NoProc = NoProc
    Nodes = {n1}
    Conns = {c1}
    Procs = {p1}
    Cohorts <- MCPolls
    MaxSeq = 2
    LeaseTtl = 0
    NackDelays = {1}
    MaxLag = 0
    MaxDeliveries = 1
    HasDeadLetter = TRUE
    FsyncClass = FALSE
    LeasesDurable = FALSE
    MaxLeaseId = 4
    MaxFaults = 1
    MaxExtends = 0
    MaxSnapshots = 1
    MaxCrashes = 1
SPECIFICATION FairRSpec
PROPERTIES
    
    EveryJobSettles
