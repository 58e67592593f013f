\* Topologies and requests of MCSound.
CONSTANTS
    t1 = t1
    t2 = t2
    t3 = t3
    r1 = r1
    r2 = r2
    c1 = c1
    c2 = c2
    Names = {t1, t2, t3}
    Routers = {r1, r2}
    Clients = {c1, c2}
    Worker = Worker
    Reader = Reader
    NoProc = NoProc
    MAX_ROUTER_HOPS = 2
    ROUTER_BATCH = 1
    Setups <- MCSound
SPECIFICATION Spec
INVARIANTS
    Mirror
    ReadYourWrites
    NoCycle
PROPERTIES
    RestartKeepsSeqs
    RestartKeepsCatalog
    Forwards
CHECK_DEADLOCK FALSE
