\* The long-lived requests of one server.
CONSTANTS
    p1 = p1  p2 = p2  w1 = w1  s1 = s1  s2 = s2  x1 = x1
    k1 = k1  k2 = k2  t1 = t1  t2 = t2  t3 = t3  v1 = v1  v2 = v2
    Conns = {w1, s1, s2, x1}
    Pollers = {p1, p2}
    Workers = {w1}
    Streams = {s1, s2}
    Socks = {x1}
    Wids = {v1, v2}
    Keys = {k1, k2}
    KeyOf <- MCKeyOf
    Names = {t1, t2, t3}
    Queue = t3
    Jobs = {1, 2}
    LeaseAsked <- MCLeaseAsked
    NoConn = NoConn
    WORK_MAX = 1
    LIMIT = 1
    RING_CAP = 1
    OUT_CAP = 1
    SESSION_TTL = 0
    Setups <- MCSound
SPECIFICATION Spec
INVARIANTS
    WorkHolds
    DeliveredWhole
    NoMissedWake
    
    HeldWhileOpen
PROPERTIES
    Answered
    StreamsEnd
CHECK_DEADLOCK FALSE
