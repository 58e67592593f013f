\* Two submitters, the writer thread and the checkpoint thread.
SPECIFICATION FairSpec
CONSTANTS
    p1 = p1
    p2 = p2
    ck = ck
    Procs = {p1, p2}
    Ckpt = ck
    ChannelCap = 1
    Setups <- MCSound
PROPERTIES
    ImplementsDurableLog
    RestartKeepsAPrefix
    TokensResolve
CHECK_DEADLOCK FALSE
