\* Two topics on one to three shards.
CONSTANTS
    Topics = {1, 2}
    Hash <- MCHash
    MaxShards = 3
    Configs = {DefaultConfig, c1}
    NoConfig = NoConfig
    DefaultConfig = DefaultConfig
    FILE_CAP = 2
    Setups <- MCSound
SPECIFICATION Spec
INVARIANTS
    SwapAtomic

    
CHECK_DEADLOCK FALSE
