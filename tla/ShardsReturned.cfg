\* The number of shards changes and changes back.
CONSTANTS
    Topics = {1, 2}
    Hash <- MCHash
    MaxShards = 3
    Configs = {DefaultConfig, c1}
    NoConfig = NoConfig
    DefaultConfig = DefaultConfig
    FILE_CAP = 2
    Setups <- MCReturned
SPECIFICATION Spec
PROPERTIES
    RestartKeepsAll
CHECK_DEADLOCK FALSE
