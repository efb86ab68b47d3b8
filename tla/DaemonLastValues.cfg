CONSTANTS
    Collectors = {1, 2}
    Names = {a}
    ShardOf <- MCShardOf
    MaxCycles <- MCMaxCycles
    Others = {"mqtt"}
    Blocking = {2}
SPECIFICATION DaemonSpec
CHECK_DEADLOCK FALSE
INVARIANTS LastValuesExported
