CONSTANTS
    Collectors = {1, 2}
    Names = {a}
    ShardOf <- MCShardOf
    MaxCycles <- MCMaxCyclesTwice
    Others = {"mqtt"}
    Blocking = {2}
SPECIFICATION DaemonFairSpec
CHECK_DEADLOCK FALSE
INVARIANTS DaemonTypeOK ExitAfterFinalUpdate SharedHaveInstruments FinalFlushComplete
PROPERTIES ShutdownCompletes ExportsAdvance
