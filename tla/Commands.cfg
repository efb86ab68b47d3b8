CONSTANTS
    Configs <- MCConfigs
    Filters <- MCFilters
    MaxCycles = 2
    MaxIterations = 2
SPECIFICATION FairSpec
CHECK_DEADLOCK FALSE
INVARIANTS TypeOK ReadsOwnRegister ValidatedNeverPanics ReadsFollowAllWrites SummaryTruthful MergedByPriority
PROPERTIES WatchStops
