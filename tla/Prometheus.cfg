CONSTANTS
    Collectors = {1, 2}
    Names = {a, b}
    ShardOf <- MCShardOf
    MaxCycles <- MCMaxCycles
    Scrapers = {s1, s2}
    MaxScrapes = 2
SPECIFICATION FairSpec
CHECK_DEADLOCK FALSE
INVARIANTS PagesUntorn
PROPERTIES PagesFresh PagesAdvance CancelReturns
