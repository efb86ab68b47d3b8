SPECIFICATION FairSpec
CONSTANTS
    Topics = {t1, t2, t3}
    QueueCap = 2
    InitialBackoff = 1
    MaxBackoff = 60
INVARIANTS
    TypeOK
    OnlineBeforeMetrics
PROPERTIES
    ShutdownEndsOffline
    PublishUnblocks
