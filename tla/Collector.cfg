SPECIFICATION FairSpec
CONSTANTS
    Metrics = {"temp", "hum"}
    ErrName <- MCErrName
    HasInitWrites = TRUE
    HasPrePoll = TRUE
    DetectsLoss = {FALSE, TRUE}
    IoCounts = {1}
    InitialBackoff = 1
    MaxBackoff = 3
    MaxPolls = 4
INVARIANTS
    TypeOK
    InitBeforePoll
    PollAccounting
    PrePollThreshold
    ReadingsAreLatest
    ErrorCountersPublished
    
PROPERTIES
    FeedRefined
    ShutdownTerminates
