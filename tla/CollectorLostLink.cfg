SPECIFICATION Spec
CONSTANTS
    Metrics = {"temp", "hum"}
    ErrName <- MCErrName
    HasInitWrites = FALSE
    HasPrePoll = FALSE
    DetectsLoss = {FALSE}
    IoCounts = {1}
    InitialBackoff = 1
    MaxBackoff = 3
    MaxPolls = 4
PROPERTIES
    LostLinkAborts
