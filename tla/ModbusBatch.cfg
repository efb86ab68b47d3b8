CONSTANTS
    U16Max = 15
    MaxCoalesceGap = 2
    MaxRegistersPerRead = 5
    MetricConfigs <- MCBelowTop
    Checked = FALSE
    ListLength = 3
SPECIFICATION Spec
CHECK_DEADLOCK FALSE
INVARIANTS DecodedFromOwnRegisters RangesLegal FailuresIsolated
