CONSTANTS
    Requests = {r1, r2}
    MaxOutstanding = 3
SPECIFICATION FairSession
CHECK_DEADLOCK FALSE
INVARIANTS OneOutstanding
PROPERTIES AnswersOwn ReadsEnd
