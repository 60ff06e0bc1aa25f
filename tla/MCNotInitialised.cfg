SPECIFICATION Spec
CONSTANTS
    c1 = c1
    c2 = c2
    Callers <- OneCaller
    Configs <- GoodOnly
    Batches <- OneEvent
    MaxHandlers = 1
INVARIANT NotInitialisedReported
CHECK_DEADLOCK FALSE
