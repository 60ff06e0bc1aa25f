SPECIFICATION Spec
CONSTANTS
    c1 = c1
    c2 = c2
    Callers <- OneCaller
    Configs <- AllConfigs
    Batches <- OneEvent
    MaxHandlers = 1
INVARIANT MissingConfigReported
CHECK_DEADLOCK FALSE
