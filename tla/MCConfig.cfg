SPECIFICATION Spec
CONSTANTS
    c1 = c1
    c2 = c2
    Callers <- OneCaller
    Configs <- NoSlotLength
    Batches <- OneEvent
    MaxHandlers = 1
INVARIANT AcceptedIsValid
CHECK_DEADLOCK FALSE
