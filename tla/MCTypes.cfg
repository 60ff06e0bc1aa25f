SPECIFICATION Spec
CONSTANTS
    c1 = c1
    c2 = c2
    r1 = r1
    r2 = r2
    NoRoot = NoRoot
    Callers <- OneCaller
    Roots <- MCRoots
    BlockSlot <- MCBlockSlot
    Events <- EveryEvent
    Drifts <- SlowClock
    NumSinks = 0
    MaxTime = 4
    MaxCalls = 2
    Lead = 0
    TicksPerSlot = 1
    SlotsPerEpoch = 2
    MaxSlotAge = 2
    NanosPerMilli = 2
    ConsensusTTL = 3
    PartialTTL = 1
    BlockSlotTTL = 2
INVARIANTS TypeOK AtMostOnce  NoFreshLoss DriftCoherent SlotAttribution
PROPERTIES MappingStable PartsLearnSlot
