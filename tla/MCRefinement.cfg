SPECIFICATION FairSpec
CONSTANTS
    c1 = c1
    c2 = c2
    r1 = r1
    r2 = r2
    NoRoot = NoRoot
    Callers <- MCCallers
    Roots <- MCRoots
    BlockSlot <- MCBlockSlot
    Events <- RefinementEvents
    Drifts <- NoDrift
    NumSinks = 2
    MaxTime = 5
    MaxCalls = 2
    Lead = 0
    TicksPerSlot = 1
    SlotsPerEpoch = 2
    MaxSlotAge = 1
    NanosPerMilli = 2
    ConsensusTTL = 2
    PartialTTL = 1
    BlockSlotTTL = 2
INVARIANT SinkIsolation
PROPERTIES
    ImplementsExporter
    
