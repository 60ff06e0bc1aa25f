SPECIFICATION Spec
CONSTANTS
    c1 = c1
    c2 = c2
    r1 = r1
    r2 = r2
    NoRoot = NoRoot
    Callers <- MCCallers
    Roots <- MCRoots
    BlockSlot <- MCBlockSlot
    Events <- DedupEvents
    Drifts <- NoDrift
    NumSinks = 0
    MaxTime = 6
    MaxCalls = 3
    Lead = 0
    TicksPerSlot = 1
    SlotsPerEpoch = 2
    MaxSlotAge = 2
    NanosPerMilli = 2
    ConsensusTTL = 3
    PartialTTL = 1
    BlockSlotTTL = 2
SYMMETRY Symmetry
INVARIANTS AtMostOnce SpacedApart NoFreshLoss FreshWhenClaimed
