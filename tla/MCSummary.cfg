SPECIFICATION Spec
CONSTANTS
    a1 = a1
    a2 = a2
    t1 = t1
    t2 = t2
    Adders <- MCAdders
    Topics <- MCTopics
    MaxAdds = 4
    MaxPrints = 2
CHECK_DEADLOCK FALSE
SYMMETRY Symmetry
INVARIANTS ExportedAccounting StreamBound QuietCount
