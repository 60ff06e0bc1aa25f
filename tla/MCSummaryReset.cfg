SPECIFICATION Spec
CONSTANTS
    a1 = a1
    a2 = a2
    t1 = t1
    t2 = t2
    Adders <- OneAdder
    Topics <- OneTopic
    MaxAdds = 2
    MaxPrints = 1
CHECK_DEADLOCK FALSE
INVARIANTS ResetClears
