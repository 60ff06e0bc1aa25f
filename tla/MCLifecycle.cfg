SPECIFICATION Spec
CONSTANTS
    c1 = c1
    c2 = c2
    Callers <- TwoCallers
    Configs <- AllConfigs
    Batches <- MixedBatches
    MaxHandlers = 2
SYMMETRY Symmetry
INVARIANTS
    TypeOK
    ReadyMeansRunning
    CleanShutdown
    LeaksOnlyByReinit
    LeftBehind
    
    BatchIsolation
PROPERTIES
    NoRestart
CHECK_DEADLOCK FALSE
