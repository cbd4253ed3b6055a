CONSTANTS
    e1 = e1
    e2 = e2
    Emitters <- MCEmitters
    QueueSize = 1
    MaxEmits = 1
    OnCluster = TRUE
SPECIFICATION LiveSpec
INVARIANTS
    DeliverOnce
    DrainComplete
    ExitAfterDrain
PROPERTIES
    StopClosesOnce
    ShutdownTerminates
    FatalExits
