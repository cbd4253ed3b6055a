CONSTANTS
    g1 = g1
    g2 = g2
    t1 = t1
    t2 = t2
    kfd1 = kfd1
    gone = gone
    KFDs <- OneKFD
    kfdIDToIndex <- IndexOfKFD
    IDs <- OldIDs
    GPUs <- OneGPU
    Slots <- TwoSlots
    Disks <- AnyDisk
    MaxCrashes = 1
SPECIFICATION RunnerLive
INVARIANT
    CompletedWasTested
PROPERTIES
    TornDBHeals
    InterruptedTestReruns
    UnhealthyIsTested
    CompletedIsCleared
