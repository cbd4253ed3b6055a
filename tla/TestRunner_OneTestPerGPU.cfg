CONSTANTS
    g1 = g1
    g2 = g2
    t1 = t1
    t2 = t2
    kfd1 = kfd1
    gone = gone
    KFDs <- NoKFD
    kfdIDToIndex <- NoIndex
    IDs <- TwoGPUs
    GPUs <- TwoGPUs
    Slots <- TwoSlots
    Disks <- GoodDisk
    MaxCrashes = 1
SPECIFICATION RunnerSpec
SYMMETRY Sym
INVARIANT OneTestPerGPU
