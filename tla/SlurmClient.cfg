SPECIFICATION SlurmLive
CONSTANTS
    GPUs <- TwoGPUs
    Jobs <- SomeJobs
    gpusOf <- TheirGPUs
    NoJob = "none"
INVARIANT
    SettledAgrees
PROPERTY
    JobIsListed
CHECK_DEADLOCK FALSE
