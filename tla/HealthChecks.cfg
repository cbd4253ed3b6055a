CONSTANTS
    g1 = g1
    gone = gone
    f1 = f1
    GPUs <- OneGPU
    Devices <- TwoDevices
    Fields <- OneField
    Counts <- TwoCounts
    AllOnes <- Sentinels
    Threshold <- ZeroThreshold
    MaxAge = 1
    StartTime = 2
    MaxTime = 3
    MaxRecords = 2
    MaxFaults = 3
SPECIFICATION LiveSpec
INVARIANTS
    LatestCorrect
    NoFalseAlarm
PROPERTY
    ReportFollows
