SPECIFICATION LiveSpec
CONSTANTS
    g1 = g1
    GPUs <- OneGPU
    maxConsecutiveFailures = 2
    history = 2
    exitOnAgentDown = TRUE
    exitOnRocpctlError = TRUE
INVARIANT ExitAfterMax
PROPERTIES AgentDownExits NodeDownReported ReportConverges
