SPECIFICATION SamplerLive
CONSTANTS
    Counters <- SomeCounters
    Requests <- SomeRequests
    all_fields <- BasicFields
    MaxAgents = 2
    MAX_COUNTER_PER_PROFILE = 2
INVARIANTS
    ProfilesDisjoint
    MissingOnlyIfRefused
PROPERTIES
    KeepsContract
    ProgramEnds
CHECK_DEADLOCK FALSE
