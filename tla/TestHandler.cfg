CONSTANT
    Iterations = 3
SPECIFICATION LiveSpec
INVARIANTS
    ProcessWithinIteration
    NoSendOnClosed
    StopTestQuiesces
PROPERTIES
    KeepsPromise
    RunEnds
