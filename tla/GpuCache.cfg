CONSTANTS
    c1 = c1
    c2 = c2
    Callers <- TwoCallers
    cacheTimer = 2
    MaxTime = 3
SPECIFICATION LiveSpec
INVARIANTS HardwareRate FreshAtCall
PROPERTY CallsReturn
