CONSTANTS
    c1 = c1
    c2 = c2
    Callers <- TwoCallers
    failThreshold = 3
SPECIFICATION LiveSpec
INVARIANT ReasonIffDisabled
PROPERTY FailingIsDisabled
