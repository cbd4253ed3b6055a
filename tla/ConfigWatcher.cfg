CONSTANT
    MaxChanges = 1
SPECIFICATION LiveSpec
INVARIANTS
    OneHttp
    RestartsBounded
PROPERTY
    ConfigConverges
CHECK_DEADLOCK FALSE
