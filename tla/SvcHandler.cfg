CONSTANTS
    Sockets = 1
    MaxStarts = 2
    MaxErrors = 2
SPECIFICATION LiveSpec
INVARIANTS
    StoppedOnce
    NoServerForgotten
PROPERTY
    ErrorStopsServer
CHECK_DEADLOCK FALSE
