\* The contexts of the calls carry deadlines.
CONSTANTS
    MaxRequests = 2
    MaxCommands = 3
    MaxReplies = 2
    CorrMod = 8
    Deadlines = TRUE
SPECIFICATION Spec
INVARIANT DoneOnLastRequest
CHECK_DEADLOCK FALSE
