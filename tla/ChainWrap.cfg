\* A batch with more rows than there are correlation ids.
CONSTANTS
    MaxRequests = 2
    MaxCommands = 4
    MaxReplies = 2
    CorrMod = 4
    Deadlines = FALSE
SPECIFICATION Spec
INVARIANT RowsCounted
CHECK_DEADLOCK FALSE
