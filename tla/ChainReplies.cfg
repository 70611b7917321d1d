\* Chains of up to three commands; reads may run into deadlines.
CONSTANTS
    MaxRequests = 2
    MaxCommands = 3
    MaxReplies = 2
    CorrMod = 8
    Deadlines = TRUE
SPECIFICATION FairSpec
INVARIANTS TypeOK OwnReplies WholeAnswerRead EveryCommandSettled RowsCounted
PROPERTY ReadReturns
CHECK_DEADLOCK FALSE
