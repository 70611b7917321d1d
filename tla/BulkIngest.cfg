\* An autocommitting and a manual session ingest into one table.
CONSTANTS
    Sessions = {a, m}
    AutoCommit = {a}
    Lengths = {1, 6}
    MaxRecords = 2
    MaxRows = 2
    BatchRows = 2
    BatchBytes = 8
    MinLength = 2
    MaxLength = 6
    MaxAttempts = 2
    Breaks = TRUE
SPECIFICATION FairSpec
INVARIANTS TypeOK NothingCommittedEarly SampleFits
PROPERTIES EveryRowOnce OnlyReplaceDiscards IngestReturns
CHECK_DEADLOCK FALSE
