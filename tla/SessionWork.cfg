\* Units of work, autocommit and auto-bind, calls serialized; link and peer may fail.
CONSTANTS
    Workers = {w1, w2}
    NoWorker = NoWorker
    MaxRows = 0
    MaxWork = 2
    Serial = TRUE
    Faults = {"break", "decode", "nopkg"}
    NoAutoBind = FALSE
SPECIFICATION Spec
SYMMETRY Symmetry
INVARIANTS AckedDurable AutoCommitLeavesOnlyFailures SerialFetchHasCursor
PROPERTY ManualCommitOnly
