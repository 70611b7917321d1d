\* A second statement while a reader is open.
CONSTANTS
    Workers = {w1, w2}
    NoWorker = NoWorker
    MaxRows = 2
    MaxWork = 0
    Serial = TRUE
    Faults = {}
    NoAutoBind = FALSE
SPECIFICATION Spec
SYMMETRY Symmetry
INVARIANT CompleteResult
