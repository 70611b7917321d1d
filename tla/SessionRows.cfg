\* Two readers on one connection, calls of two goroutines overlap, the link may break.
CONSTANTS
    Workers = {w1, w2}
    NoWorker = NoWorker
    MaxRows = 2
    MaxWork = 0
    Serial = FALSE
    Faults = {"break"}
    NoAutoBind = FALSE
SPECIFICATION Spec
SYMMETRY Symmetry
INVARIANTS TypeOK RowsAccounted CompleteUnlessCut CursorTracked SectionFree
