\* Calls overlap; the link may break and the peer sends what the driver cannot use.
CONSTANTS
    Workers = {w1, w2}
    NoWorker = NoWorker
    MaxRows = 0
    MaxWork = 0
    Serial = FALSE
    Faults = {"break", "decode", "empty"}
    NoAutoBind = FALSE
SPECIFICATION FairSpec
PROPERTY CallsReturn
