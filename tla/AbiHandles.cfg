\* One database, connection and statement, two streams; the driver may panic.
CONSTANTS
    Databases = {d1}
    Connections = {c1}
    Statements = {s1}
    Streams = {t1, t2}
    Keys = {k1, k2}
    MaxHandles = 5
    Panics = TRUE
SPECIFICATION Spec
INVARIANTS TypeOK HandlesOwned SessionsOwned ReadersOwned ResourcesReturned OptionsInForce
PROPERTY PoisonSticks
CHECK_DEADLOCK FALSE
