\* Any configuration against a peer that may answer anything.
CONSTANT MaxOffer = 2
SPECIFICATION Spec
INVARIANTS TypeOK FailsClosed CleartextOnlyOnRequest StrongestOffered Announced ReportsTheTruth NoSocketLeak
CHECK_DEADLOCK FALSE
