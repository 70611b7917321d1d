\* Results of up to two rows in blocks of two to seven bytes; DSSs of up to 15 bytes.
CONSTANTS
    HighBit = 16
    MaxRows = 2
    BodySizes = {1, 5, 6, 14, 20}
    MinBlock = 2
    BlockSizes = {2, 3, 7}
    MaxBlocks = 2
    MaxBatches = 1
SPECIFICATION Spec
INVARIANTS TypeOK RequestsIntact BytesAccounted
PROPERTY ImplementsStream
CHECK_DEADLOCK FALSE
