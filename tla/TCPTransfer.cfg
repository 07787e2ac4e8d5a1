\* A receive window of two bytes that the reader has to open again.
CONSTANTS
    HalfWord = 4
    BlockSize = 1
    Wide = 64
    NoByte = NoByte
    None = None
    MaxWindow = 2
    InitialRTO = 1
    MaxSegment = 2
    Isn = 6
    StreamLen = 3
    Capacity = 2
    MaxFaults = 1
    MaxRetx = 1
    FinInOrder = TRUE
    FinFits = TRUE
SPECIFICATION FairSpec
INVARIANT AckedIsDelivered
PROPERTIES ImplementsTransfer EventuallyFinished
CHECK_DEADLOCK FALSE
