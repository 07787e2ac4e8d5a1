\* The network may deliver the FIN before the data in front of it.
CONSTANTS
    HalfWord = 4
    BlockSize = 1
    Wide = 64
    NoByte = NoByte
    None = None
    MaxWindow = 2
    InitialRTO = 1
    MaxSegment = 2
    Isn = 6
    StreamLen = 3
    Capacity = 2
    MaxFaults = 1
    MaxRetx = 1
    FinInOrder = FALSE
    FinFits = FALSE
SPECIFICATION ConnectionSpec
INVARIANT AckedIsDelivered
CHECK_DEADLOCK FALSE
