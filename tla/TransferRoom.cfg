\* The FIN may arrive with bytes that the receiver has no room for, after an
\* acknowledgment with an old window has come a second time.
CONSTANTS
    HalfWord = 4
    BlockSize = 1
    Wide = 64
    NoByte = NoByte
    None = None
    MaxWindow = 3
    InitialRTO = 1
    MaxSegment = 2
    Isn = 6
    StreamLen = 4
    Capacity = 3
    MaxFaults = 1
    MaxRetx = 0
    FinInOrder = TRUE
    FinFits = FALSE
SPECIFICATION ConnectionSpec
PROPERTY SafeTransfer
CHECK_DEADLOCK FALSE
