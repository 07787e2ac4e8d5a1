\* Sequence numbers wrap at 12 and start at 10.
CONSTANTS
    HalfWord = 6
    BlockSize = 2
    Wide = 64
    NoByte = NoByte
    None = None
    MaxWindow = 2
    Capacity = 3
    StreamLen = 9
    MaxSegment = 2
    Isn = 10
SPECIFICATION ReceiverSpec
INVARIANT AckMatchesStream
PROPERTY WindowNeverShrinks
