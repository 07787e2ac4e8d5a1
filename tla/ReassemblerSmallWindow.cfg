\* A window that fits into one block of the bitmap, as every capacity up to 32
\* does in the code.
CONSTANTS
    BlockSize = 4
    Wide = 64
    NoByte = NoByte
    Capacity = 3
    StreamLen = 7
    MaxSegment = 2
SPECIFICATION Spec
INVARIANT StreamIntact
