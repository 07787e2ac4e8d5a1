\* A window of two blocks, the second partly used, and substrings short enough
\* never to wrap around into the block they start in: MaxSegment is at most
\* Capacity - BlockSize + 1, as with the segments and capacities of TCPConfig.
CONSTANTS
    BlockSize = 2
    Wide = 64
    NoByte = NoByte
    Capacity = 5
    StreamLen = 8
    MaxSegment = 4
SPECIFICATION Spec
INVARIANTS StreamIntact WindowConsistent CompleteIsClosed
PROPERTY ImplementsReassembler
