\* Three bytes of room, strings of up to four of two letters, eight bytes in all.
CONSTANTS
    Capacity = 3
    Byte = {a, b}
    Zero = zero
    MaxChunk = 4
    MaxBytes = 8
    Chunk <- MCChunk
SPECIFICATION Spec
INVARIANTS IndicesInBounds ArrayNeverGrows
PROPERTY ImplementsQueue
