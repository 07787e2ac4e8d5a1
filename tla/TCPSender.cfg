\* Segments of up to two bytes, sequence numbers that wrap at 16 behind the
\* SYN, windows of zero, one and more than a segment.
CONSTANTS
    HalfWord = 8
    None = None
    InitialRTO = 2
    MAX_PAYLOAD_SIZE = 2
    Isn = 15
    StreamLen = 5
    WindowSizes = {0, 1, 3, 5}
    TickMs = {1, 2}
    MaxRetx = 2
SPECIFICATION DrainedSpec
INVARIANTS CountersMatchQueues OutstandingIsStream
    FinOnlyAtEnd FinNotLost TimerRunsForUnacked BackoffExact
PROPERTY WindowRespected
