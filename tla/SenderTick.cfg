\* tick is called again before the retransmission is sent.
CONSTANTS
    HalfWord = 8
    None = None
    InitialRTO = 2
    MAX_PAYLOAD_SIZE = 2
    Isn = 15
    StreamLen = 3
    WindowSizes = {0, 1, 4}
    TickMs = {1, 2}
    MaxRetx = 2
SPECIFICATION SynFirstSpec
INVARIANT NeverEmptyFront
