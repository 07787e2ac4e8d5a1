\* Another program than webget, which closes twice and makes listeners non-blocking.
CONSTANTS
    Numbers = {0, 1, 2}
    kReadBufferSize = 2
    MaxFiles = 3
    MaxSent = 2
    Disciplined = FALSE
    RequestLen = 2
    ShortWrites = FALSE
    MayReset = TRUE
SPECIFICATION CarelessSpec
INVARIANT OwnsItsFile
CHECK_DEADLOCK FALSE
