\* Two files and reads of at most two bytes of a response of two.
CONSTANTS
    Numbers = {0, 1, 2}
    kReadBufferSize = 2
    MaxFiles = 3
    MaxSent = 2
    Disciplined = TRUE
    RequestLen = 2
    ShortWrites = FALSE
    MayReset = TRUE
SPECIFICATION Spec
INVARIANTS OwnsItsFile EofIsExact SuccessIsComplete
PROPERTY WebgetExits
CHECK_DEADLOCK FALSE
