\* A word of eight values; checkpoints up to two and a half words.
CONSTANTS
    HalfWord = 4
    MaxPosition = 20
SPECIFICATION Spec
INVARIANTS UnwrapInverse UnwrapClosest RoundTrip
