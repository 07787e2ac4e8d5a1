\* Bytes of six bits: words of 12 and addresses of 24.
CONSTANTS
    Nibble = 8
    Datagrams <- MCDatagrams
    Messages <- MCMessages
    Link <- MCLink
    MaxHops = 3
    DamageBytes = {0, 1, 31, 32, 62, 63}
SPECIFICATION Spec
INVARIANTS Transparent DamageNoticed NeverReadsEmpty
CHECK_DEADLOCK FALSE
