SPECIFICATION Spec
CONSTANTS
    N_TX = 1
    Values <- MCValues
    Sizes = {1}
    MAX_PDUS = 1
    MAX_SET = 2
CHECK_DEADLOCK FALSE
INVARIANT OnlyUnsupportedDropped
