SPECIFICATION Spec
CONSTANTS
    K = 7
    TAPS <- FullTaps
    OUTPUT = 8
    SOFT_Q = 8
    METRIC_MOD = 256
    MAX_ENCODED_BITS = 25788
    Rates <- FullRates
    Frames <- FullFrames
    Stale <- LeftByLong
    Confidences = {8}
CHECK_DEADLOCK FALSE
INVARIANTS
    PayloadDecoded
