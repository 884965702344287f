SPECIFICATION Spec
CONSTANTS
    K = 3
    TAPS <- SmallTaps
    OUTPUT = 3
    SOFT_Q = 8
    METRIC_MOD = 81
    MAX_ENCODED_BITS = 100
    Rates <- SmallRates
    Frames <- SmallFrames
    Stale <- SmallStale
    Confidences = {8}
CHECK_DEADLOCK FALSE
INVARIANTS
    MetricsFit
    SoftAgrees
    DamageConfined
