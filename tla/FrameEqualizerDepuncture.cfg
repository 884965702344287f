SPECIFICATION EqSpec
CONSTANTS
    MAX_PSDU_SIZE = 1528
    MAX_SYM = 511
    MAX_ENCODED_BITS = 25788
    FFT_LENS = {64}
    N_RX = 2
    KEEP_CORRUPTED = FALSE
    LSigs <- MCLSigs
    HtSigs <- MCHtSigs
    VhtSigs <- MCVhtSigs
    Apeps <- MCApeps
    MAX_VECTORS = 520
    MAX_FRAMES = 1
    MAX_SHORT = 28
CHECK_DEADLOCK FALSE
INVARIANT DepunctureFits
