SPECIFICATION Spec
CONSTANTS
    MAX_PSDU_SIZE = 1528
    MAX_SYM = 511
    MAX_ENCODED_BITS = 25788
    KEEP_CORRUPTED = FALSE
    UNINITIALISED <- PastCopied
    FFT_LENS = {64}
    N_RX = 1
    LSigs <- ChainLSigs
    HtSigs <- ChainHtSigs
    VhtSigs <- NoVhtSigs
    Apeps <- NoApeps
    MAX_VECTORS = 14
    MAX_FRAMES = 3
CHECK_DEADLOCK FALSE
INVARIANT DroppedNotDecoded
