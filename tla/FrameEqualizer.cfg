SPECIFICATION EqSpec
CONSTANTS
    MAX_PSDU_SIZE = 1528
    MAX_SYM = 511
    MAX_ENCODED_BITS = 25788
    FFT_LENS = {64, 128}
    N_RX = 2
    KEEP_CORRUPTED = FALSE
    LSigs <- MCLSigs
    HtSigs <- MCHtSigs
    VhtSigs <- MCVhtSigs
    Apeps <- MCApeps
    MAX_VECTORS = 520
    MAX_FRAMES = 3
    MAX_SHORT = 28
CONSTRAINT ShortOrAlone
CHECK_DEADLOCK FALSE
INVARIANTS
    ModesExclusive
    SlotClock
    OwnChannel
    WholeFramesDecoded
    SymbolsOwned
    WritesInBounds
