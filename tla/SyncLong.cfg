SPECIFICATION LongSpec
CONSTANTS
    FFT = 4
    SYNC_LENGTH = 6
    MAX_WRITTEN = 20
    MAX_TAGS = 3
INVARIANTS
    VectorAligned
    GuardIntervalsStripped
    ThrowsOnlyOnCloseTags
    AbandonedOnlyOnCloseTags
CHECK_DEADLOCK FALSE
