SPECIFICATION FairSpec
CONSTANTS
    FFT = 4
    SYNC_LENGTH = 6
    MIN_PLATEAU = 2
    MIN_GAP = 12
    MAX_SAMPLES = 16
    MAX_WRITTEN = 42
    MAX_TAGS = 3
INVARIANTS
    TypeOK
    ShortTagsApart
    NeverThrows
    FramesInOrder
    NoFrameDropped
    StaleOffsetOnlyOnDefault
PROPERTIES
    LongSpec
    FrameAnnounced
CHECK_DEADLOCK FALSE
