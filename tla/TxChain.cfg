SPECIFICATION FairSpec
CONSTANTS
    MAX_PSDU_SIZE = 1528
    MAX_SYM = 3
    MAX_ENCODED_BITS = 25788
    KEEP_CORRUPTED = FALSE
    CARRIERS = 2
    SEEDS = 2
    Encodings = {0, 5, 7}
    PsduLens = {6, 10}
    NOT_A_PAIR = NOT_A_PAIR
    MAX_PDUS = 3
    MAX_SET = 2
    BUFFER = 7
CHECK_DEADLOCK FALSE
INVARIANTS
    TypeOK
    SeedsFresh
    SignalDescribesPayload
PROPERTIES
    DeliverySpec
    PduSent
