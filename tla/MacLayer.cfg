SPECIFICATION Spec
CONSTANTS
    a = a
    b = b
    OTHERS = OTHERS
    Stations = {a, b}
    Hears <- Links
    Foreign <- OtherFrames
    MAX_HEARD = 3
    MAX_FOREIGN = 1
    SEQ_MOD = 4
    COUNTER_MOD = 4
    MAX_PAYLOAD_SIZE = 1500
    TapLengths <- Lengths
    MaxTap <- Tap
    MAX_WAITING = 1
CHECK_DEADLOCK FALSE
INVARIANTS
    TypeOK
    RepeatsSuppressed
    NewFramesDelivered
    LossCounted
PROPERTY PacketSpec
