SPECIFICATION FairSpec
CONSTANTS
    N_TX = 2
    Values <- MCValues
    Sizes = {1, 2}
    MAX_PDUS = 2
    MAX_SET = 2
CHECK_DEADLOCK FALSE
INVARIANTS
    AntennasTogether
    BuiltAsConfigured
PROPERTY
    EveryPduHandled
