SPECIFICATION BkSpec
CONSTANTS
    RegBits = 3
    DataBits = 2
    Period = 4
    Jitter = 2
    REG_INTERRUPT = 4
    REG_INT_FLAGS = 2
    REG_INT_ENABLE = 7
    REG_RX_ENABLE = 5
    REG_FREQ = 3
    REG_RSSI_THRESH = 6
    Stations <- OneStation
    NoiseFloor = 1
    FadeStep = 1
    FadePerStep = 3
    Writes <- SomeWrites
    MaxBkResets = 1
INVARIANTS TransferExact RequestHasNews
PROPERTIES LoopDrains NewsHeard
