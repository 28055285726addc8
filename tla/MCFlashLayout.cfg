SPECIFICATION Spec
CONSTANTS
    Requests = {r1, r2}
    SLOT_BACKUP_BASE = 1
    SLOT_STRIDE = 3
    SLOT_IMAGE_OFFSET = 1
    SLOT_COUNT = 2
    STATE_A_BASE = 7
    STATE_B_BASE = 8
    REGION_BASE = 9
    APP_STRIDE = 2
    CODE_OFFSET = 1
    APP_COUNT = 2
    APP_OVERLAY_MAX = 1
    FLASH_SIZE = 13
    Bytes = {1, 2}
    Images <- SomeImages
    Blobs <- SomeBlobs
    MaxEdits = 4
    MaxCrashes = 1
SYMMETRY Symmetry
CHECK_DEADLOCK FALSE
INVARIANTS TableKept NeverTorn
