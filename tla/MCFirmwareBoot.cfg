SPECIFICATION FirmwareSpec
CONSTANTS
    Capacity = 3
    PaneLines = 3
    Polls = {1}
    MaxLines = 7
    Names = {"x", "y"}
    Files <- MCFiles
    FLASH_BASE = 10
    APP_OFFSET = 3
    SRAM_BASE = 100
    SRAM_TOP = 104
    MaxUploads = 2
    MaxBoots = 2
INVARIANTS  BootsWhatWasChecked SaysWhatRuns
PROPERTIES PaneCatchesUp
