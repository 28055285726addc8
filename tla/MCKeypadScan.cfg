SPECIFICATION Spec
CONSTANTS
    KEYPAD_COLS = 5
    KEYPAD_ROWS = 4
    Keys <- KeypadKeys
    MaxResets = 2
INVARIANTS LinesFollow
PROPERTIES ScanFindsKey BootKeyLetsGo
