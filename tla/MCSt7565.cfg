SPECIFICATION PanelSpec
CONSTANTS
    Pages = 2
    Width = 3
    Margin = 1
    Nibble = 2
    Frames <- TwoFrames
    Contrasts = {1, 2}
    MaxPanelResets = 2
INVARIANTS SettingsFollow
PROPERTIES GlassCatchesUp
