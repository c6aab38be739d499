SPECIFICATION Spec
CONSTANTS
    PAGES = 2
    COLS = 4
    Low = 2
    Byte <- MCByte
    SetPage = 34
    SetPageAsPage = 1
    LowColumn = 64
    HighColumn = 16
    Images <- MCImages
    None = none
    MaxAbandoned = 2
INVARIANTS
    ShiftedInMode
    PanelShowsBuffer
