SPECIFICATION Spec
CONSTANTS
    PAGES = 3
    COLS = 4
    FONT = 2
    Glyph <- MCGlyph
    Texts <- MCTexts
    Ding <- MCDing
    Name <- MCName
    None = none
INVARIANTS
    LinesHoldPrints
    PanelLags
    OneBytePast
    WipesAroundName
