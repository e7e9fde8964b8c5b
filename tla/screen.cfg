SPECIFICATION PartSpec
CONSTANTS
    N = 2
    Origin = Origin
    None = None
    Here = Here
    There = There
    Place = {Origin, Here, There}
    Width = 5
    Height = 4
    Edge = 2
    GlyphW = 2
    GlyphH = 2
    Ink <- SmallInk
    NextInk = {0}
    Corner <- SmallCorner
    Scales = {1, 2}
    Amounts = {1, 2, 4}
    NewLineOffset = 0
    MaxOps = 2
    Colour = Colour
    High = High
    Low = Low
    Black = Black
    Foreground = Foreground
    Background = Background
INVARIANTS
    NothingForgotten CursorClean
PROPERTIES
    ImplementsCanvas
SYMMETRY Places
CHECK_DEADLOCK FALSE
