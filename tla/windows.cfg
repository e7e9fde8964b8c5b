CONSTANTS
    desktop = desktop
    menu = menu
    window = window
    None = None
    Proc = {desktop, menu, window}
    ScreenW = 12
    ScreenH = 9
    Edge = 1
    Bar = 4
    ButtonSize = 2
    MinWidth = 9
    GlyphW = 1
    GlyphH = 3
    RightMargin = 2
    LowerMargin = 2
    Spots <- MCSpots
    Answers = {menu}
    Type <- MCType
    Size <- MCSize
    Place <- MCPlace
    TitleLength <- MCTitle
SPECIFICATION Spec
INVARIANTS
    PictureRight ClickMeetsPicture StaysInReach
VIEW MCView
