SPECIFICATION PartSpec
CONSTANTS
    Capacity = 3
    MaxSent = 5
    Key = {a}
    MaxLength = 2
    Line = 2
    FrameHeight = 9
    Lines = {1, 4}
    Wraps = {0, 2}
    MaxRuns = 2
    Width = 4
    Height = 4
    Types = {"YELLOW", "GREEN"}
    Half = 1
    Byte = 3
    Speed = 2
    MaxPieces = 6
    Block = {b1, b2}
    Null = Null
    Appended = {1, 2}
    MaxSize = 3
INVARIANTS
    StackSafe OutputSafe GameSafe
PROPERTIES
    ImplementsRequests TextRight WorkEnds
CHECK_DEADLOCK FALSE
