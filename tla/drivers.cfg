SPECIFICATION PartSpec
CONSTANTS
    Radix <- ShortRadix
    Period = 2
    MaxTicks = 3
    Configs <- Configurations
    KeyBytes <- Codes
    NoByte = NoByte
    Moves <- WideMoves
    Width = 16
    Height = 24
    StartX = 500
    StartY = 500
    MaxLost = 2
    Segments <- TwoSegments
    Devices = 2
    Funcs = 2
    Machines <- AllMachines
    Ahci <- Controllers
    Screens <- Sizes
    Exceptions <- Messages
    Jokes <- Oops
    Numbers <- Counts
INVARIANTS
    BootOrderly
PROPERTIES
    TimeRight MouseRight SharedByte EnumeratesAll StopsReadably GoesOn
CHECK_DEADLOCK FALSE
