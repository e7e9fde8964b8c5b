SPECIFICATION PartSpec
CONSTANTS
    Digit <- MCDigit
    MaxDigits = 2
    Word = 32
    Long = 8192
    Garbage = 777
    MaxPresses = 4
    Keys = {"shift", "star", "caps", "h", "up", "one", "rshift"}
    Argument <- MCArgument
    FirstID = 58
    MaxID = 62
    FontAmount = 60
    IDs = {1, 9, 10, 99, 100, 999, 1000}
    Sizes = {64, 999, 1000, 4096, 99999, 2000000, 900000000}
    MaxRows = 40
    Numbers = {0, 7, 10, 99, 100, 2047, 123456, 1000000}
    Wide = 100000
INVARIANTS
    ArithmeticRight TablesRight
PROPERTIES
    KeysReleased 
CHECK_DEADLOCK FALSE
