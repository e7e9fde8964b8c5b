SPECIFICATION FairSpec
CONSTANTS
  Addr = {a1, a2}
  Null = Null
  RequestCapacity = 1
  MaxStarts = 3
  Installed = {"tty"}
  Guests = {"app"}
  GuestRequests = {"SUCCESS", "CLEAR", "KILL"}
CHECK_DEADLOCK FALSE
PROPERTIES
  TtyComesBack
  LoopComesRound
