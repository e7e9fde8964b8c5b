SPECIFICATION Spec
CONSTANTS
  Addr = {a1, a2, a3}
  Null = Null
  RequestCapacity = 2
  MaxStarts = 4
  Installed = {"tty", "desktop", "topbar"}
  Guests = {}
  GuestRequests = {}
SYMMETRY Symmetry
CHECK_DEADLOCK FALSE
INVARIANTS
  NoTwins
  FullscreenAtBottom
