SPECIFICATION Spec
CONSTANTS
  Addr = {a1, a2, a3}
  Null = Null
  RequestCapacity = 1
  MaxStarts = 3
  Installed = {"tty", "topbar", "systemmenu"}
  Guests = {}
  GuestRequests = {}
SYMMETRY Symmetry
CHECK_DEADLOCK FALSE
INVARIANTS
  MenuOwner
