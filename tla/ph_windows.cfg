SPECIFICATION Spec
CONSTANTS
  Addr = {a1, a2, a3}
  Null = Null
  RequestCapacity = 1
  MaxStarts = 3
  Installed = {"tty", "terminal"}
  Guests = {"app"}
  GuestRequests = {"SUCCESS", "RESET", "KILL"}
SYMMETRY Symmetry
CHECK_DEADLOCK FALSE
INVARIANTS
  TableIntact
  PointersLive
  FaultOrigin
PROPERTIES
  OrphanedOnlyByReset
