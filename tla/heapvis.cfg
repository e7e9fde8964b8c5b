SPECIFICATION HeapSpec
CONSTANTS
  Header = 24
  Quantum = 64
  PageSize = 4096
  MinSplit = 4096
  StartSize = 65536
  Word = 1073741824
  Requests = {40, 65450, 73663}
  MaxBlocks = 4
  MaxAllocations = 4
CHECK_DEADLOCK FALSE
INVARIANTS
  AllShown
