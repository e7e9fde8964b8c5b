SPECIFICATION PartSpec
CONSTANTS
    PageAmount = 12
    MemoryMap <- SmallMap
    Kernel <- SmallKernel
    Screen <- SmallScreen
    Header = 24
    Quantum = 64
    PageSize = 4096
    MinSplit = 4096
    StartSize = 65536
    Word = 1073741824
    Requests = {40, 73663, 65450}
    MaxBlocks = 4
    MaxAllocations = 6
    HeaderSize = 1
    Granule = 2
    PageUnit = 4
    LeastRest = 2
    StartSizes = {4, 10}
    Top = 26
    Sizes = {1, 3}
    MaxGiven = 4
    MaxSteps = 6
    Virtual <- SmallVirtual
    Index = {0, 1}
    Boot <- SmallBoot
    Registers = {3}
    LastPage = 8
    MaxCalls = 3
    Absent = Absent
    PageBytes = 2
    TopPage = 4
    Machines <- SmallMachines
    Images <- SmallImages
    Volumes <- SmallVolumes
    MaxTables = 2
    MaxEvents = 1
    MaxMap = 2
    Element = {one, two}
    Junk = Junk
    Width = 8
    BlockQuantum = 32
    MaxLength = 6
INVARIANTS
    PagesSafe HeapSafe BlocksSafe TableSafe KernelReceives
PROPERTIES
    ImplementsBlocks ImplementsAddressSpace ImplementsItems
CHECK_DEADLOCK FALSE
