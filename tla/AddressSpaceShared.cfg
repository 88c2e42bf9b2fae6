SPECIFICATION Spec
CONSTANTS
    Cpus = {c1, c2}
    MAX_ORDER = 3
    FramesPerBookPage = 8
    MaxWaste = 1
    MemoryRegions <- MCMemoryRegions
    FirstPage = 2
    Pages = 3
    TableEntries = 2
    FANOUT = 2
    Sizes = {1, 2, 3}
    HeapNeeds = {2, 3}
    MaxHeapChunks = 1
    SharedMemories = TRUE
    MaxMmaps = 2
SYMMETRY Symmetry
PROPERTY
    WrittenPageKept
CHECK_DEADLOCK FALSE
