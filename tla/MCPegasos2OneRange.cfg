SPECIFICATION BusesSpec
CONSTANTS
    Word = 1073741824
    IORES_START = 1024
    IORES_TOP = 1152
    Rewind = 12
    MemBase <- MemBases
    Trees <- OneRangeTrees
INVARIANT WindowsAreOwn
