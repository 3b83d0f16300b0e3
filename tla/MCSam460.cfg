SPECIFICATION SamSpec
CONSTANTS
    Word = 1073741824
    Board = "sam460"
    Slots = 3
    IoStart = 64
    iolen = 16384
    membase = 536870912
    memlen = 134217728
    Hardware <- SamHardware
    MemSizes <- Sizes
    Lines <- SomeLines
    Reload = 2
    MaxTokens = 6
    MaxDepth = 3
    Lengths = {0, 7, 8}
    MaxIdx = 2
    buflen = 8
INVARIANTS
    BarsDisjoint
    BarsInWindow
    BarsAligned
    TreeRead
    CodeStaysMapped
    MemoryMap
    PciReachable
    NothingStale
PROPERTIES
    RefusedOnlyWhenFull
    ScanEnds
    InterruptsAndTimer
