SPECIFICATION Spec
CONSTANTS
    Word = 8192
    KICKLIST_ADDR = 1024
    Config = 1
    MaxLines = 4
    KICKLAYOUT = "layout"
    Path <- MCPath
    NameLen <- MCNameLen
    Machine <- MCLowStack
INVARIANT StackAreaFree
