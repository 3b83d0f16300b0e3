SPECIFICATION Spec
CONSTANTS
    Word = 1073741824
    Board = "sam460"
    Slots = 3
    IoStart = 64
    iolen = 16384
    membase = 536870912
    memlen = 134217728
    Hardware <- BigBars
INVARIANT InWindow
