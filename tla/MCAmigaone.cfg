SPECIFICATION AmigaoneSpec
CONSTANTS
    Word = 1073741824
    Board = "amigaone"
    Slots = 8
    IoStart = 2097152
    iolen = 3145728
    membase = 536870912
    memlen = 524288000
    Hardware <- AoneHardware
INVARIANTS
    EveryBarVisited
    DecodesWhatIsMapped
    SizeIsRight
PROPERTY SetupEnds
