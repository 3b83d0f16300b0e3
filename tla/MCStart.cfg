SPECIFICATION StartSpec
CONSTANTS
    Entries <- SomeEntries
    Firmwares <- SomeFirmwares
    Fdts <- SomeFdts
    ePAPR = 9
    UBoot = 8
    DefaultInitrd = 6
    AddressSpace = 65536
    Bytes = {7, 9}
    SINGLE_CHAR_TIMEOUT = 2
    FIFO_TIMEOUT = 3
    Wrap = 8
    Refclk = 115200
    Baudrate = 115200
    MaxBytes = 3
    Devices = {"d1", "d2"}
    Values = {0, 1}
    Registers <- TwoWords
    Contents <- SomeContents
    MaxWrites = 1
    Settings = {"O", "V"}
    Letters = {"s", "5"}
    Blank = " "
    NewLine = "nl"
    DefaultOpts <- SomeDefaults
    MaxLen = 7
    Drivers = {"serial", "prom"}
    Chars = {"a", "b"}
    MaxText = 3
    MaxPuts = 2
    Word = 1073741824
    IORES_START = 1024
    IORES_TOP = 1152
    Rewind = 12
    MemBase <- MemBases
    Trees <- AllTrees
INVARIANTS
    
    HandOverReady
    BarsApart
    BarsInWindow
    TreeMatchesRegisters
    OptionsAsWritten
    AllTextsArrive
    NothingLost
PROPERTIES
    FirmwareKept
    AllCallsReturn
    ImplementsSpace
