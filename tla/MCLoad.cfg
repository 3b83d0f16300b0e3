SPECIFICATION LoadSpec
CONSTANTS
    Word = 8192
    KICKLIST_ADDR = 1024
    Config = 2
    MaxLines = 5
    KICKLAYOUT = "layout"
    Path <- MCPath
    NameLen <- MCNameLen
    Machine <- MCMachine
    MAXBITS = 3
    ByteSize = 2
    Symbols = 4
    Bytes = 3
    Needs <- SomeNeeds
    Lits = 2
    MAXLCODES = 5
    MAXDCODES = 2
    CountBits = 2
    NcodeBits = 1
    CodeBits = 1
    MinCode = 6
    ByteBits = 4
    MaxStored = 2
    lens <- SmallLens
    lext <- SmallLext
    dists <- SmallDists
    dext <- SmallDext
    FixLens <- SmallFixLens
    FixDists <- SmallFixDists
    order <- SmallOrder
    Repeats <- SmallRepeats
    Calls <- SmallCalls
    Archives <- SomeArchives
    Names <- WantedNames
    MaxName = 255
    MaxZip = 16777216
    MaxFinds = 2
INVARIANTS
    LiveRegionsDisjoint
    WritesWithinClaims
    ClaimsWithinMemory
    KicklistWellFormed
    ListMatchesText
    FindsFiles
    ExtractsWanted
    InBounds
    OutIsExpansion
    ReturnIsRight
PROPERTIES
    KickListSpec
    DecodesCanonicalCode
    InflateEnds
