SPECIFICATION FdtSpec
CONSTANTS
    MaxTokens = 6
    MaxDepth = 3
    Lengths = {8}
    MaxIdx = 1
    buflen = 8
INVARIANT OwnPropertyOnly
