SPECIFICATION Spec
CONSTANTS
    Word = 1073741824
    Machine <- AllSizes
PROPERTY ProbeEnds
