SPECIFICATION Spec
CONSTANTS
    Block <- MCBlock
    NoBlock = "null"
    Size <- MCSize
    MaxFileSize = 8
    FileCount = 1
INVARIANT
    EverySavedBlockIsThere
