SPECIFICATION Spec
CONSTANTS
    Block <- MCBlock
    NoBlock = "null"
    Size <- MCSize
    MaxFileSize = 5
    FileCount = 2
INVARIANTS
    SavedBlockIsThere
    PlacesAreApart
PROPERTIES
    FirstFileIsCovered
    SavedSizesGrow
