SPECIFICATION RunSpec
CONSTANTS
    LimbBits = 3
    Limbs = 4
    ByteBits = 2
    Inputs <- SomeInputs
    MaxItems = 2
    MaxScript = 1
INVARIANTS
    ArithmeticIsModular
    CompactNumbersAreExact
    EqualRootsAreFlagged
    WalksFindAncestors
    EncodingsReadBack
CHECK_DEADLOCK FALSE
