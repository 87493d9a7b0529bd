SPECIFICATION Spec
CONSTANTS
    Block <- MCBlock
    NoBlock = "null"
    Genesis = "g"
    Path <- MCPath
    ChainWork <- MCWork
    Invalid = {"v"}
INVARIANT
    BranchesMeet
