SPECIFICATION Spec
CONSTANTS
    Block <- ForkedBlock
    NoBlock = "null"
    Genesis = "g"
    Path <- ForkedPath
    ChainWork <- ForkedWork
    Node = {n1, n2}
    Silent = {}
    NoNode = "null"
    MaxHeaders = 2
    BatchSize = 1
    MaxArrived = 1
SYMMETRY NodeSymmetry
INVARIANTS
    ParentFirst
    NoGapInRequests
CHECK_DEADLOCK FALSE
