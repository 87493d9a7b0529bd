SPECIFICATION FairSpec
CONSTANTS
    Block <- ChainedBlock
    NoBlock = "null"
    Genesis = "g"
    Path <- ChainedPath
    ChainWork <- ChainedWork
    Node = {n1}
    Silent = {}
    NoNode = "null"
    MaxHeaders = 2
    BatchSize = 1
    MaxArrived = 2
PROPERTY AnnouncedArrives
CHECK_DEADLOCK FALSE
