SPECIFICATION FairSpec
CONSTANTS
    Block <- ChainedBlock
    NoBlock = "null"
    Genesis = "g"
    Path <- ChainedPath
    ChainWork <- ChainedWork
    Node = {n1, n2}
    Silent = {n1}
    NoNode = "null"
    MaxHeaders = 2
    BatchSize = 2
    MaxArrived = 2
INVARIANT RecordIsOutstanding
PROPERTIES
    HeadersArrive
    SilentRequesterGoes
    AskedOnce
CHECK_DEADLOCK FALSE
