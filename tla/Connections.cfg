SPECIFICATION FairSpec
CONSTANTS
    Address = {a1, a2, a3}
    Invalid = {a3}
    Local = "none"
    External = "none"
    DirectNode = "none"
    NoAddress = "none"
    Seeds = 4
    MaxNodeCount = 2
    Preconnect = 2
    ReconnectTicks = 1
    HandshakeTicks = 2
    Slots = 2
INVARIANTS
    PoolsAgree
    NodesIndexed
    OneOwner
PROPERTIES
    LostAddressReturns
    HandshakeEnds
CHECK_DEADLOCK FALSE
