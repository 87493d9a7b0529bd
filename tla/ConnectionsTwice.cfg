SPECIFICATION Spec
CONSTANTS
    Address = {a1}
    Invalid = {}
    Local = "none"
    External = "none"
    DirectNode = "none"
    NoAddress = "none"
    Seeds = 3
    MaxNodeCount = 2
    Preconnect = 2
    ReconnectTicks = 1
    HandshakeTicks = 2
    Slots = 2
INVARIANT AddressConnectedOnce
CHECK_DEADLOCK FALSE
