SPECIFICATION Spec
CONSTANTS
    Message <- SomeMessages
    HeaderSize = 2
    Word = 5
    MaxMessages = 3
INVARIANTS
    NothingHeldBack
    HandshakeFirst
    OwnerAgrees
PROPERTY ImplementsQueue
CHECK_DEADLOCK FALSE
