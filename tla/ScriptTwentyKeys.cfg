SPECIFICATION Spec
CONSTANTS
    Scripts <- TwentyKeys
    PublicKeys <- SomeKeys
    Signs <- SignsByIndex
    Digest <- DigestOf
    MaxKeys = 20
INVARIANT MaximumIsAllowed
CHECK_DEADLOCK FALSE
