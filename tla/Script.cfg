SPECIFICATION Spec
CONSTANTS
    Scripts <- SomeScripts
    PublicKeys <- SomeKeys
    Signs <- SignsByIndex
    Digest <- DigestOf
    MaxKeys = 20
INVARIANTS
    FailedVerifyRejects
    KeyHashMeans
    MultiSigMeans
    NumbersSurvive
CHECK_DEADLOCK FALSE
