SPECIFICATION Spec
CONSTANTS
    Block <- MCBlock
    NoBlock = "null"
    Size <- MCSize
    MaxFileSize = 3
    FileCount = 2
PROPERTY
    LostOnlyByMeeting
