CONSTANTS
    Size = 3
    MaxLen = 4
    Zero = 0
    Byte <- MCByte
SPECIFICATION FairSpec
INVARIANTS
    TypeOK
    CountersAgree
    TruncatesOnlyWhenForced
    CopyInOrder
PROPERTIES
    ImplementsQueue
    CallsReturn
