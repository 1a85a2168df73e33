CONSTANTS
    FullSpeed = TRUE
    OutFreqs <- HighFS
    InpFreqs <- FreqsFS
    OutFrame = 2
    InpFrame = 2
    Capacity = 5
    Interfaces <- BothStreams
    EarlyOpen = TRUE
    MaxPos = 2
    MaxCloses = 1
SPECIFICATION Spec
INVARIANTS
    ReadHasRoom
