CONSTANTS
    FullSpeed = FALSE
    OutFreqs <- LowHS
    InpFreqs <- LowHS
    OutFrame = 2
    InpFrame = 2
    Capacity = 5
    Interfaces <- BothStreams
    EarlyOpen = FALSE
    MaxPos = 4
    MaxCloses = 1
SPECIFICATION TimedSpec
INVARIANTS
    FullMeansUnread
