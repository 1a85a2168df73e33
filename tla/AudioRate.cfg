CONSTANTS
    FullSpeed = FALSE
    OutFreqs <- LowHS
    InpFreqs <- FreqsHS
    OutFrame = 2
    InpFrame = 2
    Capacity = 5
    Interfaces <- BothStreams
    EarlyOpen = FALSE
    MaxPos = 2
    MaxCloses = 0
SPECIFICATION TimedSpec
INVARIANTS
    TransfersFit
    MicFollows
