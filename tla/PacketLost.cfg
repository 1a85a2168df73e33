CONSTANTS
    FullSpeed = TRUE
    OutFreqs <- HighFS
    InpFreqs <- FreqsFS
    OutFrame = 2
    InpFrame = 2
    Capacity = 5
    Interfaces <- BothStreams
    EarlyOpen = FALSE
    MaxPos = 6
    MaxCloses = 0
SPECIFICATION TimedSpec
PROPERTIES
    EveryPacketCopied
