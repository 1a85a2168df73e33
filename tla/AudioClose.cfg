CONSTANTS
    FullSpeed = FALSE
    OutFreqs <- LowHS
    InpFreqs <- HighHS
    OutFrame = 2
    InpFrame = 2
    Capacity = 2
    Interfaces <- AllInterfaces
    EarlyOpen = FALSE
    MaxPos = 2
    MaxCloses = 1
SPECIFICATION TimedSpec
INVARIANTS
    TimedTypeOK
    NoTxOverlap
    PadFits
    StaleNeedsClose
    FramesWhole
