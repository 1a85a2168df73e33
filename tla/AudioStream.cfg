CONSTANTS
    FullSpeed = TRUE
    OutFreqs <- HighFS
    InpFreqs <- LowFS
    OutFrame = 2
    InpFrame = 2
    Capacity = 3
    Interfaces <- BothStreams
    EarlyOpen = FALSE
    MaxPos = 4
    MaxCloses = 0
SPECIFICATION TimedSpec
INVARIANTS
    NoRxOverlap
    WholePacketsArmed
    FramesWhole
    NothingForgotten
PROPERTIES
    MicInOrder
    LossNeedsClobber
    ImplementsLoopback
