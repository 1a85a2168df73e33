CONSTANTS
    FullSpeed = TRUE
    OutFreqs <- HighFS
    InpFreqs <- LowFS
    OutFrame = 2
    InpFrame = 2
    Capacity = 5
    Interfaces <- AllInterfaces
    EarlyOpen = FALSE
    MaxPos = 2
    MaxCloses = 1
SPECIFICATION FairSpec
INVARIANTS
    TypeOK
    ArmedIsCurrent
PROPERTIES
    PacketTaken
    MicServed
