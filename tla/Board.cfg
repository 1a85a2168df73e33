CONSTANTS
    HSE_STARTUP_TIMEOUT = 3
    CountValues = 4
SPECIFICATION FairBoardSpec
INVARIANTS
    BoardTypeOK
    ClockAsNamed
    MillisAccounted
    TickUnlessTruncated
PROPERTIES
    SwitchedInOrder
    UpdateAgrees
    Returns
