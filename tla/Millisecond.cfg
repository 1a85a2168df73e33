CONSTANTS
    HSE_STARTUP_TIMEOUT = 2
    CountValues = 4
SPECIFICATION BoardSpec
INVARIANTS
    TickIsMillisecond
