CONSTANTS
    HSE_STARTUP_TIMEOUT = 3
SPECIFICATION ClockSpec
INVARIANTS
    CoreClockUpdated
