CONSTANTS
    Requests = {r1, r2, r3, r4, r5}
    Limit = 2  Window = 3  TTL = 4
    MaxDelay = 1  MaxErrors = 1  MaxClock = 8
    WindowLimit = 2  WindowTicks = 5  TicksPerSecond = 2
    MaxRequests = 7  MaxTicks = 11
SPECIFICATION LimiterSpec
SYMMETRY Symmetry
INVARIANTS TypeOK AdmittedWithinRate BurstAtMostTwice
PROPERTIES ImplementsIdealBucket RefusedOnlyAtLimit
CHECK_DEADLOCK FALSE
