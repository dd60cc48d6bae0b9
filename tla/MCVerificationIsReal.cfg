\* The trace's claim that a verification was made on fresh evidence.
CONSTANTS
    MaxCycles = 2
    MaxCrashes = 0
    MaxFaults = 0
SPECIFICATION TraceSpec
CHECK_DEADLOCK FALSE
INVARIANT
    VerificationIsReal
