\* Two approval cycles, one crash, one failing call.
CONSTANTS
    MaxCycles = 2
    MaxCrashes = 1
    MaxFaults = 1
SPECIFICATION TraceSpec
CHECK_DEADLOCK FALSE
INVARIANTS
    EventsAreRecordedOnce
    TraceTellsOutcome
    TraceReflectsOperation
    VerificationPrecedesExecution
