\* The claim that every outcome ends its trace run, without any crash.
CONSTANTS
    MaxCycles = 2
    MaxCrashes = 0
    MaxFaults = 0
SPECIFICATION TraceSpec
CHECK_DEADLOCK FALSE
INVARIANT
    EndedRunIsClosed
