\* Two processes, two crashes, two failing calls, checkpoints two nodes behind.
CONSTANTS
    Processes = {p1, p2}
    Payload = payload
    NoValue = NoValue
    MaxLag = 2
    MaxFaults = 2
    MaxCrashes = 2
SPECIFICATION ReliabilitySpec
INVARIANTS
    HistoryIsOnePath
    CheckpointIsBehindRow
PROPERTIES
    ReliabilityKeepsApprovedWrite
    DecisionTakesEffect
