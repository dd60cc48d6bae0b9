\* One operation of any scenario through three approval cycles, one crash, one
\* failing call, checkpoints three nodes behind.
CONSTANTS
    b1 = b1
    b2 = b2
    b3 = b3
    b4 = b4
    p1 = p1
    p2 = p2
    x1 = x1
    x2 = x2
    x3 = x3
    NoValue = NoValue
    Operations = {o1}
    Signals = {}
    Drafts = {}
    Objects = {x1, x2, x3}
    Bundles = {b1, b2, b3, b4}
    Plans = {p1, p2}
    Approvers = {u1}
    Errors = {e1}
    ObjectOf <- NoDrafts
    PlanOf <- FourReadings
    ScenarioOf <- EachScenario
    MaxTime = 1
    MaxDeadline = 2
    MaxCycle = 3
    ApprovalTtl = 1
    MaxLag = 3
    MaxFaults = 1
    MaxCrashes = 1
SPECIFICATION ScenarioSpec
CHECK_DEADLOCK FALSE
INVARIANTS
    InterruptHoldsRowFacts
    RecordedEvidenceIsSaved
    RestartUsesDecision
PROPERTIES
    ScenarioKeepsApprovedWrite
    ScenarioComesToRest
    StrandedOnlyFarBehind
