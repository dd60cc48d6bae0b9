\* The release evidence: a write is always of the plan approved in the current cycle.
CONSTANTS
    b1 = b1
    b2 = b2
    b3 = b3
    b4 = b4
    p1 = p1
    p2 = p2
    x1 = x1
    d1 = d1
    NoValue = NoValue
    Operations = {o1}
    Signals = {}
    Drafts = {}
    Objects = {x1}
    Bundles = {b1, b2, b3, b4}
    Plans = {p1, p2}
    Approvers = {u1}
    Errors = {e1}
    ObjectOf <- NoDrafts
    PlanOf <- FourReadings
    MaxTime = 2
    MaxDeadline = 3
    MaxCycle = 2
    ApprovalTtl = 1
    MaxLag = 3
    MaxFaults = 0
    MaxCrashes = 1
SPECIFICATION RootSpec
CHECK_DEADLOCK FALSE
INVARIANT
    WriteMatchesDecision
