\* One operation with its signal through three approval cycles, two crashes,
\* one failing call, checkpoints three nodes behind.
CONSTANTS
    b1 = b1
    b2 = b2
    b3 = b3
    b4 = b4
    p1 = p1
    p2 = p2
    x1 = x1
    d1 = d1
    NoValue = NoValue
    Operations = {o1}
    Signals = {s1}
    Drafts = {d1}
    Objects = {x1}
    Bundles = {b1, b2, b3, b4}
    Plans = {p1, p2}
    Approvers = {u1}
    Errors = {e1}
    ObjectOf <- OneDraft
    PlanOf <- FourReadings
    MaxTime = 1
    MaxDeadline = 2
    MaxCycle = 3
    ApprovalTtl = 1
    MaxLag = 3
    MaxFaults = 1
    MaxCrashes = 2
SPECIFICATION FairRootSpec
CHECK_DEADLOCK FALSE
INVARIANTS
    WorkOrderIsApproved
    WaitingIsResumable
    DetailLoads
PROPERTIES
    KeepsApprovedWrite
    ComesToRest
    StartupSettlesSignals
