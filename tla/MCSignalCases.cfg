\* Two users, two conditions of one object and a retry.
CONSTANTS
    b1 = b1
    x1 = x1
    d1 = d1
    d2 = d2
    NoValue = NoValue
    Operations = {o1, o2}
    Signals = {s1, s2, s3, s4}
    Drafts = {d1, d2}
    Objects = {x1}
    Bundles = {b1}
    Plans = {}
    Approvers = {}
    Errors = {e1}
    Users = {u1, u2}
    ObjectOf <- OneObject
    PlanOf <- NoAction
    MaxTime = 0
    MaxDeadline = 0
    MaxCycle = 0
SYMMETRY IdSymmetry
SPECIFICATION CaseSpec
CHECK_DEADLOCK FALSE
INVARIANTS
    SignalClaim
    SignalLineage
    CaseIsWhole
    OfferedActionStarts
