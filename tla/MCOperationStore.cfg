\* One operation through two approval cycles, and the signal it was started for.
CONSTANTS
    b1 = b1
    b2 = b2
    b3 = b3
    p1 = p1
    p2 = p2
    x1 = x1
    d1 = d1
    NoValue = NoValue
    Operations = {o1}
    Signals = {s1, s2}
    Drafts = {d1}
    Objects = {x1}
    Bundles = {b1, b2, b3}
    Plans = {p1, p2}
    Approvers = {u1, u2}
    Errors = {e1}
    ObjectOf <- OneDraft
    PlanOf <- PlansOrNone
    MaxTime = 2
    MaxDeadline = 2
    MaxCycle = 2
SYMMETRY IdSymmetry
SPECIFICATION Spec
CHECK_DEADLOCK FALSE
INVARIANTS
    OneDecisionPerCycle
    DecisionBindsSnapshot
    DeadlineDecides
    ExecutionIsBacked
    WriteFollowsApproval
    AuditExplainsRow
PROPERTIES
    TerminalIsFinal
    SignalFollowsOperation
