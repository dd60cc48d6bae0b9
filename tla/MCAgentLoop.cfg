\* A required and an optional tool, the smallest budgets that are enough, two crashes.
CONSTANTS
    Offered = {subject, knowledge}
    Required = {subject}
    Foreign = {foreign}
    CallIds = {c1, c2, c3}
    MaxModelCalls = 4
    MaxToolCalls = 2
    MaxCallsPerTurn = 2
    MaxCrashes = 2
SPECIFICATION LoopSpec
CHECK_DEADLOCK FALSE
INVARIANTS
    EvidenceIsComplete
    SpendIsBounded
    BudgetNeverStarves
PROPERTY
    LoopTerminates
