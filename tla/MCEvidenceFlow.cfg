\* One object of each scenario, every order of reads, changes and decisions.
CONSTANTS
    a1 = a1
    NoValue = NoValue
    Items <- SomeItems
    Rules <- SomeRules
    CacheTtl = 2
    MaxTime = 3
    MaxChanges = 1
SPECIFICATION FlowSpec
INVARIANTS
    OrderFollowsFreshFacts
    OrderIsJustified
