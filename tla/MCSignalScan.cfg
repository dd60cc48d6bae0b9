\* Two scans side by side over a watchlist of three targets.
CONSTANTS
    a1 = a1
    NoValue = NoValue
    Scans = {s1, s2}
    Watchlist <- AllScenarios
    Items <- SomeItems
    Rules <- SomeRules
    MaxTime = 2
    MaxChanges = 1
    MaxFaults = 1
SPECIFICATION ScanSpec
INVARIANTS
    UnchangedConditionIsOneSignal
    ReturnedScanMissedNothing
