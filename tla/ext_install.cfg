SPECIFICATION MCSpec
CONSTANTS
    n1 = n1
    n2 = n2
    s1 = s1
    s2 = s2
    v1 = v1
    v2 = v2
    None = None
    Versions = {v1, v2}
    Releases = {n1, n2, s1, s2}
    Specs <- All
    MaxEdits = 1
    MaxFaults = 1
INVARIANTS TypeOK ObservedIsApplied ChartsAreFound
PROPERTIES UpgradesRestartTheClock BoundedWaits Converges
CHECK_DEADLOCK FALSE
