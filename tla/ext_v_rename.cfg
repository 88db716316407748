SPECIFICATION MCSpec
CONSTANTS
    n1 = n1
    n2 = n2
    s1 = s1
    s2 = s2
    v1 = v1
    v2 = v2
    None = None
    Versions = {v1, v2}
    Releases = {n1, n2, s1, s2}
    Specs <- Renaming
    MaxEdits = 1
    MaxFaults = 0
PROPERTIES CompletesOnceReady
CHECK_DEADLOCK FALSE
