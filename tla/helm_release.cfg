SPECIFICATION FairSpec
CONSTANTS
    t1 = t1
    t2 = t2
    base = base
    next = next
    empty = empty
    x = x
    None = None
    Tags = {t1, t2}
    Templates = {base, next}
    ValueSets = {empty, x}
    NoValues = empty
    Reading = {next}
    Published <- HonestTags
    MaxEdits = 1
    MaxPushes = 1
    MaxFaults = 2
INVARIANTS TypeOK PendingIsRunning
PROPERTIES EnsuredIsDeployed KeepsContract Converges
