SPECIFICATION Spec
CONSTANTS
    v1 = v1
    v2 = v2
    a = a
    b = b
    None = None
    Versions <- MCVersions
    Components = {a}
    ComponentsOf <- OneComponent
    InitialVersion = v1
    Absent = {}
    AgentStates = {"Ready"}
    CreatedNow = FALSE
    CacheLags = TRUE
    MaxHandledOps = 2
    MaxNonce = 2
    MaxEpoch = 2
    MaxEdits = 0
    MaxFaults = 0
INVARIANTS StartedOnce
PROPERTIES NothingOverwritten EpochNeverRegresses
