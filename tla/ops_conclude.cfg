SPECIFICATION LiveSpec
CONSTANTS
    v1 = v1
    v2 = v2
    a = a
    b = b
    None = None
    Versions <- MCVersions
    Components = {a, b}
    ComponentsOf <- ReplacesComponent
    InitialVersion = v1
    Absent = {}
    AgentStates = {"Ready", "ErrApplied"}
    CreatedNow = TRUE
    CacheLags = FALSE
    MaxHandledOps = 2
    MaxNonce = 1
    MaxEpoch = 1
    MaxEdits = 0
    MaxFaults = 1
INVARIANTS ProvenDeployed
PROPERTIES OperationsConclude
