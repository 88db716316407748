SPECIFICATION Spec
CONSTANTS
    v1 = v1
    v2 = v2
    a = a
    b = b
    None = None
    Versions <- MCVersions
    Components = {a}
    ComponentsOf <- OneComponent
    InitialVersion = v1
    Absent = {}
    AgentStates = {"Ready", "ErrApplied"}
    CreatedNow = FALSE
    CacheLags = FALSE
    MaxHandledOps = 2
    MaxNonce = 1
    MaxEpoch = 1
    MaxEdits = 1
    MaxFaults = 1
INVARIANTS ProvenDeployed
PROPERTIES SucceededMatchesIntent FailureBelongsToRender OutcomeProjectedBeforeClear
