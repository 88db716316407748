SPECIFICATION MCSpec
CONSTANTS
    ac = ac  nv = nv  team = team  fleet = fleet  catalog = catalog
    token = token  k1 = k1  k2 = k2
    None = None
    Registries = {ac}
    Nvidia = nv
    Customs = {team}
    GitRepos = {fleet, catalog}
    Fleet = fleet
    Token = token
    Creds = {k1, k2}
    HelmOwned = {nv, catalog}
    Requests <- MCRequests
    Stored <- MCStored
    Failing = {"lookup", "read", "apply", "mirror", "force", "delete", "status", "save", "restart"}
    MaxEdits = 2
    MaxFaults = 2
    MaxEvents = 3
INVARIANTS
    RestIsSettled
    FaultlessRestIsClean
PROPERTIES
    RegistriesSettle
    WantedIsKept
    OmittedRefIsGone
    RemovedByHelmIsGone
CHECK_DEADLOCK FALSE
