SPECIFICATION LiveSpec
CONSTANTS
    w1 = w1  w2 = w2  default = default  created = created
    combined = combined  ngc = ngc  app = app  reg = reg  web = web  p1 = p1
    None = None
    Workloads = {w1, w2}
    Secrets = {combined, ngc, app, reg, web}
    Foreign = {reg}
    Needs <- MCNeeds
    BundleName <- MCBundle
    SAs = {default, created}
    Managed = {default, created}
    Early = {default}
    Replicas = {p1}
    Scenes <- MCScenes
    MaxBounces = 2
INVARIANTS
    BouncesAreBounded
    RestIsServed
    GoneIsWithdrawn
PROPERTIES
    ForeignIsKept
    PodDeletionsEnd
    SecretsArrive
CHECK_DEADLOCK FALSE
