SPECIFICATION LiveSpec
CONSTANTS
    a = a  b = b
    None = None
    Components = {a, b}
    Scenes <- MCScenes
INVARIANTS
    RestIsRendered
    RestIsPublished
    GoneIsTornDown
    OnlyDeletedIsGone
PROPERTIES
    KeptWhileSteady
    Delivered
    DeletionsEnd
CHECK_DEADLOCK FALSE
