SPECIFICATION Spec
CONSTANTS
    a = a  b = b
    None = None
    Components = {a, b}
    Scenes <- GitScenes
INVARIANTS DisabledIsTornDown
CHECK_DEADLOCK FALSE
