SPECIFICATION Spec
CONSTANTS
    Rows = {r1}
    Loads = {l1}
    Kinds = {"commits"}
    Window = 2
    MaxNow = 2
    MaxPages = 0
    None = None
INVARIANT AllShownWhenever
