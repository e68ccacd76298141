SPECIFICATION Spec
CONSTANTS
    Rows = {r1, r2}
    Loads = {l1, l2}
    Kinds = {"build", "security", "commits"}
    Window = 1
    MaxNow = 2
    MaxPages = 1
    None = None
INVARIANTS TypeOK NothingForgotten AllShown
PROPERTIES AskedOnce
SYMMETRY Symmetry
CONSTRAINT NotRaced
