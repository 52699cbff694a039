SPECIFICATION Spec
CONSTANTS
    Machines = {e1}
    Keys = {k1, k2}
    Pushes = {p1, p2}
    Calls = {c1}
    None = None
    Unread = Unread
    Newer = Newer
    MaxOps = 4
SYMMETRY Symmetry
CHECK_DEADLOCK FALSE
INVARIANTS
    PageIsCurrent
    TrashedStaysAway
    GoneLeavesNothing
