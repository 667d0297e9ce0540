SPECIFICATION Spec
CONSTANTS
    User = {u1}
    Ip = {i1}
    Ua = {a1, a2}
    Req = {r1, r2, r3}
    None = None
    MaxActiveSessions = 1
    PageSize = 2
    MaxConcurrent = 2
SYMMETRY Symmetry
PROPERTY RefreshInsertsNothing
CHECK_DEADLOCK FALSE
