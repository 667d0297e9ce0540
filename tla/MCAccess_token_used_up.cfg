SPECIFICATION Spec
CONSTANTS
    Owner = u1
    Ip = {i1, i2}
    Ua = {a1}
    Req = {r1, r2, r3, r4}
    None = None
    MaxActiveSessions = 1
    PageSize = 2
    MaxFailedLogins = 1
    MaxConcurrent = 2
CONSTRAINT LoginsAndDeletions
PROPERTIES TempTokenUsedUp
SYMMETRY Symmetry
CHECK_DEADLOCK FALSE
