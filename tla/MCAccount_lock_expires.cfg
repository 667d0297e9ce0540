SPECIFICATION Spec
CONSTANTS
    Req = {r1, r2, r3}
    None = None
    MaxFailedLogins = 1
    MaxConcurrent = 2
INVARIANT LockExpires
SYMMETRY Symmetry
CHECK_DEADLOCK FALSE
