SPECIFICATION Spec
CONSTANTS
    Req = {r1, r2}
    None = None
    MaxFailedLogins = 1
    MaxConcurrent = 2
PROPERTY ChangesStick
CHECK_DEADLOCK FALSE
