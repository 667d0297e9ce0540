SPECIFICATION Spec
CONSTANTS
    User = {u1, u2}
    Ip = {i1}
    Ua = {a1, a2}
    Req = {r1, r2, r3}
    None = None
    MaxActiveSessions = 1
    PageSize = 2
    MaxConcurrent = 2
INVARIANTS TypeOK SessionLimit FreshToken
PROPERTIES OwnSessionsOnly LifecycleSafety LimboEnds
CHECK_DEADLOCK FALSE
