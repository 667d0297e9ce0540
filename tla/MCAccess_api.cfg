SPECIFICATION Spec
CONSTANTS
    Owner = u1
    Ip = {i1, i2}
    Ua = {a1, a2}
    Req = {r1, r2, r3}
    None = None
    MaxActiveSessions = 1
    PageSize = 2
    MaxFailedLogins = 1
    MaxConcurrent = 3
INVARIANTS TypeOK AnswersDocumented ErrorsLeaveNothing OneTempTokenWorks
PROPERTIES DeletedAccountEnds TempTokenSpent
SYMMETRY Symmetry
CHECK_DEADLOCK FALSE
