SPECIFICATION Spec
CONSTANTS
    Req = {r1, r2, r3}
    None = None
    MaxFailedLogins = 2
    MaxConcurrent = 2
INVARIANTS TypeOK LockNeedsFailures FailuresLock TempTokensBounded
PROPERTIES LockKeepsOut DeletionSettles
CHECK_DEADLOCK FALSE
