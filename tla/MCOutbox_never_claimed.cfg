SPECIFICATION Spec
CONSTANTS
    Event = {1, 2}
    Known = {1}
    Batch = {b1}
    None = None
    MaxAttempts = 2
    BatchLimit = 1
    InitialAvailable = None
PROPERTY CreatedIsClaimed
CHECK_DEADLOCK FALSE
