SPECIFICATION Spec
CONSTANTS
    Event = {1, 2, 3}
    Known = {1, 2}
    Batch = {b1, b2}
    None = None
    MaxAttempts = 2
    BatchLimit = 2
    InitialAvailable = "due"
INVARIANTS TypeOK OneDelivery
PROPERTIES DeliverySafety EventsSettle
CHECK_DEADLOCK FALSE
