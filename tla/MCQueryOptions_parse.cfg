SPECIFICATION Spec
CONSTANTS
    Entity <- Entities
    Schema <- Schemas
    Sortable <- Columns
    Query <- Queries
    Endpoint <- Endpoints
    Missing = Missing
    Empty = Empty
    Many = Many
    Junk = Junk
    DefaultPageSize = 2
    MaxPageSize = 3
    MaxDepth = 3
    MaxRows = 4
INVARIANTS TypeOK OffersSimplePaths FilterHolds PagesPartition JoinsResolve
CHECK_DEADLOCK FALSE
