SPECIFICATION Spec
CONSTANTS
    Entity <- Entities
    Schema <- RealSchema
    Sortable <- Columns
    Query <- Queries
    Endpoint <- RealEndpoints
    Missing = Missing
    Empty = Empty
    Many = Many
    Junk = Junk
    DefaultPageSize = 2
    MaxPageSize = 3
    MaxDepth = 4
    MaxRows = 4
INVARIANT ExpansionsAnswered
CHECK_DEADLOCK FALSE
