SPECIFICATION Spec
CONSTANTS
    Rowsets <- MCRowsets
    Assignments <- MCAssignments
    Conditions <- MCConditions
    Terms <- MCTerms
    Queries <- MCQueries
    Filters <- MCFilters
    Databases <- MCDatabases
    MaxCalls <- MCMaxCalls
    Careless = FALSE
INVARIANTS
    SameMeaning
    BuiltAsAsked
CHECK_DEADLOCK FALSE
