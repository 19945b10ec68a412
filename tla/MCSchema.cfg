CONSTANTS
    Processes = {"p", "q"}
    Setups <- MCSetups
    NameOrder <- MCNameOrder
SPECIFICATION Spec
INVARIANTS
    Synced
    Settled
    RefusedOnlyWhenStale
PROPERTIES
    LosesOnlyUnexpected
CHECK_DEADLOCK FALSE
