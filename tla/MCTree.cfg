CONSTANTS
  Nodes = {1, 2, 3}
  Managers = {"m"}
  Locked = TRUE
  Nested = FALSE
  Downwards = FALSE
  Modes = {"transaction", "autocommit"}
SPECIFICATION Spec
INVARIANTS WellFormed QueriesAgree
PROPERTIES ImplementsForest
