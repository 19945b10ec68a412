\* Any three calls on a builder, then an execution or a walk with cursors.
SPECIFICATION Spec
CONSTANTS
  Rels <- MCRels
  Databases <- MCDatabases
  Options <- MCOptions
  MaxCalls = 3
  MaxWrites = 1
  Careless = FALSE
CHECK_DEADLOCK FALSE
INVARIANTS ResultIsGraph StableSeenOnce
