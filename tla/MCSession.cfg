\* A session on a pool, on a connection, and on one where everything may throw.
SPECIFICATION Spec
CONSTANTS
  Setups <- MCSetups
  MaxChanges = 3
  MaxDepth = 4
  MaxSavepoints = 2
  MaxStray = 1
INVARIANTS RejectedIsUndone FailureDooms ResolvedIsCommitted SavepointsNest QuietIsClosed
PROPERTIES SavesAtomically
