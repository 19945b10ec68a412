CONSTANTS
  Parents = {"p1", "p2"}
  Children = {"c1", "c2"}
  Setups <- MCSetups
  None = "None"
SPECIFICATION Spec
INVARIANTS SavedAsTold WrappersAgree
CHECK_DEADLOCK FALSE
