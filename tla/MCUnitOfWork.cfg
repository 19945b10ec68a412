\* Three entities, two keys: user code interleaves with a flush() that may fail.
SPECIFICATION Spec
CONSTANTS
  Entities = {e1, e2, e3}
  Keys = {k1, k2}
  Values = {v1, v2}
  None = None
  Returning = TRUE
  Moves = {}
SYMMETRY Symmetric
INVARIANTS Consistent ManagedIsSaved
PROPERTIES FlushesFaithfully
