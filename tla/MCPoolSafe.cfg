\* Three callers compete for one connection; create() may throw.
SPECIFICATION Spec
CONSTANTS
  Callers = {c1, c2, c3}
  Resources = {r1, r2, r3, r4}
  None = None
  Max = 1
  MinIdle = 0
  HasValidate = TRUE
  HasTimeout = TRUE
  HasReaper = TRUE
  Faults = {"create"}
SYMMETRY CallersAndResources
INVARIANTS Accounted WaitersKept
PROPERTIES LendsExclusively FifoService
