\* Two callers, a warm-up and a reaper; every adapter call may throw.
SPECIFICATION FairSpec
CONSTANTS
  Callers = {c1, c2}
  Resources = {r1, r2, r3}
  None = None
  Max = 2
  MinIdle = 1
  HasValidate = TRUE
  HasTimeout = TRUE
  HasReaper = TRUE
  Faults = {"create", "destroy", "validate"}
INVARIANTS Exclusive NothingClosedIsUsed CountersExact
PROPERTIES AcquireReturns DestroyDrains
