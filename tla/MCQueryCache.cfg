CONSTANTS
  c1 = c1
  c2 = c2
  c3 = c3
  k1 = k1
  t1 = t1
  t2 = t2
  Nothing = Nothing
  Calls = {c1, c2, c3}
  Keys = {k1}
  Tags = {t1, t2}
  Tagged <- MCTagged
  Prefixes <- MCPrefixes
  Adapters = {"memory", "redis", "keyv"}
  MaxVersion = 1
SPECIFICATION Spec
SYMMETRY Symmetry
INVARIANTS NeverStale TagsReach
CHECK_DEADLOCK FALSE
