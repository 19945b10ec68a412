---------------------------- MODULE MCQueryCache ----------------------------
EXTENDS QueryCache, TLC

CONSTANTS c1, c2, c3, k1, t1, t2

MCTagged == k1 :> {t1, t2}
MCPrefixes == {{k1}}

Symmetry == Permutations(Calls)
=============================================================================
