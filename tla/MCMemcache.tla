----------------------------- MODULE MCMemcache ----------------------------
(* Small instances of Memcache for TLC. *)
EXTENDS Memcache, TLC

CONSTANTS k1, k2, v1, v2, c1, c2

MCKeys == {k1, k2}
MCOneKey == {k1}
MCValues == {v1, v2}
MCOneValue == {v1}
MCCallers == {c1, c2}

Symmetry == Permutations(Keys) \cup Permutations(Values) \cup Permutations(Callers)

=============================================================================
