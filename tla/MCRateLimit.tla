---------------------------- MODULE MCRateLimit ----------------------------
(* Small instances of RateLimit for TLC. *)
EXTENDS RateLimit, TLC

CONSTANTS h1, c1, c2

MCHashes == {h1}
MCCallers == {c1, c2}

MCBuckets == {<<2, 2>>, <<3, 3>>, <<3, 2>>}
MCOneBucket == {<<2, 1>>}

Symmetry == Permutations(Callers)

=============================================================================
