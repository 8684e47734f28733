----------------------------- MODULE MCService -----------------------------
(* Small instances of Service for TLC. *)
EXTENDS Service, TLC

CONSTANTS t1, t2, t3, stop1

MCTwo == {t1, t2, stop1}
MCThree == {t1, t2, t3, stop1}
MCStop == {stop1}

Symmetry == Permutations({t1, t2, t3})
=============================================================================
