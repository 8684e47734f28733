----------------------------- MODULE MCSqlPool -----------------------------
(* Small instances of SqlPool for TLC. *)
EXTENDS SqlPool, TLC

CONSTANTS d1, d2, f1, f2, f3

MCConns == {d1, d2}
MCOneConn == {d1}
MCUsers == {f1, f2, f3}
MCTwoUsers == {f1, f2}

Symmetry == Permutations(Conns) \cup Permutations(Users)

=============================================================================
