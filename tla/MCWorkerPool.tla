---------------------------- MODULE MCWorkerPool ---------------------------
(* Small instances of WorkerPool for TLC. *)
EXTENDS WorkerPool, TLC

CONSTANTS t1, t2, t3, w1, w2, s1, s2

MCTwo == {t1, t2}
MCThree == {t1, t2, t3}
MCOneWorker == {w1}
MCWorkers == {w1, w2}
MCServices == {s1, s2}
MCOneService == {s1}
OriginMixed == [t \in Tasks |-> IF t = t1 THEN s1 ELSE s2]
OriginSame == [t \in Tasks |-> s1]

SymmetryAll == Permutations(Tasks) \cup Permutations(Workers)

=============================================================================
