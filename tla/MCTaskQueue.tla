----------------------------- MODULE MCTaskQueue -----------------------------
(* Instances of TaskQueue for TLC. *)
EXTENDS TaskQueue, TLC

CONSTANTS t1, t2, t3, m1, m2, m3

ThreeTasks == {t1, t2, t3}
TwoMoves   == {m1, m2}

Symmetry == Permutations(ThreeTasks) \cup Permutations(TwoMoves)
=============================================================================
