------------------------------ MODULE MCInputQueue ------------------------------
(* Bounded instances of InputQueue.  No definition tells one message id, one  *)
(* call or one command from another, so the safety runs take them as          *)
(* symmetric.                                                                 *)
EXTENDS InputQueue, TLC

CONSTANTS m1, m2, a, b, p, q

Symmetry == Permutations(Ids) \cup Permutations(Callers) \cup Permutations(Cmds)
=============================================================================
