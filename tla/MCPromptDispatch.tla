---------------------------- MODULE MCPromptDispatch ----------------------------
(* Bounded instances of PromptDispatch.  No definition tells one message id or *)
(* one call from another, so the safety runs take them as symmetric.           *)
EXTENDS PromptDispatch, TLC

CONSTANTS m1, m2, a, b

Symmetry == Permutations(Ids) \cup Permutations(Callers)
=============================================================================
