--------------------------- MODULE MCExecutorTurns ---------------------------
(***************************************************************************)
(* ExecutorTurns for TLC: turn and request ids are only compared.          *)
(***************************************************************************)
EXTENDS ExecutorTurns, TLC

Symmetry == Permutations(Turns) \cup Permutations(Reqs) \cup Permutations(UserTurns)
=============================================================================
