---------------------------- MODULE MCAppServerRpc ----------------------------
(***************************************************************************)
(* Small instances of AppServerRpc: two requests with a table of one       *)
(* retired id, so that an id is forgotten, and one call.                   *)
(***************************************************************************)
EXTENDS AppServerRpc, TLC

CONSTANTS c1, q1, q2

OneCall == {c1}
TwoReqs == {q1, q2}

Symmetry == Permutations({q1, q2})
=============================================================================
