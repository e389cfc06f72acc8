---------------------------- MODULE MCToolBroker ----------------------------
(***************************************************************************)
(* ToolBroker for TLC.  Sockets and calls are drawn, never compared for    *)
(* anything but equality, so both sets are symmetric; the liveness run     *)
(* does not use the symmetry.                                              *)
(***************************************************************************)
EXTENDS ToolBroker, TLC

Symmetry == Permutations(Sockets) \cup Permutations(Calls)
=============================================================================
