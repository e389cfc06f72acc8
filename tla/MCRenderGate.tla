------------------------------ MODULE MCRenderGate ------------------------------
(***************************************************************************)
(* Small instances of RenderGate.                                          *)
(***************************************************************************)
EXTENDS RenderGate

CONSTANTS r1, r2, r3

TwoTurns == {r1, r2}
ThreeTurns == {r1, r2, r3}
=============================================================================
