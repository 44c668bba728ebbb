------------------------- MODULE MCServerLifecycle -------------------------
(***************************************************************************)
(* ServerLifecycle for TLC.                                                *)
(***************************************************************************)
EXTENDS ServerLifecycle

CONSTANTS r1, r2, r3
=============================================================================
