--------------------------- MODULE CameraDemandMC ---------------------------
(* Instances of CameraDemand small enough for TLC.                          *)
EXTENDS CameraDemand
=============================================================================
