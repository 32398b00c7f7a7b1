------------------------------ MODULE ArmLoopMC ------------------------------
(* Instances of ArmLoop small enough for TLC.                               *)
EXTENDS ArmLoop, TLC
=============================================================================
