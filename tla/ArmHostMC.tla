------------------------------ MODULE ArmHostMC ------------------------------
(* Instances of ArmHost small enough for TLC.                               *)
EXTENDS ArmHost, TLC
=============================================================================
