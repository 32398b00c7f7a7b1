------------------------------ MODULE PhoneLinkMC ------------------------------
(* Instances of PhoneLink small enough for TLC.                             *)
EXTENDS PhoneLink, TLC
=============================================================================
