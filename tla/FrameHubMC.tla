----------------------------- MODULE FrameHubMC -----------------------------
(* Instances of FrameHub small enough for TLC.                              *)
EXTENDS FrameHub, TLC
=============================================================================
