--------------------------- MODULE AsyncInferenceMC ---------------------------
(* Instances of AsyncInference small enough for TLC.                         *)
EXTENDS AsyncInference, TLC
=============================================================================
