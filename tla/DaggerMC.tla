------------------------------ MODULE DaggerMC -------------------------------
(* Dagger with chunks of one action, one warm-up inference, two inference   *)
(* errors in a row as the limit, one correction or an upload after the      *)
(* second episode.                                                          *)
EXTENDS Dagger
=============================================================================
