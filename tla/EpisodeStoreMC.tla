--------------------------- MODULE EpisodeStoreMC ---------------------------
(* EpisodeStore with a row buffer of three (ten in the code; two in the     *)
(* violated run) and sessions of up to five episodes: rows in the file and  *)
(* rows in the buffer when finalize runs.                                   *)
EXTENDS EpisodeStore
=============================================================================
