--------------------------- MODULE VideoEncoderMC ---------------------------
(* VideoEncoder with two cameras, queues of two frames and two episodes of  *)
(* three frames in all: a queue that fills behind a thread that holds a     *)
(* frame, and a straggler at work while the next episode is recorded.       *)
EXTENDS VideoEncoder
=============================================================================
