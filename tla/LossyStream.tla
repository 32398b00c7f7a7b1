----------------------------- MODULE LossyStream ----------------------------
(***************************************************************************)
(* What a recording promises about the frames of its cameras: frames are   *)
(* numbered as they are produced, and each video gets some of them, at     *)
(* most once and never an older one after a newer one, unless the video is *)
(* discarded and begun anew.  VideoEncoder implements it; the live streams *)
(* of FrameHub promise less (FrameFeed).                                   *)
(***************************************************************************)
EXTENDS Naturals

CONSTANT Receivers

VARIABLES
    offered,   \* number of the last frame produced
    taken      \* taken[r]: number of the last frame r got, 0 before any

vars == <<offered, taken>>

Init == offered = 0 /\ taken = [r \in Receivers |-> 0]

Offer == offered' = offered + 1 /\ UNCHANGED taken

Take(r) ==
    /\ \E n \in taken[r] + 1..offered : taken' = [taken EXCEPT ![r] = n]
    /\ UNCHANGED offered

Discard(R) ==
    /\ taken' = [r \in Receivers |-> IF r \in R THEN 0 ELSE taken[r]]
    /\ UNCHANGED offered

Next ==
    \/ Offer
    \/ \E r \in Receivers : Take(r)
    \/ \E R \in SUBSET Receivers : Discard(R)

Spec == Init /\ [][Next]_vars
=============================================================================
