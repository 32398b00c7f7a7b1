------------------------------ MODULE FrameFeed ------------------------------
(***************************************************************************)
(* What the phone's frame hub promises to the clients of a live stream,    *)
(* however many threads publish to it.  Frames are numbered when they are  *)
(* produced.  A client gets newer and newer ones, with gaps.  It may get   *)
(* the frame it has once more (its wait ended and there was no other), and *)
(* it may be taken back, but only to a frame that another publisher's      *)
(* overtook between its number and its place in the hub.                   *)
(***************************************************************************)
EXTENDS Naturals

CONSTANT Clients

VARIABLES
    offered,    \* number of the last frame produced
    overtaken,  \* frames on their way to the hub when a later one was numbered
    joined,     \* clients whose stream has not ended
    taken,      \* taken[c]: number of the frame c got last, 0 before any
    again       \* again[c]: c has got that frame more than once

vars == <<offered, overtaken, joined, taken, again>>

Init ==
    /\ offered = 0 /\ overtaken = {}
    /\ joined = Clients
    /\ taken = [c \in Clients |-> 0] /\ again = [c \in Clients |-> FALSE]

Offer ==
    /\ offered' = offered + 1
    /\ \E held \in SUBSET (1..offered) : overtaken' = overtaken \cup held
    /\ UNCHANGED <<joined, taken, again>>

Get(c, n, repeated) ==
    /\ taken' = [taken EXCEPT ![c] = n]
    /\ again' = [again EXCEPT ![c] = repeated]
    /\ UNCHANGED <<offered, overtaken>>

Newer(c) ==
    /\ c \in joined /\ joined' = joined
    /\ \E n \in taken[c] + 1..offered : Get(c, n, FALSE)

Same(c) ==
    /\ c \in joined /\ joined' = joined
    /\ taken[c] # 0 /\ Get(c, taken[c], TRUE)

Older(c) ==
    /\ c \in joined /\ joined' = joined
    /\ \E n \in overtaken : n < taken[c] /\ Get(c, n, FALSE)

Leave(c) == joined' = joined \ {c} /\ Get(c, 0, FALSE)
Join(c)  == joined' = joined \cup {c} /\ UNCHANGED <<offered, overtaken, taken, again>>

Next ==
    \/ Offer
    \/ \E c \in Clients : Newer(c) \/ Same(c) \/ Older(c) \/ Leave(c) \/ Join(c)

Spec == Init /\ [][Next]_vars
=============================================================================
