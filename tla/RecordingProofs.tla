----------------------------- MODULE RecordingProofs -----------------------------
(***************************************************************************)
(* Theorems about recording: the streaming encoder (VideoEncoder), for any *)
(* number of cameras and frames and any queue size, and the episodes, rows *)
(* and video files that finalize leaves (EpisodeStore), for any number of  *)
(* episodes, size of the row buffer and number of calls of finalize.       *)
(***************************************************************************)
EXTENDS VideoEncoder, EpisodeStore, SequenceTheorems, FiniteSetTheorems, TLAPS

(* Sequences as the queues use them.                                        *)
LEMMA QueueFacts ==
    ASSUME NEW s \in Seq(Nat), NEW x \in Nat
    PROVE  /\ Append(s, x) \in Seq(Nat) /\ Len(Append(s, x)) = Len(s) + 1
           /\ \A i \in 1..Len(s) : Append(s, x)[i] = s[i]
           /\ Append(s, x)[Len(s) + 1] = x
           /\ Len(s) \in Nat /\ (Len(s) = 0 <=> s = <<>>)
           /\ \A i \in 1..Len(s) : s[i] \in Nat
OBVIOUS

LEMMA TailFacts ==
    ASSUME NEW s \in Seq(Nat), s # <<>>
    PROVE  /\ Tail(s) \in Seq(Nat) /\ Len(Tail(s)) = Len(s) - 1 /\ Len(s) > 0
           /\ \A i \in 1..Len(s) - 1 : Tail(s)[i] = s[i + 1]
           /\ Head(s) = s[1] /\ Head(s) \in Nat
OBVIOUS

LEMMA OneFacts ==
    ASSUME NEW x \in Nat
    PROVE  /\ <<x>> \in Seq(Nat) /\ Len(<<x>>) = 1 /\ <<x>> # <<>>
           /\ Head(<<x>>) = x /\ <<x>>[1] = x
           /\ (<<x>> = <<End>> <=> x = End)
BY DEF End

LEMMA EmptyFacts == <<>> \in Seq(Nat) /\ Len(<<>>) = 0 /\ <<>> # <<End>>
BY DEF End
-----------------------------------------------------------------------------
(* Types.                                                                   *)

QueueTypes ==
    /\ q \in [Videos -> Seq(Nat)] /\ hand \in [Videos -> Seq(Nat)]
    /\ \A v \in Videos : Len(q[v]) <= QMax /\ Len(hand[v]) <= 1

(* An episode is under way only after one was started.                      *)
Types == TypeOK /\ (main \notin {"idle", "stopped"} => ep \in Takes)

LEMMA Reset ==
    ASSUME QueueTypes, NEW e, q' = Set(q, e, <<>>), hand' = Set(hand, e, <<>>)
    PROVE  QueueTypes'
BY EncoderAssumption, EmptyFacts DEF QueueTypes, Set

LEMMA HandTypes ==
    ASSUME QueueTypes, NEW v \in Videos, NEW s \in Seq(Nat), Len(s) <= 1,
           hand' = [hand EXCEPT ![v] = s]
    PROVE  hand' \in [Videos -> Seq(Nat)] /\ \A w \in Videos : Len(hand'[w]) <= 1
BY DEF QueueTypes

LEMMA Emptied ==
    ASSUME QueueTypes, NEW v \in Videos, q' = q, hand' = [hand EXCEPT ![v] = <<>>]
    PROVE  QueueTypes'
<1>1. hand' \in [Videos -> Seq(Nat)]
  BY EmptyFacts DEF QueueTypes
<1>2. \A w \in Videos : Len(hand'[w]) <= 1
  BY EmptyFacts DEF QueueTypes
<1> QED BY <1>1, <1>2 DEF QueueTypes

LEMMA NextCamType ==
    ASSUME at \in Cams, NEW then, NextCam(then)
    PROVE  at' \in Cams /\ main' \in {main, then}
BY EncoderAssumption DEF NextCam, Cams

LEMMA InVideos == ep \in Takes => \A c \in Cams : Now(c) \in Videos /\ Now(c)[1] = c /\ Now(c)[2] = ep
BY DEF Videos, Now

LEMMA TypeInit == Init => Types
<1> SUFFICES ASSUME Init PROVE Types
  OBVIOUS
<1>1. QueueTypes
  BY EncoderAssumption, EmptyFacts DEF Init, QueueTypes, All
<1>2. /\ main = "idle" /\ at \in Cams /\ frame \in Nat /\ ep \in 0..MaxEpisodes
      /\ fed \in [Takes -> SUBSET Nat] /\ late \subseteq Videos
      /\ thread \in [Videos -> {"none", "run", "ended", "dead"}]
      /\ got \in [Videos -> Nat] /\ spent \in [Videos -> SUBSET Nat]
  BY EncoderAssumption DEF Init, All, Cams
<1> QED BY <1>1, <1>2 DEF TypeOK, Types, QueueTypes

LEMMA TypeStep == Types /\ [Next]_vars => Types'
<1> SUFFICES ASSUME Types, [Next]_vars
             PROVE  Types'
  OBVIOUS
<1> USE EncoderAssumption DEF Types, TypeOK
<1>0. QueueTypes
  BY DEF QueueTypes
<1>1. CASE StartEpisode
  <2>1. QueueTypes'
    BY <1>0, <1>1, Reset DEF StartEpisode
  <2>2. ep' \in Takes /\ ep' \in 0..MaxEpisodes /\ fed' \in [Takes -> SUBSET Nat]
    BY <1>1 DEF StartEpisode, Takes
  <2>3. /\ thread' \in [Videos -> {"none", "run", "ended", "dead"}]
        /\ spent' \in [Videos -> SUBSET Nat]
    BY <1>1 DEF StartEpisode, Set
  <2> QED BY <1>1, <2>1, <2>2, <2>3 DEF StartEpisode, QueueTypes
<1>2. CASE AddFrame
  <2>1. ASSUME NEW v \in Videos, ~Full(v)
        PROVE  Append(q[v], frame + 1) \in Seq(Nat) /\ Len(Append(q[v], frame + 1)) <= QMax
    BY <2>1, QueueFacts DEF Full
  <2>2. q' = [v \in Videos |-> IF Recorded(v) /\ ~Full(v) THEN Append(q[v], frame + 1) ELSE q[v]]
    BY <1>2 DEF AddFrame
  <2>3. q' \in [Videos -> Seq(Nat)] /\ \A v \in Videos : Len(q'[v]) <= QMax
    BY <2>1, <2>2
  <2>4. spent' \in [Videos -> SUBSET Nat] /\ frame' \in Nat /\ fed' \in [Takes -> SUBSET Nat]
    BY <1>2 DEF AddFrame
  <2> QED BY <1>2, <2>3, <2>4 DEF AddFrame
<1>3. CASE AddFrameRaises
  BY <1>3 DEF AddFrameRaises, queues
<1>4. CASE FinishEpisode
  <2>1. at' \in Cams
    BY <1>4 DEF FinishEpisode, Cams
  <2> QED BY <1>4, <2>1 DEF FinishEpisode, queues
<1>5. CASE SendSentinel
  <2>1. Now(at) \in Videos
    BY <1>5, InVideos DEF SendSentinel
  <2>2. Append(q[Now(at)], End) \in Seq(Nat) /\ Len(Append(q[Now(at)], End)) <= QMax
    BY <1>5, <2>1, QueueFacts DEF SendSentinel, Full, End
  <2>3. q' \in [Videos -> Seq(Nat)] /\ \A v \in Videos : Len(q'[v]) <= QMax
    BY <1>5, <2>2 DEF SendSentinel
  <2>4. at' \in Cams /\ main' \in {main, "join"}
    BY <1>5, NextCamType DEF SendSentinel
  <2> QED BY <1>5, <2>3, <2>4 DEF SendSentinel
<1>6. CASE Join
  <2>1. at' \in Cams /\ main' \in {main, "saved", "raised"}
    BY <1>6, NextCamType DEF Join, Cams
  <2> QED BY <1>6, <2>1 DEF Join, queues
<1>7. CASE JoinTimesOut
  <2>1. at' \in Cams /\ main' \in {main, "saved"} /\ Now(at) \in Videos
    BY <1>7, NextCamType, InVideos DEF JoinTimesOut
  <2> QED BY <1>7, <2>1 DEF JoinTimesOut, queues
<1>8. CASE Cancel
  <2>1. QueueTypes'
    BY <1>0, <1>8, Reset DEF Cancel
  <2>2. ep' \in 0..MaxEpisodes /\ fed' \in [Takes -> SUBSET Nat] /\ main' \in {"idle", "stopped"}
    BY <1>8 DEF Cancel, Takes
  <2>3. /\ thread' \in [Videos -> {"none", "run", "ended", "dead"}]
        /\ spent' \in [Videos -> SUBSET Nat] /\ got' \in [Videos -> Nat] /\ late' \subseteq Videos
    BY <1>8 DEF Cancel, Set
  <2> QED BY <1>8, <2>1, <2>2, <2>3 DEF Cancel, QueueTypes
<1>9. ASSUME NEW v \in Videos, Worker(v)
      PROVE  Types'
  <2>1. CASE Get(v)
    <3>1. /\ Tail(q[v]) \in Seq(Nat) /\ Len(Tail(q[v])) <= QMax
          /\ <<Head(q[v])>> \in Seq(Nat) /\ Len(<<Head(q[v])>>) = 1
      BY <2>1, TailFacts, OneFacts, QueueFacts DEF Get
    <3>2. q' \in [Videos -> Seq(Nat)] /\ \A w \in Videos : Len(q'[w]) <= QMax
      BY <2>1, <3>1 DEF Get
    <3>3. hand' \in [Videos -> Seq(Nat)] /\ \A w \in Videos : Len(hand'[w]) <= 1
      <4>1. PICK s \in Seq(Nat) : s = <<Head(q[v])>> /\ Len(s) = 1
        BY <3>1, Zenon
      <4>2. hand' = [hand EXCEPT ![v] = s]
        BY <2>1, <4>1 DEF Get
      <4> QED BY <1>0, <4>1, <4>2, HandTypes
    <3> QED BY <2>1, <3>2, <3>3 DEF Get, Works
  <2>2. CASE Encode(v)
    <3>1. Head(hand[v]) \in Nat
      BY <2>2, TailFacts DEF Encode, HasFrame
    <3>2. QueueTypes'
      BY <1>0, <2>2, Emptied DEF Encode
    <3>3. got' \in [Videos -> Nat] /\ spent' \in [Videos -> SUBSET Nat]
      BY <2>2, <3>1 DEF Encode
    <3> QED BY <2>2, <3>2, <3>3 DEF Encode, Works, QueueTypes
  <2>3. CASE SkipBadJpeg(v)
    <3>1. QueueTypes' /\ Head(hand[v]) \in Nat
      BY <1>0, <2>3, Emptied, TailFacts DEF SkipBadJpeg, HasFrame
    <3>2. /\ spent' \in [Videos -> SUBSET Nat]
          /\ UNCHANGED <<main, at, ep, frame, fed, q, thread, late, got>>
      BY <2>3, <3>1 DEF SkipBadJpeg, Works
    <3> QED BY <3>1, <3>2 DEF QueueTypes
  <2>4. CASE Die(v)
    BY <2>4 DEF Die, Works
  <2>5. CASE Ends(v)
    BY <2>5 DEF Ends, Works
  <2> QED BY <1>9, <2>1, <2>2, <2>3, <2>4, <2>5 DEF Worker
<1>10. CASE UNCHANGED vars
  BY <1>10 DEF vars, queues
<1> QED BY <1>1, <1>2, <1>3, <1>4, <1>5, <1>6, <1>7, <1>8, <1>9, <1>10 DEF Next, Finishing

(* Every variable keeps its type, and no queue grows beyond its limit       *)
(* (StreamingVideoEncoder, _CameraEncoderThread).                           *)
THEOREM TypeCorrect == Spec => []TypeOK
<1>1. Types => TypeOK
  BY DEF Types
<1> QED BY <1>1, TypeInit, TypeStep, PTL DEF Spec

-----------------------------------------------------------------------------
(* What the steps do to the queues, frame by frame.                         *)

LEMMA OneFrame ==
    ASSUME NEW s \in Seq(Nat), Len(s) <= 1
    PROVE  /\ s # <<>> => Len(s) = 1 /\ Head(s) = s[1] /\ s[1] \in Nat
           /\ s # <<>> /\ s # <<End>> => s[1] # End
           /\ s = <<End>> => Len(s) = 1 /\ s[1] = End
<1>1. ASSUME s # <<>> PROVE Len(s) = 1 /\ Head(s) = s[1] /\ s[1] \in Nat
  <2> DEFINE n == Len(s)
  <2>1. n \in Nat /\ n <= 1 /\ n > 0 /\ Head(s) = s[1] /\ Head(s) \in Nat
    BY <1>1, TailFacts, QueueFacts
  <2> HIDE DEF n
  <2>2. n = 1
    BY <2>1
  <2> QED BY <2>1, <2>2, Zenon DEF n
<1>2. ASSUME s # <<>>, s[1] = End PROVE s = <<End>>
  <2>1. Len(s) = 1 /\ Len(<<End>>) = 1 /\ <<End>>[1] = End /\ <<End>> \in Seq(Nat)
    BY <1>1, <1>2, OneFacts DEF End
  <2> QED BY <1>2, <2>1, SeqEqual
<1>3. s = <<End>> => Len(s) = 1 /\ s[1] = End
  BY OneFacts DEF End
<1> QED BY <1>1, <1>2, <1>3
(* The number of the episode recorded singles out its videos.               *)
LEMMA AddFacts ==
    ASSUME TypeOK, AddFrame, NEW v \in Videos
    PROVE  /\ hand'[v] = hand[v] /\ frame' = frame + 1 /\ main = "recording"
           /\ UNCHANGED <<main, at, ep, thread, got, late>>
           /\ \/ q'[v] = q[v]
              \/ /\ Len(q'[v]) = Len(q[v]) + 1
                 /\ \A i \in 1..Len(q[v]) : q'[v][i] = q[v][i]
                 /\ q'[v][Len(q[v]) + 1] = frame + 1
<1>1. q'[v] = IF Recorded(v) /\ ~Full(v) THEN Append(q[v], frame + 1) ELSE q[v]
  BY DEF AddFrame, TypeOK
<1>2. q[v] \in Seq(Nat) /\ frame + 1 \in Nat
  BY DEF TypeOK
<1>3. CASE ~(Recorded(v) /\ ~Full(v))
  BY <1>1, <1>3 DEF AddFrame
<1>4. CASE Recorded(v) /\ ~Full(v)
  BY <1>1, <1>2, <1>4, QueueFacts DEF AddFrame
<1> QED BY <1>3, <1>4

LEMMA SentinelFacts ==
    ASSUME Types, SendSentinel
    PROVE  /\ Now(at) \in Videos /\ main = "sentinel"
           /\ Len(q'[Now(at)]) = Len(q[Now(at)]) + 1 /\ q'[Now(at)][Len(q[Now(at)]) + 1] = End
           /\ \A i \in 1..Len(q[Now(at)]) : q'[Now(at)][i] = q[Now(at)][i]
           /\ \A v \in Videos : v # Now(at) => q'[v] = q[v]
           /\ UNCHANGED <<ep, frame, fed, hand, thread, got, spent, late>>
           /\ IF at < NumCams THEN main' = "sentinel" /\ at' = at + 1
                              ELSE main' = "join" /\ at' = 1
<1>0. Now(at) \in Videos
  BY InVideos DEF Types, TypeOK, SendSentinel
<1>1. q[Now(at)] \in Seq(Nat) /\ End \in Nat
  BY <1>0 DEF Types, TypeOK, End
<1>2. /\ q'[Now(at)] = Append(q[Now(at)], End)
      /\ \A v \in Videos : v # Now(at) => q'[v] = q[v]
  BY <1>0 DEF SendSentinel, Types, TypeOK
<1>3. /\ Len(q'[Now(at)]) = Len(q[Now(at)]) + 1 /\ q'[Now(at)][Len(q[Now(at)]) + 1] = End
      /\ \A i \in 1..Len(q[Now(at)]) : q'[Now(at)][i] = q[Now(at)][i]
  BY <1>1, <1>2, QueueFacts
<1> QED BY <1>0, <1>2, <1>3 DEF SendSentinel, NextCam

LEMMA GetFacts ==
    ASSUME TypeOK, NEW v \in Videos, Get(v)
    PROVE  /\ Len(hand[v]) = 0 /\ Len(q[v]) > 0
           /\ Len(hand'[v]) = 1 /\ hand'[v][1] = q[v][1]
           /\ Len(q'[v]) = Len(q[v]) - 1
           /\ \A i \in 1..Len(q[v]) - 1 : q'[v][i] = q[v][i + 1]
           /\ \A w \in Videos : w # v => q'[w] = q[w] /\ hand'[w] = hand[w]
           /\ UNCHANGED <<main, at, ep, frame, fed, thread, got, spent, late>>
<1>1. q[v] \in Seq(Nat) /\ q[v] # <<>> /\ hand[v] = <<>>
  BY DEF TypeOK, Get
<1>2. q'[v] = Tail(q[v]) /\ hand'[v] = <<Head(q[v])>>
  BY DEF TypeOK, Get
<1>3. \A w \in Videos : w # v => q'[w] = q[w] /\ hand'[w] = hand[w]
  BY DEF TypeOK, Get
<1>4. Len(hand[v]) = 0
  BY <1>1, EmptyFacts
<1>5. Len(hand'[v]) = 1 /\ hand'[v][1] = q[v][1]
  BY <1>1, <1>2, TailFacts, OneFacts
<1>6. /\ Len(q'[v]) = Len(q[v]) - 1 /\ Len(q[v]) > 0
      /\ \A i \in 1..Len(q[v]) - 1 : q'[v][i] = q[v][i + 1]
  BY <1>1, <1>2, TailFacts
<1> QED BY <1>3, <1>4, <1>5, <1>6 DEF Get, Works

LEMMA DoneFacts ==
    ASSUME TypeOK, NEW v \in Videos, Encode(v) \/ SkipBadJpeg(v)
    PROVE  /\ Len(hand[v]) = 1 /\ hand[v][1] # End /\ hand[v][1] \in Nat
           /\ Len(hand'[v]) = 0
           /\ \A w \in Videos : w # v => hand'[w] = hand[w] /\ got'[w] = got[w] /\ spent'[w] = spent[w]
           /\ spent'[v] = spent[v] \cup {hand[v][1]}
           /\ UNCHANGED <<main, at, ep, frame, fed, q, thread, late>>
           /\ \/ got' = got
              \/ got' = [got EXCEPT ![v] = hand[v][1]]
<1>1. hand[v] \in Seq(Nat) /\ Len(hand[v]) <= 1 /\ hand[v] # <<>> /\ hand[v] # <<End>>
  BY DEF TypeOK, Encode, SkipBadJpeg, HasFrame
<1>2. Len(hand[v]) = 1 /\ hand[v][1] # End /\ hand[v][1] \in Nat /\ Head(hand[v]) = hand[v][1]
  BY <1>1, OneFrame
<1>3. hand'[v] = <<>> /\ \A w \in Videos : w # v => hand'[w] = hand[w]
  BY DEF TypeOK, Encode, SkipBadJpeg
<1>4. Len(hand'[v]) = 0
  BY <1>3, EmptyFacts
<1>5. UNCHANGED <<main, at, ep, frame, fed, q, thread, late>>
  BY DEF Encode, SkipBadJpeg, Works
<1>6. spent' = [spent EXCEPT ![v] = @ \cup {hand[v][1]}]
  BY <1>2 DEF Encode, SkipBadJpeg
<1>7. spent'[v] = spent[v] \cup {hand[v][1]} /\ \A w \in Videos : w # v => spent'[w] = spent[w]
  BY <1>6 DEF TypeOK
<1>8. got' = got \/ got' = [got EXCEPT ![v] = hand[v][1]]
  BY <1>2 DEF Encode, SkipBadJpeg
<1>9. \A w \in Videos : w # v => got'[w] = got[w]
  BY <1>8 DEF TypeOK
<1> QED BY <1>2, <1>3, <1>4, <1>5, <1>7, <1>8, <1>9

-----------------------------------------------------------------------------
(* The refinement: what is under way is ascending and newer than what has   *)
(* been written.                                                            *)

Waiting(v) ==
    \A i \in 1..Len(q[v]) : q[v][i] # End =>
        /\ q[v][i] \in got[v] + 1..frame
        /\ \A j \in 1..Len(q[v]) : i < j /\ q[v][j] # End => q[v][i] < q[v][j]

Held(v) ==
    \A i \in 1..Len(hand[v]) : hand[v][i] # End =>
        /\ hand[v][i] \in got[v] + 1..frame
        /\ \A j \in 1..Len(q[v]) : q[v][j] # End => hand[v][i] < q[v][j]

Order == Types /\ \A v \in Videos : got[v] <= frame /\ Waiting(v) /\ Held(v)

LEMMA LenNat ==
    ASSUME TypeOK, NEW v \in Videos
    PROVE  /\ Len(q[v]) \in Nat /\ Len(hand[v]) \in Nat
           /\ \A i \in 1..Len(q[v]) : q[v][i] \in Nat
           /\ \A i \in 1..Len(hand[v]) : hand[v][i] \in Nat
           /\ got[v] \in Nat /\ frame \in Nat
BY QueueFacts DEF TypeOK

(* A video nothing happened to keeps its order.                             *)
LEMMA OrderKept ==
    ASSUME NEW v \in Videos, Waiting(v), Held(v),
           q'[v] = q[v], hand'[v] = hand[v], got'[v] = got[v], frame' = frame
    PROVE  Waiting(v)' /\ Held(v)'
BY DEF Waiting, Held

(* Of the episode that is begun or cancelled nothing is left, the others    *)
(* keep what they have.                                                     *)
LEMMA OrderReset ==
    ASSUME TypeOK, NEW v \in Videos, got[v] <= frame, Waiting(v), Held(v), NEW e,
           q' = Set(q, e, <<>>), hand' = Set(hand, e, <<>>), frame' = frame,
           got' = got \/ got' = Set(got, e, 0)
    PROVE  got'[v] <= frame' /\ Waiting(v)' /\ Held(v)'
<1>1. got'[v] <= frame'
  BY LenNat DEF Set
<1>2. CASE v[2] = e
  <2>1. Len(q'[v]) = 0 /\ Len(hand'[v]) = 0
    BY <1>2, EmptyFacts DEF Set
  <2> QED BY <1>1, <2>1 DEF Waiting, Held
<1>3. CASE v[2] # e
  <2>1. q'[v] = q[v] /\ hand'[v] = hand[v] /\ got'[v] = got[v]
    BY <1>3 DEF Set
  <2> QED BY <1>1, <2>1, OrderKept
<1> QED BY <1>2, <1>3

LEMMA OrderAdd ==
    ASSUME TypeOK, NEW v \in Videos, got[v] <= frame, Waiting(v), Held(v), AddFrame
    PROVE  Waiting(v)' /\ Held(v)'
<1>1. /\ hand'[v] = hand[v] /\ frame' = frame + 1 /\ got' = got
      /\ Len(q[v]) \in Nat /\ got[v] \in Nat /\ frame \in Nat
      /\ \A i \in 1..Len(q[v]) : q[v][i] \in Nat
      /\ \A i \in 1..Len(hand[v]) : hand[v][i] \in Nat
  BY AddFacts, LenNat
<1>2. CASE q'[v] = q[v]
  <2>1. got[v] + 1..frame \subseteq got[v] + 1..frame'
    BY <1>1
  <2>2. Waiting(v)'
    BY <1>1, <1>2, <2>1 DEF Waiting
  <2>3. Held(v)'
    BY <1>1, <1>2, <2>1 DEF Held
  <2> QED BY <2>2, <2>3
<1>3. CASE /\ Len(q'[v]) = Len(q[v]) + 1
           /\ \A i \in 1..Len(q[v]) : q'[v][i] = q[v][i]
           /\ q'[v][Len(q[v]) + 1] = frame + 1
  <2> DEFINE n == Len(q[v]) + 1
  <2>1. \A i \in 1..Len(q'[v]) : i \in 1..Len(q[v]) \/ i = n
    BY <1>1, <1>3
  <2>2. \A i \in 1..Len(q[v]) : q[v][i] # End => q[v][i] \in got[v] + 1..frame
    BY DEF Waiting
  <2>3. ASSUME NEW i \in 1..Len(q'[v]), q'[v][i] # End,
               NEW j \in 1..Len(q'[v]), i < j, q'[v][j] # End
        PROVE  q'[v][i] < q'[v][j]
    <3>1. i \in 1..Len(q[v])
      BY <1>1, <1>3, <2>3
    <3>2. CASE j = n
      BY <1>1, <1>3, <2>2, <2>3, <3>1, <3>2
    <3>3. CASE j \in 1..Len(q[v])
      BY <1>3, <2>3, <3>1, <3>3 DEF Waiting
    <3> QED BY <2>1, <3>2, <3>3
  <2>4. ASSUME NEW i \in 1..Len(q'[v]), q'[v][i] # End
        PROVE  q'[v][i] \in got[v] + 1..frame + 1
    <3>1. CASE i = n
      <4>1. frame + 1 \in got[v] + 1..frame + 1
        BY <1>1
      <4> QED BY <1>3, <3>1, <4>1
    <3>2. CASE i \in 1..Len(q[v])
      <4>1. \A x \in got[v] + 1..frame : x \in got[v] + 1..frame + 1
        BY <1>1
      <4>2. q'[v][i] \in got[v] + 1..frame
        BY <1>3, <2>2, <2>4, <3>2
      <4> QED BY <4>1, <4>2
    <3> QED BY <2>1, <3>1, <3>2
  <2>5. Waiting(v)'
    BY <1>1, <2>3, <2>4 DEF Waiting
  <2>6. ASSUME NEW i \in 1..Len(hand[v]), hand[v][i] # End,
               NEW j \in 1..Len(q'[v]), q'[v][j] # End
        PROVE  hand[v][i] < q'[v][j] /\ hand[v][i] \in got[v] + 1..frame
    <3>1. hand[v][i] \in got[v] + 1..frame
      BY <2>6 DEF Held
    <3>2. CASE j = n
      <4>1. \A x \in got[v] + 1..frame : x < frame + 1
        BY <1>1
      <4> QED BY <1>3, <3>1, <3>2, <4>1
    <3>3. CASE j \in 1..Len(q[v])
      BY <1>3, <2>6, <3>1, <3>3 DEF Held
    <3> QED BY <2>1, <3>2, <3>3
  <2>7. \A i \in 1..Len(hand[v]) : hand[v][i] # End => hand[v][i] \in got[v] + 1..frame + 1
    BY <1>1 DEF Held
  <2>8. Held(v)'
    BY <1>1, <2>6, <2>7 DEF Held
  <2> QED BY <2>5, <2>8
<1> QED BY <1>2, <1>3, AddFacts
LEMMA OrderSentinel ==
    ASSUME Types, SendSentinel, NEW v \in Videos, v = Now(at), Waiting(v), Held(v)
    PROVE  Waiting(v)' /\ Held(v)'
<1>1. /\ Len(q'[v]) = Len(q[v]) + 1 /\ q'[v][Len(q[v]) + 1] = End
      /\ \A i \in 1..Len(q[v]) : q'[v][i] = q[v][i]
      /\ UNCHANGED <<frame, hand, got>>
  BY SentinelFacts, Zenon
<1>2. \A i \in 1..Len(q'[v]) : q'[v][i] # End => i \in 1..Len(q[v]) /\ q'[v][i] = q[v][i]
  <2>1. Len(q[v]) \in Nat
    BY LenNat
  <2>2. \A i \in 1..Len(q'[v]) : i \in 1..Len(q[v]) \/ i = Len(q[v]) + 1
    BY <1>1, <2>1
  <2> QED BY <1>1, <2>2
<1>3. Waiting(v)'
  BY <1>1, <1>2 DEF Waiting
<1>4. Held(v)'
  BY <1>1, <1>2 DEF Held
<1> QED BY <1>3, <1>4

LEMMA OrderGet ==
    ASSUME TypeOK, NEW v \in Videos, Get(v), Waiting(v)
    PROVE  Waiting(v)' /\ Held(v)'
<1>1. /\ Len(q[v]) > 0 /\ Len(hand'[v]) = 1 /\ hand'[v][1] = q[v][1]
      /\ Len(q'[v]) = Len(q[v]) - 1
      /\ \A i \in 1..Len(q[v]) - 1 : q'[v][i] = q[v][i + 1]
      /\ UNCHANGED <<frame, got>>
  BY GetFacts, Zenon
<1>2. Len(q[v]) \in Nat
  BY LenNat
<1>3. \A i \in 1..Len(q'[v]) : i + 1 \in 1..Len(q[v]) /\ q'[v][i] = q[v][i + 1]
  BY <1>1, <1>2
<1>4. ASSUME NEW i \in 1..Len(q'[v]), q'[v][i] # End
      PROVE  /\ q'[v][i] \in got[v] + 1..frame
             /\ \A j \in 1..Len(q'[v]) : i < j /\ q'[v][j] # End => q'[v][i] < q'[v][j]
  <2>1. i + 1 \in 1..Len(q[v]) /\ q'[v][i] = q[v][i + 1]
    BY <1>3
  <2>2. /\ q[v][i + 1] \in got[v] + 1..frame
        /\ \A k \in 1..Len(q[v]) : i + 1 < k /\ q[v][k] # End => q[v][i + 1] < q[v][k]
    BY <1>4, <2>1 DEF Waiting
  <2>3. ASSUME NEW j \in 1..Len(q'[v]), i < j, q'[v][j] # End
        PROVE  q'[v][i] < q'[v][j]
    <3>1. j + 1 \in 1..Len(q[v]) /\ q'[v][j] = q[v][j + 1] /\ i + 1 < j + 1
      BY <1>3, <2>3
    <3> QED BY <2>1, <2>2, <2>3, <3>1
  <2> QED BY <2>1, <2>2, <2>3
<1>5. Waiting(v)'
  BY <1>1, <1>4 DEF Waiting
<1>6. 1 \in 1..Len(q[v]) /\ \A j \in 1..Len(q'[v]) : 1 < j + 1
  BY <1>1, <1>2
<1>7. ASSUME q[v][1] # End
      PROVE  /\ q[v][1] \in got[v] + 1..frame
             /\ \A j \in 1..Len(q'[v]) : q'[v][j] # End => q[v][1] < q'[v][j]
  BY <1>3, <1>6, <1>7 DEF Waiting
<1>8. Held(v)'
  BY <1>1, <1>7 DEF Held
<1> QED BY <1>5, <1>8

LEMMA OrderDone ==
    ASSUME TypeOK, NEW v \in Videos, Encode(v) \/ SkipBadJpeg(v),
           got[v] <= frame, Waiting(v), Held(v)
    PROVE  got'[v] <= frame /\ Waiting(v)' /\ Held(v)'
<1>1. /\ Len(hand[v]) = 1 /\ hand[v][1] # End /\ Len(hand'[v]) = 0
      /\ UNCHANGED <<frame, q>>
      /\ got' = got \/ got' = [got EXCEPT ![v] = hand[v][1]]
  BY DoneFacts, Zenon
<1>2. Held(v)'
  BY <1>1 DEF Held
<1>3. CASE got' = got
  BY <1>1, <1>2, <1>3 DEF Waiting
<1>4. CASE got' = [got EXCEPT ![v] = hand[v][1]]
  <2>1. got'[v] = hand[v][1]
    BY <1>4 DEF TypeOK
  <2>2. /\ hand[v][1] \in got[v] + 1..frame
        /\ \A j \in 1..Len(q[v]) : q[v][j] # End => hand[v][1] < q[v][j]
    BY <1>1 DEF Held
  <2>3. \A i \in 1..Len(q[v]) : q[v][i] # End => q[v][i] \in hand[v][1] + 1..frame
    <3>1. \A x \in got[v] + 1..frame : hand[v][1] < x => x \in hand[v][1] + 1..frame
      BY <2>2, LenNat
    <3> QED BY <2>2, <3>1 DEF Waiting
  <2>4. Waiting(v)'
    BY <1>1, <2>1, <2>3 DEF Waiting
  <2>5. got'[v] <= frame
    BY <2>1, <2>2, LenNat
  <2> QED BY <1>2, <2>4, <2>5
<1> QED BY <1>1, <1>3, <1>4
LEMMA OrderStep == Order /\ [Next]_vars => Order'
<1> SUFFICES ASSUME Order, [Next]_vars, NEW v \in Videos
             PROVE  got'[v] <= frame' /\ Waiting(v)' /\ Held(v)'
  BY TypeStep DEF Order, Videos, Cams, Takes
<1>0. TypeOK /\ Types /\ got[v] <= frame /\ Waiting(v) /\ Held(v)
  BY DEF Order, Types
<1>1. CASE StartEpisode
  BY <1>0, <1>1, OrderReset DEF StartEpisode
<1>2. CASE AddFrame
  <2>1. got'[v] <= frame'
    <3>1. got' = got /\ frame' = frame + 1
      BY <1>2 DEF AddFrame
    <3> QED BY <1>0, <3>1, LenNat
  <2> QED BY <1>0, <1>2, <2>1, OrderAdd
<1>3. CASE AddFrameRaises
  BY <1>0, <1>3, OrderKept DEF AddFrameRaises, queues
<1>4. CASE FinishEpisode
  BY <1>0, <1>4, OrderKept DEF FinishEpisode, queues
<1>5. CASE SendSentinel
  <2>1. got' = got /\ frame' = frame /\ hand' = hand
    BY <1>5 DEF SendSentinel
  <2>2. CASE v = Now(at)
    BY <1>0, <1>5, <2>1, <2>2, OrderSentinel
  <2>3. CASE v # Now(at)
    BY <1>0, <1>5, <2>1, <2>3, SentinelFacts, OrderKept
  <2> QED BY <2>2, <2>3
<1>6. CASE Join
  BY <1>0, <1>6, OrderKept DEF Join, queues
<1>7. CASE JoinTimesOut
  BY <1>0, <1>7, OrderKept DEF JoinTimesOut, queues
<1>8. CASE Cancel
  BY <1>0, <1>8, OrderReset DEF Cancel
<1>9. ASSUME NEW w \in Videos, Worker(w)
      PROVE  got'[v] <= frame' /\ Waiting(v)' /\ Held(v)'
  <2>1. CASE Get(w)
    <3>1. UNCHANGED <<frame, got>> /\ (v # w => q'[v] = q[v] /\ hand'[v] = hand[v])
      BY <1>0, <2>1, GetFacts
    <3>2. CASE v = w
      BY <1>0, <2>1, <3>1, <3>2, OrderGet
    <3>3. CASE v # w
      BY <1>0, <3>1, <3>3, OrderKept
    <3> QED BY <3>2, <3>3
  <2>2. CASE Encode(w) \/ SkipBadJpeg(w)
    <3>1. UNCHANGED <<frame, q>> /\ (v # w => got'[v] = got[v] /\ hand'[v] = hand[v])
      BY <1>0, <2>2, DoneFacts
    <3>2. CASE v = w
      BY <1>0, <2>2, <3>1, <3>2, OrderDone
    <3>3. CASE v # w
      BY <1>0, <3>1, <3>3, OrderKept
    <3> QED BY <3>2, <3>3
  <2>3. CASE Die(w) \/ Ends(w)
    BY <1>0, <2>3, OrderKept DEF Die, Ends, Works
  <2> QED BY <1>9, <2>1, <2>2, <2>3 DEF Worker
<1>10. CASE UNCHANGED vars
  BY <1>0, <1>10, OrderKept DEF vars, queues
<1> QED BY <1>1, <1>2, <1>3, <1>4, <1>5, <1>6, <1>7, <1>8, <1>9, <1>10 DEF Next, Finishing

(* A step takes a newer frame, adds one, discards an episode, or does not   *)
(* show in the stream.                                                      *)
LEMMA StreamStep == Order /\ [Next]_vars => [Stream!Next]_(Stream!vars)
<1> SUFFICES ASSUME Order, [Next]_vars
             PROVE  Stream!Next \/ UNCHANGED <<frame, got>>
  BY DEF Stream!vars
<1>1. CASE AddFrame
  <2>1. Stream!Offer
    BY <1>1 DEF AddFrame, Stream!Offer
  <2> QED BY <2>1 DEF Stream!Next
<1>2. ASSUME NEW v \in Videos, Encode(v)
      PROVE  Stream!Next \/ UNCHANGED <<frame, got>>
  <2>1. /\ Len(hand[v]) = 1 /\ hand[v][1] # End /\ frame' = frame
        /\ got' = got \/ got' = [got EXCEPT ![v] = hand[v][1]]
    BY <1>2, DoneFacts DEF Order, Types
  <2>2. hand[v][1] \in got[v] + 1..frame
    BY <2>1 DEF Order, Held
  <2>3. CASE got' = got
    BY <2>1, <2>3
  <2>4. CASE got' = [got EXCEPT ![v] = hand[v][1]]
    <3>1. Stream!Take(v)
      BY <2>1, <2>2, <2>4 DEF Stream!Take
    <3> QED BY <3>1 DEF Stream!Next
  <2> QED BY <2>1, <2>3, <2>4
<1>3. CASE Cancel
  <2> DEFINE Gone == {v \in Videos : v[2] = ep}
  <2>1. got' = [v \in Videos |-> IF v \in Gone THEN 0 ELSE got[v]] /\ frame' = frame
    BY <1>3 DEF Cancel, Set
  <2>2. Stream!Discard(Gone) /\ Gone \in SUBSET Videos
    BY <2>1 DEF Stream!Discard
  <2> HIDE DEF Gone
  <2> QED BY <2>2 DEF Stream!Next
<1>4. CASE \/ StartEpisode \/ AddFrameRaises \/ FinishEpisode \/ Finishing
           \/ \E v \in Videos : Get(v) \/ SkipBadJpeg(v) \/ Die(v) \/ Ends(v)
           \/ UNCHANGED vars
  BY <1>4 DEF StartEpisode, AddFrameRaises, FinishEpisode, Finishing, SendSentinel, Join,
     JoinTimesOut, Get, SkipBadJpeg, Die, Ends, Works, vars
<1> QED BY <1>1, <1>2, <1>3, <1>4 DEF Next, Worker

(* The videos are a lossy, ordered copy of what was recorded: the recorder  *)
(* implements LossyStream (feed_frame, _CameraEncoderThread.run).           *)
THEOREM OrderKeeps == Spec => InOrder
<1>1. Init => Order /\ Stream!Init
  <2>1. ASSUME Init, NEW v \in Videos
        PROVE  got[v] <= frame /\ Waiting(v) /\ Held(v)
    <3>1. Len(q[v]) = 0 /\ Len(hand[v]) = 0 /\ got[v] = 0 /\ frame = 0
      BY <2>1, EmptyFacts DEF Init, All
    <3> QED BY <3>1 DEF Waiting, Held
  <2>2. Init => Stream!Init
    BY DEF Init, All, Stream!Init
  <2> QED BY <2>1, <2>2, TypeInit DEF Order
<1> QED BY <1>1, OrderStep, StreamStep, PTL DEF Spec, InOrder, Stream!Spec

-----------------------------------------------------------------------------
(* The account of the frames. From its first frame on, every frame of an    *)
(* episode is, for each camera, written, dropped, skipped or still with the *)
(* camera's thread; the sentinel comes after the last one, and a thread     *)
(* ends only on the sentinel.                                               *)

Marks(s) == End \in {s[i] : i \in DOMAIN s}

LEMMA FramesAppend ==
    ASSUME NEW s \in Seq(Nat), NEW x \in Nat
    PROVE  /\ x # End => Frames(Append(s, x)) = Frames(s) \cup {x} /\ (Marks(Append(s, x)) <=> Marks(s))
           /\ x = End => Frames(Append(s, x)) = Frames(s)
<1>1. /\ \A i \in 1..Len(s) : Append(s, x)[i] = s[i]
      /\ Append(s, x)[Len(s) + 1] = x
      /\ DOMAIN Append(s, x) = 1..Len(s) + 1 /\ DOMAIN s = 1..Len(s) /\ Len(s) \in Nat
  OBVIOUS
<1>2. 1..Len(s) + 1 = 1..Len(s) \cup {Len(s) + 1}
  BY <1>1
<1>3. {Append(s, x)[i] : i \in DOMAIN Append(s, x)} = {s[i] : i \in DOMAIN s} \cup {x}
  <2>1. \A y \in {Append(s, x)[i] : i \in DOMAIN Append(s, x)} : y \in {s[i] : i \in DOMAIN s} \cup {x}
    BY <1>1, <1>2
  <2>2. x \in {Append(s, x)[i] : i \in DOMAIN Append(s, x)}
    BY <1>1, <1>2
  <2>3. \A y \in {s[i] : i \in DOMAIN s} : y \in {Append(s, x)[i] : i \in DOMAIN Append(s, x)}
    BY <1>1, <1>2
  <2> QED BY <2>1, <2>2, <2>3
<1> QED BY <1>3 DEF Frames, Marks

LEMMA FramesTail ==
    ASSUME NEW s \in Seq(Nat), s # <<>>
    PROVE  /\ Head(s) # End => Frames(s) = Frames(Tail(s)) \cup {Head(s)}
           /\ Head(s) = End => Frames(s) = Frames(Tail(s)) /\ Marks(s)
           /\ Marks(Tail(s)) => Marks(s)
<1>1. /\ Len(s) \in Nat /\ Len(s) > 0 /\ DOMAIN s = 1..Len(s)
      /\ DOMAIN Tail(s) = 1..Len(s) - 1
      /\ \A i \in 1..Len(s) - 1 : Tail(s)[i] = s[i + 1]
      /\ Head(s) = s[1]
  BY TailFacts, QueueFacts
<1>2. {s[i] : i \in DOMAIN s} = {Tail(s)[i] : i \in DOMAIN Tail(s)} \cup {Head(s)}
  <2>1. ASSUME NEW i \in 1..Len(s)
        PROVE  s[i] \in {Tail(s)[j] : j \in DOMAIN Tail(s)} \cup {Head(s)}
    <3>1. CASE i = 1
      BY <1>1, <3>1
    <3>2. CASE i # 1
      <4>1. i - 1 \in 1..Len(s) - 1 /\ (i - 1) + 1 = i
        BY <1>1, <3>2
      <4> QED BY <1>1, <4>1
    <3> QED BY <3>1, <3>2
  <2>2. \A i \in 1..Len(s) - 1 : i + 1 \in 1..Len(s)
    BY <1>1
  <2>3. \A y \in {Tail(s)[i] : i \in DOMAIN Tail(s)} : y \in {s[i] : i \in DOMAIN s}
    BY <1>1, <2>2
  <2>4. Head(s) \in {s[i] : i \in DOMAIN s}
    BY <1>1
  <2> QED BY <1>1, <2>1, <2>3, <2>4
<1> QED BY <1>2 DEF Frames, Marks

LEMMA FramesOne ==
    /\ Frames(<<>>) = {} /\ ~Marks(<<>>)
    /\ \A x \in Nat : /\ x # End => Frames(<<x>>) = {x} /\ ~Marks(<<x>>)
                      /\ x = End => Frames(<<x>>) = {} /\ Marks(<<x>>)
BY DEF Frames, Marks, End

(* An episode counts from its start until it is cancelled or fails.         *)
Counts(v) == Saved(v[2]) \/ (v[2] = ep /\ main \in {"recording", "sentinel", "join"})
Sent(v) ==
    \/ Saved(v[2])
    \/ v[2] = ep /\ (main = "join" \/ (main = "sentinel" /\ v[1] < at))
HasJoined(v) == Saved(v[2]) \/ (v[2] = ep /\ main = "join" /\ v[1] < at)

Unmarked(v) == thread[v] # "ended" /\ ~Marks(q[v]) /\ ~Marks(hand[v])

Kept(v) ==
    /\ thread[v] # "none"
    /\ spent[v] \cup Unwritten(v) = fed[v[2]]
    /\ ~Sent(v) => Unmarked(v)
    /\ Marks(hand[v]) => Frames(q[v]) = {}
    /\ \A i \in 1..Len(q[v]) : q[v][i] = End => i = Len(q[v])
    /\ thread[v] = "ended" => Unwritten(v) = {}
    /\ HasJoined(v) /\ v \notin late => thread[v] = "ended"

Ledger == Types /\ \A v \in Videos : Counts(v) => Kept(v)

(* A video nothing happened to.                                             *)
LEMMA KeptSame ==
    ASSUME NEW v \in Videos, Kept(v), Sent(v) => Sent(v)',
           HasJoined(v)' => HasJoined(v) \/ v \in late' \/ thread[v] = "ended",
           v \in late => v \in late', thread'[v] = thread[v], q'[v] = q[v], hand'[v] = hand[v],
           spent'[v] = spent[v], fed'[v[2]] = fed[v[2]]
    PROVE  Kept(v)'
<1>1. Unwritten(v)' = Unwritten(v) /\ (Unmarked(v)' <=> Unmarked(v))
  BY DEF Unwritten, Unmarked
<1> QED BY <1>1 DEF Kept

LEMMA KeptStart ==
    ASSUME Types, StartEpisode, NEW v \in Videos, Counts(v)', Counts(v) => Kept(v)
    PROVE  Kept(v)'
<1>1. ep \in Nat /\ ep' = ep + 1 /\ main' = "recording" /\ (main = "idle" \/ main = "saved")
  BY EncoderAssumption DEF StartEpisode, Types, TypeOK
<1>2. v[2] \in Nat
  BY EncoderAssumption DEF Videos, Takes
<1>3. CASE v[2] = ep'
  <2>1. /\ thread'[v] = "run" /\ q'[v] = <<>> /\ hand'[v] = <<>> /\ spent'[v] = {} /\ fed'[v[2]] = {}
    BY <1>1, <1>3 DEF StartEpisode, Set, Types, TypeOK, Videos
  <2>2. Frames(q[v])' = {} /\ Frames(hand[v])' = {} /\ ~Marks(q[v])' /\ ~Marks(hand[v])' /\ Len(q'[v]) = 0
    BY <2>1, FramesOne, EmptyFacts
  <2>3. ~HasJoined(v)'
    BY <1>1, <1>2, <1>3 DEF HasJoined, Saved
  <2> QED BY <2>1, <2>2, <2>3 DEF Kept, Unmarked, Unwritten
<1>4. CASE v[2] # ep'
  <2>1. Saved(v[2])' /\ Saved(v[2])
    BY <1>1, <1>2, <1>4 DEF Counts, Saved
  <2>2. /\ thread'[v] = thread[v] /\ q'[v] = q[v] /\ hand'[v] = hand[v] /\ spent'[v] = spent[v]
        /\ fed'[v[2]] = fed[v[2]] /\ late' = late
    BY <1>1, <1>4 DEF StartEpisode, Set, Types, TypeOK, Videos
  <2> QED BY <2>1, <2>2, KeptSame DEF Counts, Sent, HasJoined
<1> QED BY <1>3, <1>4

LEMMA KeptAdd ==
    ASSUME Types, AddFrame, NEW v \in Videos, Kept(v)
    PROVE  Kept(v)'
<1>1. /\ main = "recording" /\ frame + 1 \in Nat /\ frame + 1 # End /\ q[v] \in Seq(Nat)
      /\ UNCHANGED <<main, at, ep, hand, thread, late>>
  BY DEF AddFrame, Types, TypeOK, End
<1>2. (Sent(v) <=> Saved(v[2])) /\ (HasJoined(v) <=> Saved(v[2])) /\ (Saved(v[2])' <=> Saved(v[2]))
  BY <1>1 DEF Sent, HasJoined, Saved
<1>3. (Sent(v)' <=> Sent(v)) /\ (HasJoined(v)' <=> HasJoined(v))
  BY <1>1 DEF Sent, HasJoined, Saved
<1>4. CASE ~Recorded(v)
  <2>1. q'[v] = q[v] /\ spent'[v] = spent[v] /\ fed'[v[2]] = fed[v[2]]
    BY <1>4 DEF AddFrame, Recorded, Types, TypeOK, Videos
  <2> QED BY <1>1, <1>3, <2>1, KeptSame
<1>5. CASE Recorded(v)
  <2>1. fed'[v[2]] = fed[v[2]] \cup {frame + 1}
    BY <1>5 DEF AddFrame, Recorded, Types, TypeOK, Videos
  <2>2. ~Sent(v) /\ Unmarked(v)
    <3>1. ~Saved(v[2])
      BY <1>1, <1>5, EncoderAssumption DEF Recorded, Saved, Types, TypeOK
    <3> QED BY <1>2, <3>1 DEF Kept
  <2>3. CASE Full(v)
    <3>1. q'[v] = q[v] /\ spent'[v] = spent[v] \cup {frame + 1}
      BY <1>5, <2>3 DEF AddFrame, Types, TypeOK
    <3>2. Unwritten(v)' = Unwritten(v) /\ (Unmarked(v)' <=> Unmarked(v))
      BY <1>1, <3>1 DEF Unwritten, Unmarked
    <3>3. spent'[v] \cup Unwritten(v)' = fed'[v[2]]
      BY <2>1, <3>1, <3>2 DEF Kept
    <3> QED BY <1>1, <1>3, <3>1, <3>2, <3>3 DEF Kept
  <2>4. CASE ~Full(v)
    <3>1. q'[v] = Append(q[v], frame + 1) /\ spent'[v] = spent[v]
      BY <1>5, <2>4 DEF AddFrame, Types, TypeOK
    <3>2. Frames(q'[v]) = Frames(q[v]) \cup {frame + 1} /\ (Marks(q'[v]) <=> Marks(q[v]))
      BY <1>1, <3>1, FramesAppend
    <3>3. spent'[v] \cup Unwritten(v)' = fed'[v[2]]
      BY <1>1, <2>1, <3>1, <3>2 DEF Kept, Unwritten
    <3>4. Unmarked(v)'
      BY <1>1, <2>2, <3>2 DEF Unmarked
    <3>5. \A i \in 1..Len(q'[v]) : q'[v][i] # End
      BY <1>1, <3>1, <3>4 DEF Unmarked, Marks
    <3> QED BY <1>1, <1>2, <1>3, <2>2, <3>3, <3>4, <3>5 DEF Kept, Unmarked
  <2> QED BY <2>3, <2>4
<1> QED BY <1>4, <1>5

LEMMA KeptSentinel ==
    ASSUME Types, SendSentinel, NEW v \in Videos, Kept(v)
    PROVE  Kept(v)'
<1>1. /\ at \in Cams /\ main = "sentinel" /\ End \in Nat
      /\ UNCHANGED <<ep, frame, fed, hand, thread, spent, late>>
      /\ q' = [q EXCEPT ![Now(at)] = Append(@, End)]
      /\ IF at < NumCams THEN main' = "sentinel" /\ at' = at + 1
                         ELSE main' = "join" /\ at' = 1
  BY DEF SendSentinel, NextCam, Types, TypeOK, End
<1>2. v = <<v[1], v[2]>> /\ v[1] \in Cams
  BY DEF Videos
<1>3. Saved(v[2])' <=> Saved(v[2])
  BY <1>1 DEF Saved
<1>4. HasJoined(v)' => HasJoined(v)
  <2>1. ~(main' = "join" /\ v[1] < at')
    BY <1>1, <1>2, EncoderAssumption DEF Cams
  <2> QED BY <1>1, <1>3, <2>1 DEF HasJoined
<1>5. CASE v # Now(at)
  <2>1. q'[v] = q[v]
    BY <1>1, <1>5 DEF Types, TypeOK
  <2>2. Sent(v) => Sent(v)'
    BY <1>1, <1>2, <1>3, EncoderAssumption DEF Sent, Cams
  <2> QED BY <1>1, <1>4, <2>1, <2>2, KeptSame
<1>6. CASE v = Now(at)
  <2>1. v[1] = at /\ v[2] = ep /\ q[v] \in Seq(Nat) /\ q'[v] = Append(q[v], End)
    BY <1>1, <1>6 DEF Now, Types, TypeOK
  <2>2. ~Sent(v) /\ Unmarked(v)
    <3>1. ~Saved(v[2])
      BY <1>1, <2>1, EncoderAssumption DEF Saved, Types, TypeOK
    <3>2. ~(main = "join" \/ (main = "sentinel" /\ v[1] < at))
      BY <1>1, <2>1, EncoderAssumption DEF Cams
    <3> QED BY <3>1, <3>2 DEF Sent, Kept
  <2>3. Sent(v)'
    BY <1>1, <2>1, EncoderAssumption DEF Sent, Cams
  <2>4. Unwritten(v)' = Unwritten(v)
    BY <1>1, <2>1, FramesAppend DEF Unwritten
  <2>5. \A i \in 1..Len(q'[v]) : q'[v][i] = End => i = Len(q'[v])
    <3>1. /\ Len(q'[v]) = Len(q[v]) + 1 /\ Len(q[v]) \in Nat
          /\ \A i \in 1..Len(q[v]) : q'[v][i] = q[v][i] /\ q[v][i] # End
      BY <1>1, <2>1, <2>2, QueueFacts DEF Unmarked, Marks
    <3>2. \A i \in 1..Len(q'[v]) : i \in 1..Len(q[v]) \/ i = Len(q'[v])
      BY <3>1
    <3> QED BY <3>1, <3>2
  <2> QED BY <1>1, <1>4, <2>2, <2>3, <2>4, <2>5 DEF Kept, Unmarked
<1> QED BY <1>5, <1>6

LEMMA KeptGet ==
    ASSUME Types, NEW v \in Videos, Get(v), Kept(v)
    PROVE  Kept(v)'
<1>1. /\ UNCHANGED <<main, at, ep, fed, thread, spent, late>>
      /\ q[v] \in Seq(Nat) /\ q[v] # <<>> /\ hand[v] = <<>> /\ thread[v] = "run"
      /\ q'[v] = Tail(q[v]) /\ hand'[v] = <<Head(q[v])>>
  BY DEF Get, Works, Types, TypeOK
<1>2. (Sent(v)' <=> Sent(v)) /\ (HasJoined(v)' <=> HasJoined(v))
  BY <1>1 DEF Sent, HasJoined, Saved
<1>3. Head(q[v]) \in Nat /\ Frames(hand[v]) = {} /\ ~Marks(hand[v])
  BY <1>1, TailFacts, FramesOne
<1>4. /\ Head(q[v]) # End => Frames(q[v]) = Frames(q'[v]) \cup {Head(q[v])}
      /\ Head(q[v]) = End => Frames(q[v]) = Frames(q'[v]) /\ Marks(q[v])
      /\ Marks(q'[v]) => Marks(q[v])
  BY <1>1, FramesTail
<1>5. /\ Head(q[v]) # End => Frames(hand'[v]) = {Head(q[v])} /\ ~Marks(hand'[v])
      /\ Head(q[v]) = End => Frames(hand'[v]) = {} /\ Marks(hand'[v])
  BY <1>1, <1>3, FramesOne
<1>6. Unwritten(v)' = Unwritten(v)
  BY <1>3, <1>4, <1>5 DEF Unwritten
<1>7. Unmarked(v) => Unmarked(v)'
  BY <1>1, <1>4, <1>5 DEF Unmarked
<1>8. /\ Len(q[v]) \in Nat /\ Len(q[v]) > 0 /\ Len(q'[v]) = Len(q[v]) - 1
      /\ \A i \in 1..Len(q[v]) - 1 : q'[v][i] = q[v][i + 1]
      /\ Head(q[v]) = q[v][1]
  BY <1>1, TailFacts, QueueFacts
<1>9. \A i \in 1..Len(q'[v]) : q'[v][i] = End => i = Len(q'[v])
  <2>1. \A i \in 1..Len(q'[v]) : i + 1 \in 1..Len(q[v]) /\ (i + 1 = Len(q[v]) => i = Len(q'[v]))
    BY <1>8
  <2> QED BY <1>8, <2>1 DEF Kept
<1>10. Head(q[v]) = End => Frames(q'[v]) = {}
  <2>1. ASSUME Head(q[v]) = End PROVE Frames(q'[v]) = {}
    <3>1. 1 = Len(q[v])
      <4>1. 1 \in 1..Len(q[v]) /\ q[v][1] = End
        BY <1>8, <2>1
      <4>2. \A i \in 1..Len(q[v]) : q[v][i] = End => i = Len(q[v])
        BY DEF Kept
      <4> QED BY <4>1, <4>2, Zenon
    <3>2. q'[v] = <<>>
      <4>1. q'[v] \in Seq(Nat) /\ Len(q'[v]) = 0 /\ End \in Nat
        BY <1>1, <1>8, <3>1, TailFacts DEF End
      <4> QED BY <4>1, QueueFacts
    <3> QED BY <3>2, FramesOne
  <2> QED BY <2>1
<1> QED BY <1>1, <1>2, <1>5, <1>6, <1>7, <1>9, <1>10 DEF Kept

LEMMA KeptDone ==
    ASSUME Types, NEW v \in Videos, Encode(v) \/ SkipBadJpeg(v), Kept(v)
    PROVE  Kept(v)'
<1>1. /\ Len(hand[v]) = 1 /\ hand[v][1] # End /\ hand[v][1] \in Nat
      /\ spent'[v] = spent[v] \cup {hand[v][1]}
      /\ UNCHANGED <<main, at, ep, fed, q, thread, late>>
  BY DoneFacts DEF Types
<1>2. hand'[v] = <<>> /\ thread[v] = "run"
  BY DEF Encode, SkipBadJpeg, Works, Types, TypeOK
<1>3. (Sent(v)' <=> Sent(v)) /\ (HasJoined(v)' <=> HasJoined(v))
  BY <1>1 DEF Sent, HasJoined, Saved
<1>4. Frames(hand[v]) = {hand[v][1]} /\ Frames(hand'[v]) = {} /\ ~Marks(hand'[v])
  <2>1. DOMAIN hand[v] = 1..1
    BY <1>1 DEF Types, TypeOK
  <2>2. Frames(hand[v]) = {hand[v][1]}
    BY <1>1, <2>1 DEF Frames
  <2> QED BY <1>2, <2>2, FramesOne
<1>5. spent'[v] \cup Unwritten(v)' = fed'[v[2]]
  BY <1>1, <1>4 DEF Kept, Unwritten
<1>6. Unmarked(v) => Unmarked(v)'
  BY <1>1, <1>4 DEF Unmarked
<1> QED BY <1>1, <1>2, <1>3, <1>4, <1>5, <1>6 DEF Kept

LEMMA KeptOver ==
    ASSUME Types, NEW v \in Videos, Die(v) \/ Ends(v), Kept(v)
    PROVE  Kept(v)'
<1>1. /\ UNCHANGED <<main, at, ep, fed, q, hand, spent, late>>
      /\ thread[v] = "run"
  BY DEF Die, Ends, Works
<1>2. (Sent(v)' <=> Sent(v)) /\ (HasJoined(v)' <=> HasJoined(v)) /\ Unwritten(v)' = Unwritten(v)
  BY <1>1 DEF Sent, HasJoined, Saved, Unwritten
<1>3. HasJoined(v) => v \in late
  BY <1>1 DEF Kept
<1>4. CASE Die(v)
  <2>1. thread'[v] = "dead"
    BY <1>4 DEF Die, Types, TypeOK
  <2> QED BY <1>1, <1>2, <1>3, <2>1 DEF Kept, Unmarked
<1>5. CASE Ends(v)
  <2>1. thread'[v] = "ended" /\ hand[v] = <<End>>
    BY <1>5 DEF Ends, Types, TypeOK
  <2>2. Marks(hand[v]) /\ Frames(hand[v]) = {}
    BY <2>1, FramesOne DEF End
  <2>3. Unwritten(v) = {} /\ Sent(v)
    BY <2>2 DEF Kept, Unmarked, Unwritten
  <2> QED BY <1>1, <1>2, <1>3, <2>1, <2>3 DEF Kept
<1> QED BY <1>4, <1>5

(* Joining a camera's thread changes no queue.                              *)
LEMMA KeptJoin ==
    ASSUME Types, Join \/ JoinTimesOut, main' # "raised", NEW v \in Videos, Kept(v)
    PROVE  Kept(v)'
<1>1. /\ main = "join" /\ at \in Cams /\ ep \in Nat /\ ep' = ep /\ late \subseteq late'
      /\ UNCHANGED <<fed, q, hand, thread, spent>>
      /\ Now(at) \in late' \/ thread[Now(at)] \notin {"run", "dead"}
      /\ NextCam("saved")
  BY EncoderAssumption DEF Join, JoinTimesOut, Types, TypeOK, queues
<1>2. \/ at < NumCams /\ at' = at + 1 /\ main' = "join"
      \/ ~(at < NumCams) /\ at' = 1 /\ main' = "saved"
  BY <1>1 DEF NextCam
<1>3. v[1] \in Cams /\ v[2] \in Nat /\ v = <<v[1], v[2]>> /\ thread[v] \in {"none", "run", "ended", "dead"}
  BY EncoderAssumption DEF Videos, Takes, Types, TypeOK
<1>4. Sent(v) => Sent(v)'
  BY <1>1, <1>2, <1>3 DEF Sent, Saved
<1>5. HasJoined(v)' => HasJoined(v) \/ v = Now(at)
  <2>1. CASE at < NumCams /\ at' = at + 1 /\ main' = "join"
    BY <1>1, <1>3, <2>1, EncoderAssumption DEF HasJoined, Saved, Cams, Now
  <2>2. CASE ~(at < NumCams) /\ at' = 1 /\ main' = "saved"
    <3>1. HasJoined(v)' => v[2] < ep \/ v[2] = ep
      BY <1>1, <2>2 DEF HasJoined, Saved
    <3>2. v[1] < at \/ v[1] = at
      BY <1>1, <1>3, <2>2, EncoderAssumption DEF Cams
    <3> QED BY <1>1, <1>3, <3>1, <3>2 DEF HasJoined, Saved, Now
  <2> QED BY <1>2, <2>1, <2>2
<1>6. v = Now(at) => v \in late' \/ thread[v] = "ended"
  BY <1>1, <1>3 DEF Kept
<1> QED BY <1>1, <1>4, <1>5, <1>6, KeptSame

(* Of the episodes that count after a step that starts none, each counted   *)
(* before.                                                                  *)
LEMMA CountsBack ==
    ASSUME Types, [Next]_vars, ~StartEpisode, NEW v \in Videos, Counts(v)'
    PROVE  Counts(v)
<1>1. ep \in Nat /\ v[2] \in Nat
  BY EncoderAssumption DEF Types, TypeOK, Videos, Takes
<1>2. CASE Cancel
  BY <1>1, <1>2 DEF Cancel, Counts, Saved
<1>3. CASE Join \/ JoinTimesOut
  BY <1>1, <1>3 DEF Join, JoinTimesOut, Counts, Saved
<1>4. CASE AddFrameRaises \/ FinishEpisode \/ SendSentinel
  BY <1>1, <1>4 DEF AddFrameRaises, FinishEpisode, SendSentinel, Counts, Saved
<1>5. CASE AddFrame \/ UNCHANGED vars \/ \E w \in Videos : Worker(w)
  <2>1. UNCHANGED <<main, ep>>
    BY <1>5 DEF AddFrame, vars, Worker, Get, Encode, SkipBadJpeg, Die, Ends, Works
  <2> QED BY <2>1 DEF Counts, Saved
<1> QED BY <1>2, <1>3, <1>4, <1>5 DEF Next, Finishing

LEMMA LedgerStep == Ledger /\ [Next]_vars => Ledger'
<1> SUFFICES ASSUME Ledger, [Next]_vars, NEW v \in Videos, Counts(v)'
             PROVE  Kept(v)'
  BY TypeStep DEF Ledger, Videos, Cams, Takes
<1>0. Types /\ (Counts(v) => Kept(v)) /\ (~StartEpisode => Counts(v) /\ Kept(v))
  BY CountsBack DEF Ledger
<1>1. CASE StartEpisode
  BY <1>0, <1>1, KeptStart
<1> SUFFICES ASSUME ~StartEpisode PROVE Kept(v)'
  BY <1>1
<1>2. CASE AddFrame
  BY <1>0, <1>2, KeptAdd
<1>3. CASE AddFrameRaises \/ FinishEpisode
  <2>1. /\ UNCHANGED <<ep, fed, q, hand, thread, spent, late>>
        /\ main = "recording" /\ main' \in {"raised", "sentinel"}
        /\ main' = "sentinel" => at' = 1
    BY <1>3 DEF AddFrameRaises, FinishEpisode, queues
  <2>2. (Sent(v) <=> v[2] < ep) /\ (v[2] < ep => Sent(v)') /\ (HasJoined(v)' => HasJoined(v))
    BY <2>1 DEF Sent, HasJoined, Saved
  <2> QED BY <1>0, <2>1, <2>2, KeptSame
<1>4. CASE SendSentinel
  BY <1>0, <1>4, KeptSentinel
<1>5. CASE Join \/ JoinTimesOut
  <2>1. CASE main' # "raised"
    BY <1>0, <1>5, <2>1, KeptJoin
  <2>2. CASE main' = "raised"
    <3>1. /\ UNCHANGED <<ep, fed, q, hand, thread, spent>> /\ main = "join" /\ late' = late
      BY <1>5, <2>2 DEF Join, JoinTimesOut, NextCam, queues
    <3>2. Saved(v[2])'
      BY <2>2 DEF Counts
    <3>3. Saved(v[2])
      BY <2>2, <3>1, <3>2 DEF Saved
    <3> QED BY <1>0, <3>1, <3>2, <3>3, KeptSame DEF Sent, HasJoined
  <2> QED BY <2>1, <2>2
<1>6. CASE Cancel
  <2>1. ep \in Nat /\ ep' = ep - 1 /\ main' \in {"idle", "stopped"} /\ v[2] \in Nat
    BY <1>0, <1>6, EncoderAssumption DEF Cancel, Types, TypeOK, Videos, Takes
  <2>2. v[2] < ep
    BY <2>1 DEF Counts, Saved
  <2>3. Saved(v[2]) /\ Saved(v[2])' /\ v[2] # ep
    BY <2>1, <2>2 DEF Saved
  <2>4. /\ thread'[v] = thread[v] /\ q'[v] = q[v] /\ hand'[v] = hand[v] /\ spent'[v] = spent[v]
        /\ fed'[v[2]] = fed[v[2]] /\ (v \in late => v \in late')
    BY <1>0, <1>6, <2>3 DEF Cancel, Set, Types, TypeOK, Videos
  <2> QED BY <1>0, <2>3, <2>4, KeptSame DEF Sent, HasJoined
<1>7. ASSUME NEW w \in Videos, Worker(w)
      PROVE  Kept(v)'
  <2>1. UNCHANGED <<main, at, ep, fed, late>>
    BY <1>7 DEF Worker, Get, Encode, SkipBadJpeg, Die, Ends, Works
  <2>2. CASE w = v
    BY <1>0, <1>7, <2>2, KeptGet, KeptDone, KeptOver DEF Worker
  <2>3. CASE w # v
    <3>1. /\ thread'[v] = thread[v] /\ q'[v] = q[v] /\ hand'[v] = hand[v] /\ spent'[v] = spent[v]
      BY <1>0, <1>7, <2>3 DEF Worker, Get, Encode, SkipBadJpeg, Die, Ends, Types, TypeOK
    <3>2. (Sent(v)' <=> Sent(v)) /\ (HasJoined(v)' <=> HasJoined(v))
      BY <2>1 DEF Sent, HasJoined, Saved
    <3> QED BY <1>0, <2>1, <3>1, <3>2, KeptSame
  <2> QED BY <2>2, <2>3
<1>8. CASE UNCHANGED vars
  <2>1. UNCHANGED <<main, at, ep, fed, q, hand, thread, spent, late>>
    BY <1>8 DEF vars, queues
  <2>2. (Sent(v)' <=> Sent(v)) /\ (HasJoined(v)' <=> HasJoined(v))
    BY <2>1 DEF Sent, HasJoined, Saved
  <2> QED BY <1>0, <2>1, <2>2, KeptSame
<1> QED BY <1>1, <1>2, <1>3, <1>4, <1>5, <1>6, <1>7, <1>8 DEF Next, Finishing

(* Whatever dies, every frame of a saved episode is in its video, dropped,   *)
(* unreadable or still with the video's thread, and only a thread that was  *)
(* given up on still has some: the others ended on the sentinel, which is   *)
(* the last thing in their queue (finish_episode, _CameraEncoderThread.run).*)
THEOREM NothingGetsLost == Spec => []FramesAccounted
<1>1. Init => Ledger
  <2>1. ASSUME Init, NEW v \in Videos PROVE ~Counts(v)
    <3>1. ep = 0 /\ main = "idle" /\ v[2] \in Nat /\ v[2] # 0
      BY <2>1, EncoderAssumption DEF Init, Videos, Takes
    <3> QED BY <3>1 DEF Counts, Saved
  <2> QED BY <2>1, TypeInit DEF Ledger
<1>2. Ledger => FramesAccounted
  <2> SUFFICES ASSUME Ledger, NEW v \in Videos, Saved(v[2])
               PROVE  spent[v] \cup Unwritten(v) = fed[v[2]] /\ (v \notin late => Unwritten(v) = {})
    BY DEF FramesAccounted
  <2>1. Kept(v) /\ HasJoined(v)
    BY DEF Ledger, Counts, HasJoined
  <2> QED BY <2>1 DEF Kept
<1> QED BY <1>1, <1>2, LedgerStep, PTL DEF Spec

-----------------------------------------------------------------------------
(* The episodes themselves and, for cameras that deliver JPEG, their videos  *)
(* (EpisodeStore).                                                           *)


(* Episodes go from one list to the next in the order they were recorded.   *)
Sorted(s)    == \A i, j \in DOMAIN s : i < j => s[i] < s[j]
Before(s, t) == \A x \in ToSet(s), y \in ToSet(t) : x < y

LEMMA ListFacts ==
    ASSUME NEW T, NEW s \in Seq(T)
    PROVE  /\ Len(s) \in Nat /\ DOMAIN s = 1..Len(s)
           /\ \A x : x \in ToSet(s) <=> \E i \in 1..Len(s) : s[i] = x
           /\ ToSet(s) \subseteq T
BY LenProperties DEF ToSet

LEMMA EmptyList ==
    /\ Sorted(<< >>) /\ ToSet(<< >>) = {}
    /\ << >> \in Seq(Episodes)
    /\ Len(<< >>) = 0
BY DEF Sorted, ToSet

LEMMA AppendList ==
    ASSUME Episodes \subseteq Int, NEW s \in Seq(Episodes), Sorted(s), NEW e \in Episodes,
           \A x \in ToSet(s) : x < e
    PROVE  /\ Append(s, e) \in Seq(Episodes)
           /\ Sorted(Append(s, e))
           /\ ToSet(Append(s, e)) = ToSet(s) \cup {e}
<1> DEFINE t == Append(s, e)
<1>1. /\ t \in Seq(Episodes) /\ Len(t) = Len(s) + 1 /\ Len(s) \in Nat
      /\ \A i \in 1..Len(s) : t[i] = s[i]
      /\ t[Len(s) + 1] = e
      /\ DOMAIN t = 1..Len(s) + 1 /\ DOMAIN s = 1..Len(s)
  BY AppendProperties, LenProperties
<1> HIDE DEF t
<1>2. ToSet(t) = ToSet(s) \cup {e}
  <2>1. \A i \in 1..Len(s) + 1 : i \in 1..Len(s) \/ i = Len(s) + 1
    BY <1>1
  <2>2. \A i \in 1..Len(s) : i \in 1..Len(s) + 1
    BY <1>1
  <2>3. Len(s) + 1 \in 1..Len(s) + 1
    BY <1>1
  <2> QED BY <1>1, <2>1, <2>2, <2>3, Zenon DEF ToSet
<1>3. ASSUME NEW i \in 1..Len(s) + 1, NEW j \in 1..Len(s) + 1, i < j
      PROVE  t[i] < t[j]
  <2>1. i \in 1..Len(s) /\ t[i] = s[i] /\ s[i] \in ToSet(s)
    BY <1>1, <1>3 DEF ToSet
  <2>2. CASE j = Len(s) + 1
    BY <1>1, <2>1, <2>2
  <2>3. CASE j # Len(s) + 1
    BY <1>1, <1>3, <2>1, <2>3 DEF Sorted
  <2> QED BY <2>2, <2>3
<1>4. Sorted(t)
  BY <1>1, <1>3 DEF Sorted
<1> QED BY <1>1, <1>2, <1>4 DEF t

LEMMA JoinLists ==
    ASSUME Episodes \subseteq Int, NEW s \in Seq(Episodes), NEW r \in Seq(Episodes),
           Sorted(s), Sorted(r), Before(s, r)
    PROVE  /\ s \o r \in Seq(Episodes)
           /\ Sorted(s \o r)
           /\ ToSet(s \o r) = ToSet(s) \cup ToSet(r)
<1> DEFINE t == s \o r
           m == Len(s)
           n == Len(r)
<1>1. /\ t \in Seq(Episodes) /\ Len(t) = m + n /\ m \in Nat /\ n \in Nat
      /\ \A i \in 1..m + n : t[i] = IF i <= m THEN s[i] ELSE r[i - m]
      /\ DOMAIN t = 1..m + n /\ DOMAIN s = 1..m /\ DOMAIN r = 1..n
  BY ConcatProperties, LenProperties
<1>2. /\ \A i \in 1..m : s[i] \in ToSet(s) /\ s[i] \in Int
      /\ \A i \in 1..n : r[i] \in ToSet(r) /\ r[i] \in Int
  BY ListFacts, ElementOfSeq
<1> HIDE DEF t, m, n
<1>3. ToSet(t) = ToSet(s) \cup ToSet(r)
  <2>1. ASSUME NEW i \in 1..m + n
        PROVE  t[i] \in ToSet(s) \cup ToSet(r)
    <3>1. CASE i <= m
      BY <1>1, <1>2, <3>1
    <3>2. CASE ~(i <= m)
      <4>1. i - m \in 1..n
        BY <1>1, <3>2
      <4> QED BY <1>1, <1>2, <3>2, <4>1
    <3> QED BY <3>1, <3>2
  <2>2. ASSUME NEW i \in 1..m
        PROVE  s[i] \in ToSet(t)
    <3>1. i \in 1..m + n /\ t[i] = s[i]
      BY <1>1
    <3> QED BY <1>1, <3>1 DEF ToSet
  <2>3. ASSUME NEW i \in 1..n
        PROVE  r[i] \in ToSet(t)
    <3>1. i + m \in 1..m + n /\ t[i + m] = r[i]
      BY <1>1
    <3> QED BY <1>1, <3>1, Zenon DEF ToSet
  <2>4. ToSet(t) \subseteq ToSet(s) \cup ToSet(r)
    <3>1. \A x \in ToSet(t) : \E i \in 1..m + n : x = t[i]
      BY <1>1 DEF ToSet
    <3> QED BY <2>1, <3>1
  <2>5. ToSet(s) \subseteq ToSet(t) /\ ToSet(r) \subseteq ToSet(t)
    <3>1. \A x \in ToSet(s) : \E i \in 1..m : x = s[i]
      BY <1>1 DEF ToSet
    <3>2. \A x \in ToSet(r) : \E i \in 1..n : x = r[i]
      BY <1>1 DEF ToSet
    <3> QED BY <2>2, <2>3, <3>1, <3>2
  <2> QED BY <2>4, <2>5
<1>4. ASSUME NEW i \in 1..m + n, NEW j \in 1..m + n, i < j
      PROVE  t[i] < t[j]
  <2>1. CASE j <= m
    <3>1. i \in 1..m /\ j \in 1..m /\ i <= m
      BY <1>1, <1>4, <2>1
    <3>2. s[i] < s[j]
      BY <1>1, <1>4, <3>1 DEF Sorted
    <3> QED BY <1>1, <2>1, <3>1, <3>2
  <2>2. CASE i <= m /\ ~(j <= m)
    <3>1. j - m \in 1..n /\ i \in 1..m
      BY <1>1, <2>2
    <3> QED BY <1>1, <1>2, <2>2, <3>1 DEF Before
  <2>3. CASE ~(i <= m)
    <3>1. i - m \in 1..n /\ j - m \in 1..n /\ i - m < j - m /\ ~(j <= m)
      BY <1>1, <1>4, <2>3
    <3> QED BY <1>1, <2>3, <3>1 DEF Sorted
  <2> QED BY <1>1, <1>4, <2>1, <2>2, <2>3
<1>5. Sorted(t)
  BY <1>1, <1>4 DEF Sorted
<1> QED BY <1>1, <1>3, <1>5 DEF t

LEMMA TailList ==
    ASSUME Episodes \subseteq Int, NEW s \in Seq(Episodes), Sorted(s), s # << >>
    PROVE  /\ Tail(s) \in Seq(Episodes) /\ Head(s) \in Episodes
           /\ Sorted(Tail(s))
           /\ ToSet(s) = {Head(s)} \cup ToSet(Tail(s))
           /\ \A x \in ToSet(Tail(s)) : Head(s) < x
<1> DEFINE t == Tail(s)
           m == Len(t)
<1>1. /\ t \in Seq(Episodes) /\ Head(s) \in Episodes /\ Head(s) = s[1]
      /\ m \in Nat /\ Len(s) = m + 1
      /\ \A i \in 1..m : t[i] = s[i + 1]
      /\ DOMAIN t = 1..m /\ DOMAIN s = 1..m + 1
  <2>1. /\ t \in Seq(Episodes) /\ Head(s) \in Episodes /\ Len(t) = Len(s) - 1 /\ Head(s) = s[1]
        /\ \A i \in 1..m : t[i] = s[i + 1]
        /\ Len(s) \in Nat \ {0} /\ DOMAIN s = 1..Len(s)
    BY HeadTailProperties, EmptySeq, LenProperties
  <2>2. m \in Nat /\ DOMAIN t = 1..m
    BY <2>1, LenProperties
  <2> QED BY <2>1, <2>2
<1> HIDE DEF t, m
<1>2. Sorted(t)
  <2> SUFFICES ASSUME NEW i \in 1..m, NEW j \in 1..m, i < j
               PROVE  t[i] < t[j]
    BY <1>1 DEF Sorted
  <2>1. i + 1 \in 1..m + 1 /\ j + 1 \in 1..m + 1 /\ i + 1 < j + 1
    BY <1>1
  <2> QED BY <1>1, <2>1 DEF Sorted
<1>3. ASSUME NEW x \in ToSet(t)
      PROVE  Head(s) < x /\ x \in ToSet(s)
  <2>1. PICK i \in 1..m : x = s[i + 1]
    BY <1>1 DEF ToSet
  <2>2. i + 1 \in 1..m + 1 /\ 1 \in 1..m + 1 /\ 1 < i + 1
    BY <1>1
  <2> QED BY <1>1, <2>1, <2>2 DEF Sorted, ToSet
<1>4. ASSUME NEW x \in ToSet(s), x # Head(s)
      PROVE  x \in ToSet(t)
  <2>1. PICK i \in 1..m + 1 : x = s[i]
    BY <1>1 DEF ToSet
  <2>2. i - 1 \in 1..m /\ (i - 1) + 1 = i
    BY <1>1, <1>4, <2>1
  <2>3. t[i - 1] = x
    BY <1>1, <2>1, <2>2
  <2> QED BY <1>1, <2>2, <2>3 DEF ToSet
<1>5. Head(s) \in ToSet(s)
  <2>1. 1 \in 1..m + 1
    BY <1>1
  <2> QED BY <1>1, <2>1 DEF ToSet
<1> QED BY <1>1, <1>2, <1>3, <1>4, <1>5 DEF t

-----------------------------------------------------------------------------
Recording == stage \in {"record", "start", "reset"}

(* Which lists can hold something where the main thread is: the background  *)
(* thread and finalize never have an episode at the same time.              *)
PhaseInv ==
    /\ Recording => tries = 0
    /\ stage \in {"record", "start"} => jobs = << >>
    /\ jobs = << >> \/ deferred = << >>
    /\ stage \in {"wait", "join", "close", "closed", "gaveup"} => deferred = << >>
    /\ stage \in {"join", "close", "closed", "gaveup"} => jobs = << >>
    /\ stage \in {"join", "close", "closed"} => ready = << >>
    /\ stage # "join" => todo = << >> /\ pending = {}

(* An episode counts as saved once info.json has it; only a save that failed *)
(* can leave one more behind, and then recording is over.                   *)
Counted(s) == \A e \in ToSet(s) : e < saved \/ (~Recording /\ "save" \in faults)

OrderInv ==
    /\ Sorted(deferred) /\ Sorted(jobs) /\ Sorted(ready) /\ Sorted(todo)
    /\ Before(ready, jobs) /\ Before(ready, deferred)
    /\ Counted(deferred) /\ Counted(jobs) /\ Counted(ready) /\ Counted(todo)

ListTypes ==
    /\ program \in {"record", "rollout"}
    /\ stage \in {"record", "start", "reset", "finish", "wait", "join", "close",
                 "closed", "gaveup"}
    /\ saved \in 0..NumEpisodes
    /\ deferred \in Seq(Episodes) /\ jobs \in Seq(Episodes)
    /\ ready \in Seq(Episodes) /\ todo \in Seq(Episodes)
    /\ failed \in BOOLEAN
    /\ tries \in 0..MaxTries /\ faults \subseteq {"save", "transcode", "join"}

ListInv == ListTypes /\ PhaseInv /\ OrderInv

LEMMA EpisodeInts == Episodes \subseteq Int /\ Episodes # {} /\ NumEpisodes \in Nat
BY StoreAssumption DEF Episodes

(* Steps that leave the lists alone.                                        *)
LEMMA SameLists ==
    ASSUME OrderInv, UNCHANGED <<deferred, jobs, ready, todo, saved>>,
           faults \subseteq faults', Recording' => Recording
    PROVE  OrderInv'
BY DEF OrderInv, Counted

LEMMA ListStep ==
    ASSUME ListInv, [StoreNext]_storeVars
    PROVE  ListInv'
<1> USE DEF meta, mp4s, joining
<1>0. /\ Episodes \subseteq Int /\ NumEpisodes \in Nat /\ MaxTries \in Nat \ {0}
      /\ saved \in Int
      /\ \A s \in Seq(Episodes) : ToSet(s) \subseteq Int
      /\ << >> \in Seq(Episodes)
  <2>1. Episodes \subseteq Int /\ NumEpisodes \in Nat
    BY EpisodeInts
  <2>2. MaxTries \in Nat \ {0}
    BY StoreAssumption
  <2>3. saved \in Int
    BY <2>1 DEF ListInv, ListTypes
  <2>4. \A s \in Seq(Episodes) : ToSet(s) \subseteq Int
    BY <2>1, ListFacts
  <2>5. << >> \in Seq(Episodes)
    BY EmptyList
  <2> QED BY <2>1, <2>2, <2>3, <2>4, <2>5
<1>1. CASE SaveEpisode
  <2>1. /\ stage = "record" /\ saved \in Episodes /\ saved' = saved + 1 /\ jobs = << >>
        /\ deferred' = Append(deferred, saved)
        /\ UNCHANGED <<program, jobs, failed, ready, todo, pending, tries, faults>>
        /\ stage' \in {"record", "start"}
    BY <1>1, <1>0 DEF SaveEpisode, ListInv, ListTypes, PhaseInv, Episodes
  <2>2. Recording /\ Recording'
    BY <2>1 DEF Recording
  <2>3. \A s \in {deferred, jobs, ready, todo} : \A e \in ToSet(s) : e < saved
    BY <2>2 DEF ListInv, OrderInv, Counted
  <2>4. /\ deferred' \in Seq(Episodes) /\ Sorted(deferred')
        /\ ToSet(deferred') = ToSet(deferred) \cup {saved}
    <3>1. /\ deferred \in Seq(Episodes) /\ Sorted(deferred)
          /\ \A e \in ToSet(deferred) : e < saved
      BY <2>3 DEF ListInv, ListTypes, OrderInv
    <3> QED BY <1>0, <2>1, <3>1, AppendList
  <2>5. OrderInv'
    <3>1. Before(ready, deferred)'
      BY <2>1, <2>3, <2>4 DEF ListInv, OrderInv, Before
    <3>2. \A e \in Int : e < saved => e < saved'
      BY <1>0, <2>1
    <3>3. Counted(deferred)' /\ Counted(jobs)' /\ Counted(ready)' /\ Counted(todo)'
      <4>1. \A s \in {deferred, jobs, ready, todo} : \A e \in ToSet(s) : e < saved'
        BY <1>0, <2>3, <3>2 DEF ListInv, ListTypes
      <4>2. \A e \in ToSet(deferred') : e < saved'
        BY <1>0, <2>1, <2>4, <4>1
      <4> QED BY <2>1, <4>1, <4>2 DEF Counted
    <3> QED BY <2>1, <2>4, <3>1, <3>3 DEF ListInv, OrderInv, Before
  <2>6. PhaseInv'
    BY <2>1 DEF ListInv, PhaseInv, Recording
  <2>7. ListTypes'
    BY <1>0, <2>1, <2>4 DEF ListInv, ListTypes, Episodes
  <2> QED BY <2>5, <2>6, <2>7 DEF ListInv
<1>2. CASE SaveFails
  <2>1. /\ stage = "record" /\ saved \in Episodes /\ jobs = << >> /\ tries = 0
        /\ deferred' \in {deferred, Append(deferred, saved)}
        /\ UNCHANGED <<program, saved, jobs, failed, ready, todo, pending>>
        /\ stage' = "finish" /\ tries' = tries + 1 /\ faults' = faults \cup {"save"}
    BY <1>2, <1>0 DEF SaveFails, Finish, Fault, ListInv, ListTypes, PhaseInv, Recording, Episodes
  <2>2. Recording /\ ~Recording'
    BY <2>1 DEF Recording
  <2>3. \A s \in {deferred, jobs, ready, todo} : \A e \in ToSet(s) : e < saved
    BY <2>2 DEF ListInv, OrderInv, Counted
  <2>4. /\ deferred' \in Seq(Episodes) /\ Sorted(deferred')
        /\ ToSet(deferred') \subseteq ToSet(deferred) \cup {saved}
    <3>1. /\ deferred \in Seq(Episodes) /\ Sorted(deferred)
          /\ \A e \in ToSet(deferred) : e < saved
      BY <2>3 DEF ListInv, ListTypes, OrderInv
    <3>2. /\ Append(deferred, saved) \in Seq(Episodes) /\ Sorted(Append(deferred, saved))
          /\ ToSet(Append(deferred, saved)) = ToSet(deferred) \cup {saved}
      BY <1>0, <2>1, <3>1, AppendList
    <3> QED BY <2>1, <3>1, <3>2
  <2>5. OrderInv'
    <3>1. Before(ready, deferred)'
      BY <2>1, <2>3, <2>4 DEF ListInv, OrderInv, Before
    <3>2. Counted(deferred)' /\ Counted(jobs)' /\ Counted(ready)' /\ Counted(todo)'
      BY <2>1, <2>2 DEF Counted
    <3> QED BY <2>1, <2>4, <3>1, <3>2 DEF ListInv, OrderInv, Before
  <2>6. PhaseInv'
    BY <2>1 DEF ListInv, PhaseInv, Recording
  <2>7. ListTypes'
    BY <1>0, <2>1, <2>4 DEF ListInv, ListTypes
  <2> QED BY <2>5, <2>6, <2>7 DEF ListInv
<1>3. CASE StartTranscode
  <2>1. /\ stage = "start" /\ jobs = << >> /\ tries = 0 /\ failed' = FALSE
        /\ UNCHANGED <<program, saved, ready, todo, pending, faults>>
        /\ \/ jobs' = deferred /\ deferred' = << >>
           \/ UNCHANGED <<jobs, deferred>> /\ stage' = "finish"
        /\ \/ stage' = "reset" /\ tries' = tries
           \/ stage' = "finish" /\ tries' = tries + 1
    BY <1>3 DEF StartTranscode, Waited, Finish, ListInv, PhaseInv, Recording
  <2>2. ListTypes'
    <3>1. /\ deferred' \in Seq(Episodes) /\ jobs' \in Seq(Episodes)
          /\ ready' \in Seq(Episodes) /\ todo' \in Seq(Episodes)
      BY <1>0, <2>1 DEF ListInv, ListTypes
    <3>2. tries' \in 0..MaxTries
      BY <1>0, <2>1 DEF ListInv, ListTypes
    <3> QED BY <2>1, <3>1, <3>2 DEF ListInv, ListTypes
  <2>3. PhaseInv'
    BY <2>1 DEF ListInv, PhaseInv, Recording
  <2>4. OrderInv'
    BY <2>1, EmptyList DEF ListInv, OrderInv, Before, Counted, Recording
  <2> QED BY <2>2, <2>3, <2>4 DEF ListInv
<1>4. CASE ResetEnds \/ Stop
  <2>1. /\ Recording /\ tries = 0 /\ failed' \in BOOLEAN
        /\ UNCHANGED <<program, saved, deferred, jobs, ready, todo, pending, faults>>
        /\ \/ stage' = "record" /\ tries' = tries /\ jobs = << >>
           \/ stage' = "finish" /\ tries' = tries + 1
    BY <1>4 DEF ResetEnds, Stop, Waited, Finish, ListInv, ListTypes, PhaseInv, Recording
  <2>2. OrderInv'
    BY <2>1, SameLists DEF ListInv
  <2>3. ListTypes' /\ PhaseInv'
    BY <1>0, <2>1 DEF ListInv, ListTypes, PhaseInv, Recording
  <2> QED BY <2>2, <2>3 DEF ListInv
<1>5. CASE Transcoded
  <2>1. /\ jobs # << >> /\ jobs' = << >> /\ ready' \in {ready, ready \o jobs}
        /\ failed' \in {failed, TRUE} /\ faults' \in {faults, faults \cup {"transcode"}}
        /\ UNCHANGED <<program, stage, saved, deferred, todo, pending, tries>>
    BY <1>5 DEF Transcoded, Fault
  <2>2. deferred = << >> /\ stage \notin {"record", "start", "join", "close", "closed", "gaveup"}
    BY <2>1 DEF ListInv, PhaseInv
  <2>3. /\ ready \o jobs \in Seq(Episodes) /\ Sorted(ready \o jobs)
        /\ ToSet(ready \o jobs) = ToSet(ready) \cup ToSet(jobs)
    BY <1>0, JoinLists DEF ListInv, ListTypes, OrderInv
  <2>4. ListTypes'
    BY <2>1, <2>3, EmptyList DEF ListInv, ListTypes
  <2>5. PhaseInv'
    BY <2>1, <2>2 DEF ListInv, PhaseInv, Recording
  <2>6. OrderInv'
    <3>1. Counted(ready \o jobs) /\ ToSet(deferred) = {} /\ ToSet(jobs') = {} /\ Sorted(jobs')
      BY <2>1, <2>2, <2>3, EmptyList DEF ListInv, OrderInv, Counted
    <3>2. Before(ready, jobs)' /\ Before(ready, deferred)'
      BY <2>1, <3>1 DEF Before
    <3>3. faults \subseteq faults' /\ Recording' = Recording
      BY <2>1 DEF Recording
    <3>4. Counted(deferred)' /\ Counted(jobs)' /\ Counted(ready)' /\ Counted(todo)'
      BY <2>1, <3>1, <3>3 DEF ListInv, OrderInv, Counted
    <3> QED BY <2>1, <2>3, <3>1, <3>2, <3>4 DEF ListInv, OrderInv
  <2> QED BY <2>4, <2>5, <2>6 DEF ListInv
<1>6. CASE TranscodeRest
  <2>1. /\ stage = "finish" /\ stage' = "wait" /\ deferred' = << >>
        /\ ready' \in {ready, ready \o deferred}
        /\ failed' \in {failed, TRUE} /\ faults' \in {faults, faults \cup {"transcode"}}
        /\ UNCHANGED <<program, saved, jobs, todo, pending, tries>>
        /\ ready' # ready => deferred # << >>
    <3>1. ready \o << >> = ready
      BY ConcatEmptySeq DEF ListInv, ListTypes
    <3> QED BY <1>6, <3>1 DEF TranscodeRest, Fault
  <2>2. /\ ready \o deferred \in Seq(Episodes) /\ Sorted(ready \o deferred)
        /\ ToSet(ready \o deferred) = ToSet(ready) \cup ToSet(deferred)
    <3>1. /\ ready \in Seq(Episodes) /\ Sorted(ready) /\ deferred \in Seq(Episodes)
          /\ Sorted(deferred) /\ Before(ready, deferred)
      BY DEF ListInv, ListTypes, OrderInv
    <3> QED BY <1>0, <3>1, JoinLists
  <2>3. ListTypes'
    BY <2>1, <2>2, EmptyList DEF ListInv, ListTypes
  <2>4. PhaseInv'
    BY <2>1 DEF ListInv, PhaseInv, Recording
  <2>5. OrderInv'
    <3>1. /\ Counted(ready \o deferred) /\ ToSet(deferred') = {} /\ Sorted(deferred')
          /\ ready' # ready => ToSet(jobs) = {}
      BY <2>1, <2>2, EmptyList DEF ListInv, PhaseInv, OrderInv, Counted
    <3>2. Before(ready, jobs)' /\ Before(ready, deferred)'
      BY <2>1, <3>1 DEF ListInv, OrderInv, Before
    <3>3. faults \subseteq faults' /\ ~Recording' /\ ~Recording
      BY <2>1 DEF Recording
    <3>4. Counted(deferred)' /\ Counted(jobs)' /\ Counted(ready)' /\ Counted(todo)'
      BY <2>1, <3>1, <3>3 DEF ListInv, OrderInv, Counted
    <3> QED BY <2>1, <2>2, <3>1, <3>2, <3>4 DEF ListInv, OrderInv
  <2> QED BY <2>3, <2>4, <2>5 DEF ListInv
<1>7. CASE WaitThread
  <2>1. /\ stage = "wait" /\ jobs = << >> /\ deferred = << >> /\ failed' = FALSE
        /\ UNCHANGED <<program, saved, deferred, jobs, pending, faults>>
        /\ \/ stage' = "join" /\ todo' = ready /\ ready' = << >> /\ tries' = tries
           \/ stage' = "finish" /\ tries < MaxTries /\ tries' = tries + 1 /\ UNCHANGED <<ready, todo>>
           \/ stage' = "gaveup" /\ tries' = tries /\ UNCHANGED <<ready, todo>>
    BY <1>7 DEF WaitThread, Again, Finish, ListInv, PhaseInv
  <2>2. ListTypes'
    <3>1. /\ deferred' \in Seq(Episodes) /\ jobs' \in Seq(Episodes)
          /\ ready' \in Seq(Episodes) /\ todo' \in Seq(Episodes)
      BY <1>0, <2>1 DEF ListInv, ListTypes
    <3>2. tries' \in 0..MaxTries
      BY <1>0, <2>1 DEF ListInv, ListTypes
    <3> QED BY <2>1, <3>1, <3>2 DEF ListInv, ListTypes
  <2>3. PhaseInv'
    BY <2>1 DEF ListInv, PhaseInv, Recording
  <2>4. OrderInv'
    <3>1. ~Recording /\ ~Recording'
      BY <2>1 DEF Recording
    <3> QED BY <2>1, <3>1, EmptyList DEF ListInv, OrderInv, Before, Counted
  <2> QED BY <2>2, <2>3, <2>4 DEF ListInv
<1>8. CASE JoinOne
  <2>1. /\ stage = "join" /\ todo # << >> /\ todo' = Tail(todo)
        /\ UNCHANGED <<program, stage, saved, deferred, jobs, failed, ready, tries, faults>>
    BY <1>8 DEF JoinOne
  <2>2. /\ Tail(todo) \in Seq(Episodes) /\ Sorted(Tail(todo))
        /\ ToSet(Tail(todo)) \subseteq ToSet(todo)
    BY <1>0, <2>1, TailList DEF ListInv, ListTypes, OrderInv
  <2>3. ListTypes' /\ PhaseInv'
    BY <2>1, <2>2 DEF ListInv, ListTypes, PhaseInv, Recording
  <2>4. OrderInv'
    <3>1. Recording' = Recording
      BY <2>1 DEF Recording
    <3> QED BY <2>1, <2>2, <3>1 DEF ListInv, OrderInv, Before, Counted
  <2> QED BY <2>3, <2>4 DEF ListInv
<1>9. CASE JoinFails
  <2>1. /\ stage = "join" /\ todo' = << >> /\ pending' = {} /\ faults' = faults \cup {"join"}
        /\ UNCHANGED <<program, saved, deferred, jobs, failed, ready>>
        /\ \/ stage' = "finish" /\ tries < MaxTries /\ tries' = tries + 1
           \/ stage' = "gaveup" /\ tries' = tries
    BY <1>9 DEF JoinFails, Again, Finish, Fault
  <2>2. ListTypes' /\ PhaseInv'
    BY <1>0, <2>1, EmptyList DEF ListInv, ListTypes, PhaseInv, Recording
  <2>3. OrderInv'
    <3>1. ~Recording /\ ~Recording'
      BY <2>1 DEF Recording
    <3> QED BY <2>1, <3>1, EmptyList DEF ListInv, OrderInv, Before, Counted
  <2> QED BY <2>2, <2>3 DEF ListInv
<1>10. CASE RewriteRows \/ NothingToRewrite \/ CloseWriters
  <2>1. /\ stage \in {"join", "close"} /\ todo = << >> /\ pending' = {}
        /\ UNCHANGED <<program, saved, deferred, jobs, failed, ready, todo, faults>>
        /\ \/ stage' = "finish" /\ tries < MaxTries /\ tries' = tries + 1
           \/ stage' \in {"gaveup", "close", "closed"} /\ tries' = tries
    BY <1>10 DEF RewriteRows, NothingToRewrite, CloseWriters, Again, Finish, ListInv, PhaseInv
  <2>2. ListTypes' /\ PhaseInv'
    BY <1>0, <2>1 DEF ListInv, ListTypes, PhaseInv, Recording
  <2>3. OrderInv'
    BY <2>1, SameLists DEF ListInv, Recording
  <2> QED BY <2>2, <2>3 DEF ListInv
<1>11. CASE UNCHANGED storeVars
  <2>1. ListTypes' /\ PhaseInv'
    BY <1>11 DEF storeVars, ListInv, ListTypes, PhaseInv, Recording
  <2>2. OrderInv'
    BY <1>11, SameLists DEF storeVars, ListInv, Recording
  <2> QED BY <2>1, <2>2 DEF ListInv
<1> QED BY <1>1, <1>2, <1>3, <1>4, <1>5, <1>6, <1>7, <1>8, <1>9, <1>10, <1>11 DEF StoreNext,
           Finalize

LEMMA ListsHold ==
    StoreSpec => []ListInv
<1>1. StoreInit => ListInv
  <2> SUFFICES ASSUME StoreInit
               PROVE  ListInv
    OBVIOUS
  <2>1. ListTypes
    <3>1. 0 \in 0..NumEpisodes /\ 0 \in 0..MaxTries
      BY StoreAssumption
    <3>2. << >> \in Seq(Episodes)
      BY EmptyList
    <3> QED BY <3>1, <3>2 DEF StoreInit, ListTypes
  <2>2. PhaseInv /\ OrderInv
    BY EmptyList DEF StoreInit, PhaseInv, OrderInv, Before, Counted, Recording
  <2> QED BY <2>1, <2>2 DEF ListInv
<1>2. ListInv /\ [StoreNext]_storeVars => ListInv'
  BY ListStep
<1> QED BY <1>1, <1>2, PTL DEF StoreSpec

-----------------------------------------------------------------------------
(* Joining begins when everything is ready, and no video is put further     *)
(* than its own number: the span the latest row remembers leaves room for   *)
(* every video still to be joined.                                          *)
RoomInv ==
    latest.span # NoSpan =>
      /\ ~Recording /\ deferred = << >> /\ jobs = << >> /\ ready = << >>
      /\ \A e \in ToSet(todo) : latest.span.file < e /\ latest.span.pos <= e

RowTypes ==
    /\ buffer \in Seq(EpisodeRows) /\ Len(buffer) < BufferSize
    /\ latest \in EpisodeRows \cup {NoRow}
    /\ buffer # << >> => latest = Last(buffer)
    /\ disk \subseteq EpisodeRows /\ pending \subseteq EpisodeRows
    /\ columns \in {"none", "plain", "video"}
    /\ video \in [Episodes -> Seq(Episodes)]

TableInv == RowTypes /\ RoomInv

LEMMA RowFacts ==
    /\ NoSpan \in Spans
    /\ \A e \in Episodes, s \in Spans : Row(e, s) \in EpisodeRows
    /\ \A r \in EpisodeRows : r \in [ep : Episodes, span : Spans]
    /\ NoRow \notin EpisodeRows
    /\ \A e, s : Row(e, s).ep = e /\ Row(e, s).span = s
    /\ \A r \in EpisodeRows : Row(r.ep, r.span) = r
BY StoreAssumption DEF NoSpan, Spans, EpisodeRows, Row, NoRow, Episodes

LEMMA LastFacts ==
    ASSUME NEW T, NEW s \in Seq(T), s # << >>
    PROVE  /\ Last(s) = s[Len(s)] /\ Last(s) \in T
           /\ Len(s) \in 1..Len(s) /\ DOMAIN s = 1..Len(s)
BY EmptySeq, LenProperties DEF Last

LEMMA WrittenType ==
    ASSUME NEW b \in Seq(EpisodeRows)
    PROVE  Written(b) \subseteq EpisodeRows
<1>1. ToSet(b) \subseteq EpisodeRows
  BY ListFacts
<1>2. \A r \in EpisodeRows : Row(r.ep, NoSpan) \in EpisodeRows
  BY RowFacts
<1> QED BY <1>1, <1>2 DEF Written

(* What one joined video may do to the metadata (_save_episode_video).      *)
LEMMA PlaceFacts ==
    ASSUME ListInv, TableInv, stage = "join", todo # << >>,
           NEW s \in Places(Head(todo))
    PROVE  /\ s \in Spans /\ s # NoSpan /\ Head(todo) \in Episodes
           /\ s.file <= Head(todo) /\ s.pos <= Head(todo) + 1
           /\ \/ /\ latest.span = NoSpan
                 /\ s.file = 0 /\ s.pos = 1
              \/ /\ latest.span # NoSpan /\ latest \in EpisodeRows /\ Head(todo) # 0
                 /\ \/ s.file = latest.span.file /\ s.pos = latest.span.pos + 1
                    \/ s.file = latest.span.file + 1 /\ s.pos = 1
<1> DEFINE e == Head(todo)
<1>1. e \in Episodes /\ e \in ToSet(todo) /\ Episodes \subseteq Int
  BY TailList, EpisodeInts DEF ListInv, ListTypes, OrderInv
<1>2. NumEpisodes \in Nat /\ e \in 0..NumEpisodes - 1 /\ 0 \in Episodes
  BY <1>1, StoreAssumption DEF Episodes
<1>3. CASE latest.span = NoSpan
  <2>1. s = [file |-> 0, pos |-> 1]
    BY <1>3 DEF Places
  <2> QED BY <1>1, <1>2, <1>3, <2>1 DEF Spans, NoSpan
<1>4. CASE latest.span # NoSpan
  <2>1. latest \in EpisodeRows /\ latest.span.file < e /\ latest.span.pos <= e
    BY <1>1, <1>4 DEF TableInv, RowTypes, RoomInv, NoRow, Row
  <2>2. /\ latest.span.file \in 0..NumEpisodes - 1 /\ latest.span.pos \in 0..NumEpisodes
    BY <2>1 DEF EpisodeRows, Spans, Episodes
  <2>3. e # 0
    BY <1>2, <2>1, <2>2
  <2>4. s \in {[file |-> latest.span.file, pos |-> latest.span.pos + 1],
               [file |-> latest.span.file + 1, pos |-> 1]}
    BY <1>4, <2>3 DEF Places
  <2>5. /\ s.file \in 0..NumEpisodes - 1 /\ s.pos \in 1..NumEpisodes
        /\ s.file <= e /\ s.pos <= e + 1
    BY <1>2, <2>1, <2>2, <2>4
  <2>6. s \in Spans /\ s # NoSpan
    BY <1>2, <2>4, <2>5 DEF Spans, NoSpan, Episodes
  <2> QED BY <1>1, <1>4, <2>1, <2>3, <2>4, <2>5, <2>6
<1> QED BY <1>3, <1>4

LEMMA JoinedType ==
    ASSUME video \in [Episodes -> Seq(Episodes)], NEW e \in Episodes, NEW s
    PROVE  Joined(e, s) \in [Episodes -> Seq(Episodes)]
<1>1. <<e>> \in Seq(Episodes) /\ \A f \in Episodes : Append(video[f], e) \in Seq(Episodes)
  OBVIOUS
<1> QED BY <1>1 DEF Joined

(* Note changes spans only, and of the latest row in the buffer as well.    *)
LEMMA NoteFacts ==
    ASSUME RowTypes, NEW e \in Episodes, NEW s \in Spans, Note(e, s)
    PROVE  /\ buffer' \in Seq(EpisodeRows) /\ Len(buffer') = Len(buffer)
           /\ DOMAIN buffer' = DOMAIN buffer
           /\ \A i \in DOMAIN buffer :
                buffer'[i] = IF buffer[i].ep = e \/ i = Len(buffer)
                             THEN Row(buffer[i].ep, s) ELSE buffer[i]
           /\ latest' \in EpisodeRows \cup {NoRow} /\ latest'.ep = latest.ep
           /\ latest' = IF latest = NoRow THEN latest ELSE Row(latest.ep, s)
           /\ buffer' # << >> => buffer # << >> /\ latest' = Last(buffer')
<1>1. /\ buffer \in Seq(EpisodeRows) /\ Len(buffer) \in Nat /\ DOMAIN buffer = 1..Len(buffer)
      /\ \A i \in 1..Len(buffer) : buffer[i] \in EpisodeRows
  BY LenProperties, ElementOfSeq DEF RowTypes
<1>2. buffer' = [i \in 1..Len(buffer) |-> IF buffer[i].ep = e \/ i = Len(buffer)
                                          THEN Row(buffer[i].ep, s) ELSE buffer[i]]
  BY <1>1 DEF Note
<1>3. \A i \in 1..Len(buffer) : buffer'[i] \in EpisodeRows
  BY <1>1, <1>2, RowFacts DEF EpisodeRows
<1>4. buffer' \in [1..Len(buffer) -> EpisodeRows]
  BY <1>2, <1>3
<1>5. buffer' \in Seq(EpisodeRows) /\ Len(buffer') = Len(buffer) /\ DOMAIN buffer' = 1..Len(buffer)
  BY <1>1, <1>4
<1>6. /\ latest' = IF latest = NoRow THEN latest ELSE Row(latest.ep, s)
      /\ latest' \in EpisodeRows \cup {NoRow} /\ latest'.ep = latest.ep
  BY RowFacts DEF Note, RowTypes, EpisodeRows
<1>7. ASSUME buffer' # << >>
      PROVE  buffer # << >> /\ latest' = Last(buffer')
  <2>1. Len(buffer) # 0
    BY <1>5, <1>7, EmptySeq
  <2>2. buffer # << >>
    BY <2>1, EmptySeq
  <2>3. latest = buffer[Len(buffer)] /\ latest \in EpisodeRows /\ Len(buffer) \in 1..Len(buffer)
    BY <1>1, <2>2, LastFacts DEF RowTypes
  <2>4. latest # NoRow
    BY <2>3, RowFacts
  <2>5. Last(buffer') = buffer'[Len(buffer)]
    BY <1>5, <1>7, LastFacts
  <2> QED BY <1>2, <1>6, <2>2, <2>3, <2>4, <2>5
<1> QED BY <1>1, <1>2, <1>5, <1>6, <1>7

LEMMA TableStep ==
    ASSUME ListInv, TableInv, [StoreNext]_storeVars
    PROVE  TableInv'
<1> USE DEF meta, mp4s, joining
<1>0. << >> \in Seq(EpisodeRows) /\ Len(<< >>) = 0 /\ BufferSize \in Nat \ {0}
  BY EmptySeq, StoreAssumption
<1>1. CASE SaveEpisode
  <2> DEFINE row == Row(saved, NoSpan)
  <2>1. /\ saved \in Episodes /\ UNCHANGED <<video, pending>>
        /\ \E roll \in BOOLEAN : BufferRow(roll)
    BY <1>1, EpisodeInts DEF SaveEpisode, ListInv, ListTypes, Episodes
  <2>2. row \in EpisodeRows /\ row.span = NoSpan
    BY <2>1, RowFacts
  <2>3. PICK roll \in BOOLEAN : BufferRow(roll)
    BY <2>1
  <2> DEFINE kept == IF roll THEN << >> ELSE buffer
             rows == Append(kept, row)
  <2>4. kept \in Seq(EpisodeRows)
    BY <1>0 DEF TableInv, RowTypes
  <2>5. rows \in Seq(EpisodeRows) /\ rows # << >> /\ Len(rows) \in Nat /\ Last(rows) = row
    <3> HIDE DEF kept, row
    <3>1. /\ rows \in Seq(EpisodeRows) /\ rows # << >> /\ Len(kept) \in Nat
          /\ Len(rows) = Len(kept) + 1 /\ rows[Len(kept) + 1] = row
      BY <2>2, <2>4, AppendProperties, LenProperties
    <3> HIDE DEF rows
    <3> QED BY <3>1, LastFacts
  <2>6. /\ latest' = Last(rows)
        /\ buffer' = IF Len(rows) >= BufferSize THEN << >> ELSE rows
        /\ disk' \subseteq disk \cup Written(buffer) \cup ToSet(rows)
        /\ columns' \in {"plain", "none", columns}
    BY <2>3 DEF BufferRow
  <2>7. Written(buffer) \cup ToSet(rows) \subseteq EpisodeRows
    BY <2>5, WrittenType, ListFacts DEF TableInv, RowTypes
  <2> HIDE DEF rows, row
  <2>8. RowTypes'
    <3>1. buffer' \in Seq(EpisodeRows) /\ Len(buffer') < BufferSize
      BY <1>0, <2>5, <2>6
    <3>2. latest' \in EpisodeRows /\ (buffer' # << >> => latest' = Last(buffer'))
      BY <2>2, <2>5, <2>6
    <3>3. disk' \subseteq EpisodeRows /\ columns' \in {"none", "plain", "video"}
      BY <2>6, <2>7 DEF TableInv, RowTypes
    <3> QED BY <2>1, <3>1, <3>2, <3>3 DEF TableInv, RowTypes
  <2>9. RoomInv'
    BY <2>2, <2>5, <2>6 DEF RoomInv
  <2> QED BY <2>8, <2>9 DEF TableInv
<1>2. CASE SaveFails \/ StartTranscode \/ ResetEnds \/ Stop
  <2>1. /\ Recording /\ UNCHANGED <<buffer, latest, disk, columns, pending, video>>
    BY <1>2 DEF SaveFails, StartTranscode, ResetEnds, Stop, Recording
  <2>2. latest.span = NoSpan
    BY <2>1 DEF TableInv, RoomInv
  <2> QED BY <2>1, <2>2 DEF TableInv, RowTypes, RoomInv
<1>3. CASE Transcoded
  <2>1. /\ jobs # << >> /\ UNCHANGED <<buffer, latest, disk, columns, pending, video>>
    BY <1>3 DEF Transcoded
  <2>2. latest.span = NoSpan
    BY <2>1 DEF TableInv, RoomInv
  <2> QED BY <2>1, <2>2 DEF TableInv, RowTypes, RoomInv
<1>4. CASE TranscodeRest
  <2>1. /\ stage = "finish" /\ stage' = "wait" /\ deferred' = << >>
        /\ ready' \in {ready, ready \o deferred}
        /\ UNCHANGED <<buffer, latest, disk, columns, pending, video, jobs, todo>>
    BY <1>4 DEF TranscodeRest
  <2>2. << >> \o << >> = << >>
    BY ConcatEmptySeq, <1>0
  <2>3. RoomInv'
    BY <2>1, <2>2 DEF TableInv, RoomInv, Recording
  <2> QED BY <2>1, <2>3 DEF TableInv, RowTypes
<1>5. CASE WaitThread
  <2>1. /\ stage = "wait" /\ stage' \in {"join", "finish", "gaveup"}
        /\ UNCHANGED <<buffer, latest, disk, columns, pending, video, jobs, deferred>>
        /\ \/ todo' = ready /\ ready' = << >>
           \/ UNCHANGED <<todo, ready>>
    BY <1>5 DEF WaitThread, Again, Finish
  <2>2. RoomInv'
    BY <2>1, EmptyList DEF TableInv, RoomInv, Recording
  <2> QED BY <2>1, <2>2 DEF TableInv, RowTypes
<1>6. CASE JoinOne
  <2> DEFINE e == Head(todo)
  <2>1. PICK s \in Places(e) :
          /\ stage = "join" /\ todo # << >> /\ todo' = Tail(todo)
          /\ video' = Joined(e, s) /\ Note(e, s)
          /\ pending' \subseteq pending \cup {Row(e, s)}
          /\ UNCHANGED <<stage, disk, columns, deferred, jobs, ready>>
    BY <1>6 DEF JoinOne
  <2>2. /\ e \in Episodes /\ s \in Spans /\ s # NoSpan
        /\ s.file <= e /\ s.pos <= e + 1
    BY <2>1, PlaceFacts
  <2>3. RowTypes'
    <3>1. /\ buffer' \in Seq(EpisodeRows) /\ Len(buffer') = Len(buffer)
          /\ latest' \in EpisodeRows \cup {NoRow}
          /\ buffer' # << >> => latest' = Last(buffer')
      BY <2>1, <2>2, NoteFacts DEF TableInv
    <3>2. video' \in [Episodes -> Seq(Episodes)] /\ Row(e, s) \in EpisodeRows
      BY <2>1, <2>2, JoinedType, RowFacts DEF TableInv, RowTypes
    <3> QED BY <2>1, <3>1, <3>2 DEF TableInv, RowTypes
  <2>4. RoomInv'
    <3>1. latest'.span # NoSpan => latest'.span = s
      <4>1. latest' = NoRow \/ latest' = Row(latest.ep, s)
        BY <2>1, <2>2, NoteFacts DEF TableInv
      <4> QED BY <4>1 DEF NoRow, Row
    <3>2. /\ ~Recording' /\ deferred' = << >> /\ jobs' = << >> /\ ready' = << >>
      BY <2>1 DEF ListInv, PhaseInv, Recording
    <3>3. ASSUME NEW x \in ToSet(todo')
          PROVE  s.file < x /\ s.pos <= x
      <4>1. e < x /\ x \in Int /\ e \in Int
        BY <2>1, <3>3, TailList, ListFacts, EpisodeInts DEF ListInv, ListTypes, OrderInv
      <4>2. s.file \in Int /\ s.pos \in Int
        BY <2>2 DEF Spans, Episodes
      <4> QED BY <2>2, <4>1, <4>2
    <3> QED BY <3>1, <3>2, <3>3 DEF RoomInv
  <2> QED BY <2>3, <2>4 DEF TableInv
<1>7. CASE JoinFails
  <2>1. /\ stage = "join" /\ stage' \in {"finish", "gaveup"} /\ todo # << >> /\ todo' = << >>
        /\ pending' = {}
        /\ video' = video \/ \E s \in Places(Head(todo)) : video' = Joined(Head(todo), s)
        /\ UNCHANGED <<buffer, latest, disk, columns, jobs, deferred, ready>>
    BY <1>7 DEF JoinFails, Again, Finish
  <2>2. Head(todo) \in Episodes
    BY <2>1, HeadTailProperties DEF ListInv, ListTypes
  <2>3. video' \in [Episodes -> Seq(Episodes)]
    BY <2>1, <2>2, JoinedType DEF TableInv, RowTypes
  <2>4. RoomInv'
    BY <2>1, EmptyList DEF TableInv, RoomInv, Recording
  <2> QED BY <2>1, <2>3, <2>4 DEF TableInv, RowTypes
<1>8. CASE RewriteRows
  <2>1. /\ stage = "join" /\ stage' \in {"finish", "gaveup", "close"}
        /\ todo = << >> /\ pending' = {}
        /\ UNCHANGED <<jobs, deferred, ready, todo, video>>
    BY <1>8 DEF RewriteRows, Again, Finish
  <2>2. CASE UNCHANGED <<buffer, latest, disk, columns>>
    BY <2>1, <2>2 DEF TableInv, RowTypes, RoomInv, Recording
  <2>3. CASE /\ disk' = {IF \E p \in pending : p.ep = r.ep
                         THEN CHOOSE p \in pending : p.ep = r.ep ELSE r :
                             r \in disk \cup Written(buffer)}
             /\ latest' = IF buffer = << >> THEN latest ELSE Last(buffer)
             /\ buffer' = << >> /\ columns' = "none"
    <3>1. disk \cup Written(buffer) \subseteq EpisodeRows /\ pending \subseteq EpisodeRows
      BY WrittenType DEF TableInv, RowTypes
    <3>2. disk' \subseteq EpisodeRows
      BY <2>3, <3>1
    <3>3. latest' = latest
      BY <2>3 DEF TableInv, RowTypes
    <3> QED BY <1>0, <2>1, <2>3, <3>2, <3>3 DEF TableInv, RowTypes, RoomInv, Recording
  <2> QED BY <1>8, <2>2, <2>3 DEF RewriteRows
<1>9. CASE NothingToRewrite
  <2>1. /\ stage = "join" /\ stage' = "close"
        /\ UNCHANGED <<buffer, latest, disk, columns, jobs, deferred, ready, todo, pending, video>>
    BY <1>9 DEF NothingToRewrite
  <2> QED BY <2>1 DEF TableInv, RowTypes, RoomInv, Recording
<1>10. CASE CloseWriters
  <2>1. /\ stage = "close" /\ stage' \in {"finish", "gaveup", "closed"}
        /\ UNCHANGED <<jobs, deferred, ready, todo, pending, video>>
    BY <1>10 DEF CloseWriters, Again, Finish
  <2>2. CASE UNCHANGED <<buffer, latest, disk, columns>>
    BY <2>1, <2>2 DEF TableInv, RowTypes, RoomInv, Recording
  <2>3. CASE Flush /\ columns' = "none"
    <3>1. Written(buffer) \subseteq EpisodeRows
      BY WrittenType DEF TableInv, RowTypes
    <3>2. latest' = latest /\ buffer' = << >> /\ disk' \subseteq EpisodeRows
      BY <2>3, <3>1 DEF Flush, TableInv, RowTypes
    <3> QED BY <1>0, <2>1, <2>3, <3>2 DEF TableInv, RowTypes, RoomInv, Recording
  <2> QED BY <1>10, <2>2, <2>3 DEF CloseWriters
<1>11. CASE UNCHANGED storeVars
  BY <1>11 DEF storeVars, TableInv, RowTypes, RoomInv, Recording
<1> QED BY <1>1, <1>2, <1>3, <1>4, <1>5, <1>6, <1>7, <1>8, <1>9, <1>10, <1>11 DEF StoreNext,
           Finalize

LEMMA TablesHold ==
    StoreSpec => []TableInv
<1>1. StoreInit => TableInv
  <2> SUFFICES ASSUME StoreInit
               PROVE  TableInv
    OBVIOUS
  <2>1. << >> \in Seq(EpisodeRows) /\ Len(<< >>) < BufferSize /\ << >> \in Seq(Episodes)
    BY EmptySeq, StoreAssumption
  <2>2. video \in [Episodes -> Seq(Episodes)]
    BY <2>1 DEF StoreInit
  <2> QED BY <2>1, <2>2 DEF StoreInit, TableInv, RowTypes, RoomInv, NoRow, Row
<1>2. ListInv /\ TableInv /\ [StoreNext]_storeVars => TableInv'
  BY TableStep
<1> QED BY <1>1, <1>2, ListsHold, PTL DEF StoreSpec

-----------------------------------------------------------------------------
(* The rows D of the files and b of the buffer: one for each of the first n *)
(* episodes.                                                                *)
Table(D, b, n) ==
    /\ \A r, s \in D : r.ep = s.ep => r = s
    /\ \A i, j \in DOMAIN b : b[i].ep = b[j].ep => i = j
    /\ \A r \in D, i \in DOMAIN b : r.ep # b[i].ep
    /\ \A e \in Episodes :
         e < n <=> (\E r \in D : r.ep = e) \/ (\E i \in DOMAIN b : b[i].ep = e)

(* The data file has the frames of the counted episodes in order, unless    *)
(* the last save failed.                                                    *)
RowInv ==
    /\ Table(disk, buffer, saved) /\ latest.ep = saved - 1
    /\ stage = "closed" => buffer = << >>
    /\ data \in Seq(Episodes)
    /\ data = [i \in 1..saved |-> i - 1] \/ (~Recording /\ "save" \in faults)

(* A row as an open writer takes it.                                        *)
Taken(r) == IF columns = "plain" THEN Row(r.ep, NoSpan) ELSE r

LEMMA WrittenFacts ==
    ASSUME NEW b
    PROVE  Written(b) = {Taken(b[i]) : i \in DOMAIN b}
BY DEF Written, ToSet, Taken

LEMMA TakenFacts == \A r : Taken(r).ep = r.ep
BY DEF Taken, Row

(* Rows moved from the buffer into a file, with their spans or without.     *)
LEMMA TableMove ==
    ASSUME NEW D, NEW b, NEW n, Table(D, b, n), NEW M,
           \A x \in M : \E i \in DOMAIN b : x = Taken(b[i]) \/ x = b[i],
           \A i \in DOMAIN b : \E x \in M : x.ep = b[i].ep,
           \A x, y \in M : x.ep = y.ep => x = y
    PROVE  Table(D \cup M, << >>, n)
<1>1. \A x \in M : \E i \in DOMAIN b : x.ep = b[i].ep
  BY TakenFacts
<1>2. ASSUME NEW r \in D \cup M, NEW s \in D \cup M, r.ep = s.ep
      PROVE  r = s
  <2>1. \A x \in D, y \in M : x.ep # y.ep
    BY <1>1 DEF Table
  <2> QED BY <1>2, <2>1 DEF Table
<1>3. DOMAIN << >> = {}
  OBVIOUS
<1>4. \A e : (\E r \in D \cup M : r.ep = e) <=> (\E r \in D : r.ep = e)
      \/ (\E i \in DOMAIN b : b[i].ep = e)
  BY <1>1
<1> QED BY <1>2, <1>3, <1>4 DEF Table

LEMMA TableWritten ==
    ASSUME NEW D, NEW b, NEW n, Table(D, b, n)
    PROVE  Table(D \cup Written(b), << >>, n)
<1>1. Written(b) = {Taken(b[i]) : i \in DOMAIN b}
  BY WrittenFacts
<1>2. \A i \in DOMAIN b : Taken(b[i]) \in Written(b) /\ Taken(b[i]).ep = b[i].ep
  BY <1>1, TakenFacts
<1>3. \A x, y \in Written(b) : x.ep = y.ep => x = y
  BY <1>1, <1>2 DEF Table
<1>4. \A x \in Written(b) : \E i \in DOMAIN b : x = Taken(b[i]) \/ x = b[i]
  BY <1>1
<1>5. \A i \in DOMAIN b : \E x \in Written(b) : x.ep = b[i].ep
  BY <1>2
<1> QED BY <1>3, <1>4, <1>5, TableMove

(* All rows of a full buffer are written as they are.                       *)
LEMMA TableFull ==
    ASSUME NEW D, NEW b, NEW n, Table(D, b, n)
    PROVE  Table(D \cup ToSet(b), << >>, n)
<1>1. ToSet(b) = {b[i] : i \in DOMAIN b}
  BY DEF ToSet
<1>2. \A x, y \in ToSet(b) : x.ep = y.ep => x = y
  BY <1>1 DEF Table
<1>3. \A x \in ToSet(b) : \E i \in DOMAIN b : x = Taken(b[i]) \/ x = b[i]
  BY <1>1
<1>4. \A i \in DOMAIN b : \E x \in ToSet(b) : x.ep = b[i].ep
  BY <1>1
<1> QED BY <1>2, <1>3, <1>4, TableMove

LEMMA TableAppend ==
    ASSUME NEW D \in SUBSET EpisodeRows, NEW b \in Seq(EpisodeRows), NEW n \in Episodes,
           Table(D, b, n),
           NEW row \in EpisodeRows, row.ep = n
    PROVE  Table(D, Append(b, row), n + 1)
<1> DEFINE t == Append(b, row)
           m == Len(b)
<1>1. /\ m \in Nat /\ DOMAIN b = 1..m /\ DOMAIN t = 1..m + 1
      /\ \A i \in 1..m : t[i] = b[i]
      /\ t[m + 1] = row
  BY AppendProperties, LenProperties
<1>2. /\ \A r \in D : r.ep # n
      /\ \A i \in 1..m : b[i].ep # n
  BY <1>1, EpisodeInts DEF Table
<1>3. \A i \in 1..m + 1 : i \in 1..m \/ i = m + 1
  BY <1>1
<1>4. 1..m \subseteq 1..m + 1 /\ m + 1 \in 1..m + 1
  BY <1>1
<1> HIDE DEF t, m
<1>5. ASSUME NEW i \in 1..m + 1, NEW j \in 1..m + 1, t[i].ep = t[j].ep
      PROVE  i = j
  <2>1. i \in 1..m /\ j \in 1..m => i = j
    BY <1>1, <1>5 DEF Table
  <2>2. i = m + 1 \/ j = m + 1 => i = j
    BY <1>1, <1>2, <1>3, <1>5
  <2> QED BY <1>3, <2>1, <2>2
<1>6. ASSUME NEW r \in D, NEW i \in 1..m + 1
      PROVE  r.ep # t[i].ep
  BY <1>1, <1>2, <1>3 DEF Table
<1>7. ASSUME NEW e \in Episodes
      PROVE  e < n + 1 <=> (\E r \in D : r.ep = e) \/ (\E i \in 1..m + 1 : t[i].ep = e)
  <2>1. e < n + 1 <=> e < n \/ e = n
    BY EpisodeInts
  <2>2. (\E i \in 1..m + 1 : t[i].ep = e) <=> (\E i \in 1..m : b[i].ep = e) \/ e = n
    BY <1>1, <1>3, <1>4, Zenon
  <2>3. e < n <=> (\E r \in D : r.ep = e) \/ (\E i \in 1..m : b[i].ep = e)
    BY <1>1 DEF Table
  <2> QED BY <2>1, <2>2, <2>3
<1> QED BY <1>1, <1>5, <1>6, <1>7 DEF Table, t

LEMMA RowStep ==
    ASSUME ListInv, TableInv, RowInv, [StoreNext]_storeVars
    PROVE  RowInv'
<1> USE DEF meta, mp4s, joining
<1>0. buffer \in Seq(EpisodeRows) /\ disk \in SUBSET EpisodeRows /\ saved \in Int
  BY EpisodeInts DEF TableInv, RowTypes, ListInv, ListTypes
<1>1. CASE SaveEpisode
  <2> DEFINE row == Row(saved, NoSpan)
  <2>1. PICK roll \in BOOLEAN :
          /\ BufferRow(roll) /\ saved \in Episodes /\ stage = "record"
          /\ data' = Append(data, saved) /\ saved' = saved + 1 /\ stage' # "closed"
    BY <1>1, EpisodeInts DEF SaveEpisode, ListInv, ListTypes, Episodes
  <2> DEFINE kept == IF roll THEN << >> ELSE buffer
             base == IF roll THEN disk \cup Written(buffer) ELSE disk
             rows == Append(kept, row)
  <2>2. /\ row \in EpisodeRows /\ row.ep = saved
        /\ << >> \in Seq(EpisodeRows) /\ Written(buffer) \subseteq EpisodeRows
    BY <1>0, <2>1, RowFacts, WrittenType, EmptySeq
  <2>3. kept \in Seq(EpisodeRows) /\ base \in SUBSET EpisodeRows /\ Table(base, kept, saved)
    BY <1>0, <2>2, TableWritten DEF RowInv
  <2>4. rows \in Seq(EpisodeRows) /\ Table(base, rows, saved + 1) /\ Last(rows) = row
    <3> HIDE DEF kept, base, row
    <3>1. Table(base, rows, saved + 1)
      BY <2>1, <2>2, <2>3, TableAppend
    <3>2. /\ rows \in Seq(EpisodeRows) /\ rows # << >> /\ Len(kept) \in Nat
          /\ Len(rows) = Len(kept) + 1 /\ rows[Len(kept) + 1] = row
      BY <2>2, <2>3, AppendProperties, LenProperties
    <3> HIDE DEF rows
    <3> QED BY <3>1, <3>2, LastFacts
  <2>5. Table(base \cup ToSet(rows), << >>, saved + 1)
    BY <2>4, TableFull
  <2>6. /\ disk' = base \cup (IF Len(rows) >= BufferSize THEN ToSet(rows) ELSE {})
        /\ buffer' = IF Len(rows) >= BufferSize THEN << >> ELSE rows
        /\ latest' = Last(rows)
    BY <2>1 DEF BufferRow
  <2> HIDE DEF row, kept, base, rows
  <2>7. Table(disk', buffer', saved') /\ latest'.ep = saved' - 1
    <3>1. Table(disk', buffer', saved')
      BY <2>1, <2>4, <2>5, <2>6
    <3>2. latest'.ep = saved' - 1
      BY <1>0, <2>1, <2>2, <2>4, <2>6
    <3> QED BY <3>1, <3>2
  <2>8. data' = [i \in 1..saved' |-> i - 1] /\ data' \in Seq(Episodes)
    <3>1. data = [i \in 1..saved |-> i - 1] /\ data \in Seq(Episodes) /\ saved \in Nat
      BY <1>0, <2>1 DEF RowInv, Recording, Episodes
    <3>2. Len(data) = saved
      BY <3>1
    <3>3. /\ data' \in Seq(Episodes) /\ Len(data') = saved + 1
          /\ \A i \in 1..saved : data'[i] = data[i]
          /\ data'[saved + 1] = saved
          /\ DOMAIN data' = 1..saved + 1
      BY <2>1, <3>1, <3>2, AppendProperties, LenProperties
    <3>4. \A i \in 1..saved + 1 : data'[i] = i - 1
      BY <3>1, <3>3
    <3>5. data' = [i \in DOMAIN data' |-> data'[i]]
      BY <3>3, LenProperties
    <3> QED BY <2>1, <3>3, <3>4, <3>5
  <2> QED BY <2>1, <2>7, <2>8 DEF RowInv
<1>2. CASE SaveFails
  <2>1. /\ data' = Append(data, saved) /\ saved \in Episodes /\ stage' = "finish"
        /\ "save" \in faults' /\ UNCHANGED <<disk, buffer, saved, latest>>
    BY <1>2, EpisodeInts DEF SaveFails, Finish, Fault, ListInv, ListTypes, Episodes
  <2>2. data' \in Seq(Episodes)
    BY <2>1, AppendProperties DEF RowInv
  <2> QED BY <2>1, <2>2 DEF RowInv, Recording
<1>3. CASE StartTranscode \/ ResetEnds \/ Stop \/ Transcoded \/ TranscodeRest \/ WaitThread
           \/ JoinFails \/ NothingToRewrite
  <2>1. /\ UNCHANGED <<disk, buffer, saved, latest, data>> /\ faults \subseteq faults'
        /\ stage' # "closed" \/ stage' = stage
        /\ Recording' => Recording
    BY <1>3 DEF StartTranscode, ResetEnds, Stop, Transcoded, TranscodeRest, WaitThread, JoinFails,
                NothingToRewrite, Waited, Finish, Again, Fault, Recording
  <2> QED BY <2>1 DEF RowInv
<1>4. CASE JoinOne
  <2>1. PICK s \in Places(Head(todo)) :
          /\ stage = "join" /\ todo # << >> /\ Note(Head(todo), s)
          /\ UNCHANGED <<stage, disk, saved, data, faults>>
    BY <1>4 DEF JoinOne
  <2>2. Head(todo) \in Episodes /\ s \in Spans
    BY <2>1, PlaceFacts
  <2>3. /\ DOMAIN buffer' = DOMAIN buffer /\ latest'.ep = latest.ep
        /\ \A i \in DOMAIN buffer : buffer'[i].ep = buffer[i].ep
    BY <2>1, <2>2, NoteFacts, RowFacts DEF TableInv
  <2>4. Table(disk, buffer, saved)'
    BY <2>1, <2>3 DEF RowInv, Table
  <2> QED BY <2>1, <2>3, <2>4 DEF RowInv, Recording
<1>5. CASE RewriteRows
  <2> DEFINE rows == disk \cup Written(buffer)
             New(r) == IF \E p \in pending : p.ep = r.ep
                       THEN CHOOSE p \in pending : p.ep = r.ep ELSE r
  <2>1. /\ UNCHANGED <<saved, data, faults>> /\ ~Recording /\ ~Recording' /\ stage' # "closed"
        /\ \/ UNCHANGED <<disk, buffer, latest>>
           \/ /\ disk' = {New(r) : r \in rows}
              /\ latest' = IF buffer = << >> THEN latest ELSE Last(buffer)
              /\ buffer' = << >>
    BY <1>5 DEF RewriteRows, Again, Finish, Recording
  <2>2. latest' = latest
    BY <2>1 DEF TableInv, RowTypes
  <2>3. Table(rows, << >>, saved)
    BY <1>0, TableWritten DEF RowInv
  <2>4. \A r : New(r).ep = r.ep
    OBVIOUS
  <2>5. Table({New(r) : r \in rows}, << >>, saved)
    <3> HIDE DEF rows, New
    <3>1. \A x, y \in {New(r) : r \in rows} : x.ep = y.ep => x = y
      BY <2>3, <2>4 DEF Table
    <3>2. \A e : (\E x \in {New(r) : r \in rows} : x.ep = e) <=> (\E r \in rows : r.ep = e)
      BY <2>4
    <3>3. \A e \in Episodes :
            e < saved <=> (\E r \in rows : r.ep = e) \/ (\E i \in DOMAIN << >> : << >>[i].ep = e)
      BY <2>3, Zenon DEF Table
    <3>4. \A e \in Episodes :
            e < saved <=> (\E x \in {New(r) : r \in rows} : x.ep = e)
                          \/ (\E i \in DOMAIN << >> : << >>[i].ep = e)
      BY <3>2, <3>3, Zenon
    <3>5. \A i, j \in DOMAIN << >> : i = j
      OBVIOUS
    <3>6. \A r \in {New(r) : r \in rows}, i \in DOMAIN << >> : r.ep # << >>[i].ep
      OBVIOUS
    <3> QED BY <3>1, <3>4, <3>5, <3>6, Zenon DEF Table
  <2> QED BY <2>1, <2>2, <2>5 DEF RowInv
<1>6. CASE CloseWriters
  <2>1. /\ UNCHANGED <<saved, data, faults>> /\ ~Recording /\ ~Recording'
        /\ \/ UNCHANGED <<disk, buffer, latest>> /\ stage' # "closed"
           \/ Flush
    BY <1>6 DEF CloseWriters, Again, Finish, Recording
  <2>2. CASE Flush
    <3>1. disk' = disk \cup Written(buffer) /\ buffer' = << >> /\ latest' = latest
      BY <2>2 DEF Flush, TableInv, RowTypes
    <3>2. Table(disk', buffer', saved')
      BY <1>0, <2>1, <3>1, TableWritten DEF RowInv
    <3> QED BY <2>1, <3>1, <3>2 DEF RowInv
  <2> QED BY <2>1, <2>2 DEF RowInv
<1>7. CASE UNCHANGED storeVars
  BY <1>7 DEF storeVars, RowInv, Recording
<1> QED BY <1>1, <1>2, <1>3, <1>4, <1>5, <1>6, <1>7 DEF StoreNext, Finalize

LEMMA RowsHold ==
    StoreSpec => []RowInv
<1>1. StoreInit => RowInv
  <2> SUFFICES ASSUME StoreInit
               PROVE  RowInv
    OBVIOUS
  <2>1. /\ Table(disk, buffer, saved)
    BY EpisodeInts DEF StoreInit, Table, Episodes
  <2>2. data = [i \in 1..saved |-> i - 1] /\ data \in Seq(Episodes)
    BY EmptyList DEF StoreInit
  <2> QED BY <2>1, <2>2 DEF StoreInit, RowInv, NoRow, Row
<1>2. ListInv /\ TableInv /\ RowInv /\ [StoreNext]_storeVars => RowInv'
  BY RowStep
<1> QED BY <1>1, <1>2, ListsHold, TablesHold, PTL DEF StoreSpec

LEMMA OneElement ==
    ASSUME NEW x, NEW S, S = {x}
    PROVE  Cardinality(S) = 1
BY FS_Singleton

(* Every variable of the store keeps its type, and no finalize puts a video *)
(* further than the episodes reach (dataset_writer.py, lerobot_record.py).  *)
THEOREM StoreTypeCorrect == StoreSpec => []StoreTypeOK
<1>1. ListInv /\ TableInv /\ RowInv => StoreTypeOK
  BY DEF ListInv, ListTypes, OrderInv, Sorted, TableInv, RowTypes, RowInv, StoreTypeOK
<1> QED BY <1>1, ListsHold, TablesHold, RowsHold, PTL

(* Whatever failed before, files that finalize has closed agree with        *)
(* info.json (LeRobotDatasetMetadata.save_episode, DatasetWriter.finalize). *)
THEOREM ClosedHolds == StoreSpec => []ClosedIsConsistent
<1>1. ListInv /\ TableInv /\ RowInv => ClosedIsConsistent
  <2> SUFFICES ASSUME ListInv, TableInv, RowInv, stage = "closed"
               PROVE  /\ OneRowEach /\ \A r \in disk : r.ep < saved
                      /\ data = [i \in 1..saved |-> i - 1] \/ "save" \in faults
    BY DEF ClosedIsConsistent
  <2>1. disk \subseteq EpisodeRows /\ saved \in 0..NumEpisodes /\ NumEpisodes \in Nat
        /\ Table(disk, << >>, saved)
    BY EpisodeInts DEF TableInv, RowTypes, RowInv, ListInv, ListTypes
  <2>2. \A e \in Episodes : e < saved <=> \E r \in disk : r.ep = e
    BY <2>1 DEF Table
  <2>3. \A r \in disk : r.ep < saved
    BY <2>1, <2>2 DEF EpisodeRows
  <2>4. ASSUME NEW e \in 0..saved - 1
        PROVE  Cardinality({r \in disk : r.ep = e}) = 1
    <3>1. e \in Episodes /\ e < saved
      BY <2>1 DEF Episodes
    <3>2. PICK r \in disk : r.ep = e
      BY <2>2, <3>1
    <3>3. {x \in disk : x.ep = e} = {r}
      BY <2>1, <3>2 DEF Table
    <3> QED BY <3>3, OneElement
  <2> QED BY <2>3, <2>4 DEF OneRowEach, RowInv
<1> QED BY <1>1, ListsHold, TablesHold, RowsHold, PTL

-----------------------------------------------------------------------------
(* Spans other than that of the latest row lie in no later file than that   *)
(* one and are their own; so are those kept for rows already in a file; and *)
(* the latest span is the end of its file as long as there is one to join.  *)
Known(r) ==
    latest.span # NoSpan /\ InPlace(r) /\ r.span.file <= latest.span.file

SpanInv ==
    /\ \A r \in disk \cup ToSet(buffer) :
         r.span # NoSpan => latest.span # NoSpan /\ (r.ep # latest.ep => Known(r))
    /\ latest # NoRow => \A p \in pending : Known(p)
    /\ latest.span # NoSpan /\ todo # << >> =>
         Len(video[latest.span.file]) = latest.span.pos

(* The video that is joined is at its place, at the end of its file.        *)
LEMMA JoinedInPlace ==
    ASSUME ListInv, TableInv, SpanInv, stage = "join", todo # << >>,
           NEW e, e = Head(todo), NEW s \in Places(e), video' = Joined(e, s)
    PROVE  /\ InPlace(Row(e, s))'
           /\ Len(video'[s.file]) = s.pos
<1>1. /\ s \in Spans /\ s # NoSpan /\ e \in Episodes
      /\ \/ latest.span = NoSpan /\ s.pos = 1
         \/ /\ latest.span # NoSpan /\ latest \in EpisodeRows /\ e # 0
            /\ \/ s.file = latest.span.file /\ s.pos = latest.span.pos + 1
               \/ s.file = latest.span.file + 1 /\ s.pos = 1
  BY PlaceFacts
<1>2. /\ s.file \in Episodes /\ s.pos \in Nat
      /\ video \in [Episodes -> Seq(Episodes)]
      /\ Episodes \subseteq Int
  BY <1>1, EpisodeInts DEF Spans, TableInv, RowTypes
<1>3. Row(e, s).ep = e /\ Row(e, s).span = s
  BY DEF Row
<1>4. CASE s.pos = 1 /\ video' = [video EXCEPT ![s.file] = <<e>>]
  <2>1. video'[s.file] = <<e>>
    BY <1>2, <1>4
  <2>2. Len(<<e>>) = 1 /\ <<e>>[1] = e /\ 1 \in DOMAIN <<e>>
    OBVIOUS
  <2> QED BY <1>1, <1>3, <1>4, <2>1, <2>2 DEF InPlace
<1>5. CASE /\ s.file = latest.span.file /\ s.pos = latest.span.pos + 1 /\ latest.span # NoSpan
           /\ video' = [video EXCEPT ![s.file] = Append(@, e)]
  <2>1. video'[s.file] = Append(video[s.file], e) /\ video[s.file] \in Seq(Episodes)
    BY <1>2, <1>5
  <2>2. Len(video[s.file]) = s.pos - 1 /\ Len(video[s.file]) \in Nat
    <3>1. Len(video[s.file]) = latest.span.pos
      BY <1>5 DEF SpanInv
    <3> QED BY <1>2, <1>5, <2>1, <3>1, LenProperties
  <2>3. /\ Len(video'[s.file]) = s.pos /\ video'[s.file][s.pos] = e
        /\ s.pos \in DOMAIN video'[s.file]
    <3>1. /\ Len(Append(video[s.file], e)) = Len(video[s.file]) + 1
          /\ Append(video[s.file], e)[Len(video[s.file]) + 1] = e
          /\ DOMAIN Append(video[s.file], e) = 1..Len(video[s.file]) + 1
      BY <1>1, <2>1, AppendProperties, LenProperties
    <3>2. Len(video[s.file]) + 1 = s.pos
      BY <1>2, <2>2
    <3> QED BY <1>2, <2>1, <2>2, <3>1, <3>2
  <2> QED BY <1>1, <1>3, <2>3 DEF InPlace
<1>6. \/ s.pos = 1 /\ video' = [video EXCEPT ![s.file] = <<e>>]
      \/ /\ s.file = latest.span.file /\ s.pos = latest.span.pos + 1 /\ latest.span # NoSpan
         /\ video' = [video EXCEPT ![s.file] = Append(@, e)]
  <2>1. CASE latest.span = NoSpan
    BY <1>1, <2>1 DEF Joined
  <2>2. CASE latest.span # NoSpan /\ s.file = latest.span.file
    <3>1. latest.span.file \in Int
      BY <1>1, <2>2 DEF EpisodeRows, Spans, Episodes
    <3>2. s.pos = latest.span.pos + 1
      BY <1>1, <2>2, <3>1
    <3> QED BY <1>1, <2>2, <3>2 DEF Joined
  <2>3. CASE latest.span # NoSpan /\ s.file # latest.span.file
    BY <1>1, <2>3 DEF Joined
  <2> QED BY <2>1, <2>2, <2>3
<1> QED BY <1>4, <1>5, <1>6

(* Joining moves no video that is in place, up to the latest span's file.   *)
LEMMA JoinKeepsKnown ==
    ASSUME ListInv, TableInv, stage = "join", todo # << >>,
           NEW s \in Places(Head(todo)), video' = Joined(Head(todo), s),
           NEW r \in EpisodeRows, Known(r)
    PROVE  InPlace(r)' /\ r.span.file <= latest.span.file /\ r.span.file <= s.file
<1> DEFINE e == Head(todo)
<1>1. /\ s \in Spans /\ s # NoSpan /\ e \in Episodes
      /\ latest.span # NoSpan /\ latest \in EpisodeRows /\ e # 0
      /\ s.file = latest.span.file \/ s.file = latest.span.file + 1
  BY PlaceFacts DEF Known
<1>2. /\ s.file \in Int /\ latest.span.file \in Int /\ r.span.file \in Int
      /\ s.file \in Episodes /\ r.span.file \in Episodes
      /\ video \in [Episodes -> Seq(Episodes)]
      /\ r.span.file <= latest.span.file
  BY <1>1, EpisodeInts DEF Spans, EpisodeRows, Known, TableInv, RowTypes
<1> HIDE DEF e
<1>3. CASE s.file # r.span.file
  <2>1. video'[r.span.file] = video[r.span.file]
    BY <1>2, <1>3 DEF Joined, e
  <2>2. InPlace(r)'
    BY <2>1 DEF Known, InPlace
  <2>3. r.span.file <= s.file
    BY <1>1, <1>2
  <2> QED BY <1>2, <2>2, <2>3
<1>4. CASE s.file = r.span.file
  <2>1. s.file = latest.span.file
    BY <1>1, <1>2, <1>4
  <2>2. video' = [video EXCEPT ![s.file] = Append(@, e)]
    BY <1>1, <2>1 DEF Joined, e
  <2>3. video'[r.span.file] = Append(video[r.span.file], e) /\ video[r.span.file] \in Seq(Episodes)
    BY <1>2, <1>4, <2>2
  <2>4. r.span # NoSpan /\ r.span.pos \in DOMAIN video[r.span.file]
        /\ video[r.span.file][r.span.pos] = r.ep
    BY DEF Known, InPlace
  <2>5. r.span.pos \in DOMAIN video'[r.span.file] /\ video'[r.span.file][r.span.pos] = r.ep
    BY <1>1, <2>3, <2>4, AppendProperties, LenProperties DEF e
  <2> QED BY <1>2, <2>1, <2>4, <2>5 DEF InPlace
<1> QED BY <1>3, <1>4

(* No row when no episode is counted.                                       *)
LEMMA TableOfNone ==
    ASSUME NEW D \in SUBSET EpisodeRows, NEW b \in Seq(EpisodeRows), Table(D, b, 0)
    PROVE  D \cup ToSet(b) = {}
<1>1. \A e \in Episodes : ~(e < 0)
  BY StoreAssumption DEF Episodes
<1>2. \A r \in EpisodeRows : r.ep \in Episodes
  BY DEF EpisodeRows
<1>3. ToSet(b) \subseteq EpisodeRows /\ ToSet(b) = {b[i] : i \in DOMAIN b}
  BY ListFacts DEF ToSet
<1> QED BY <1>1, <1>2, <1>3 DEF Table

LEMMA SpanStep ==
    ASSUME ListInv, TableInv, RowInv, SpanInv, [StoreNext]_storeVars
    PROVE  SpanInv'
<1> USE DEF meta, mp4s, joining
<1> DEFINE Own(r) == r.span # NoSpan => latest.span # NoSpan /\ (r.ep # latest.ep => Known(r))
<1>0. /\ buffer \in Seq(EpisodeRows) /\ disk \subseteq EpisodeRows /\ pending \subseteq EpisodeRows
      /\ ToSet(buffer) \subseteq EpisodeRows
      /\ \A r \in disk \cup ToSet(buffer) : Own(r)
      /\ stage # "join" => todo = << >> /\ pending = {}
      /\ NoRow.span = NoSpan
  BY ListFacts DEF TableInv, RowTypes, SpanInv, ListInv, PhaseInv, NoRow, Row
<1>00. \A x \in Written(buffer) : x.span = NoSpan \/ x \in ToSet(buffer)
  BY DEF Written, Row
<1>1. CASE SaveEpisode
  <2>1. PICK roll \in BOOLEAN : BufferRow(roll) /\ stage = "record" /\ pending' = pending
    BY <1>1 DEF SaveEpisode
  <2>2. \A r \in disk \cup ToSet(buffer) : r.span = NoSpan
    BY <1>0, <2>1 DEF TableInv, RoomInv, Recording
  <2> DEFINE kept == IF roll THEN << >> ELSE buffer
             row  == Row(saved, NoSpan)
             rows == Append(kept, row)
  <2>3. saved \in Episodes
    BY <1>1, EpisodeInts DEF SaveEpisode, ListInv, ListTypes, Episodes
  <2>4. /\ row \in EpisodeRows /\ row.span = NoSpan /\ << >> \in Seq(EpisodeRows)
    BY <2>3, RowFacts, EmptySeq
  <2>5. /\ kept \in Seq(EpisodeRows) /\ rows \in Seq(EpisodeRows) /\ rows # << >>
        /\ Len(rows) = Len(kept) + 1 /\ Len(kept) \in Nat /\ rows[Len(kept) + 1] = row
        /\ DOMAIN rows = 1..Len(kept) + 1 /\ DOMAIN kept = 1..Len(kept)
        /\ \A i \in 1..Len(kept) : rows[i] = kept[i]
    <3>1. kept \in Seq(EpisodeRows)
      BY <1>0, <2>4
    <3> HIDE DEF kept, row
    <3>2. /\ rows \in Seq(EpisodeRows) /\ rows # << >> /\ Len(kept) \in Nat
          /\ Len(rows) = Len(kept) + 1 /\ rows[Len(kept) + 1] = row
          /\ \A i \in 1..Len(kept) : rows[i] = kept[i]
      BY <2>4, <3>1, AppendProperties, LenProperties
    <3>3. DOMAIN rows = 1..Len(rows) /\ DOMAIN kept = 1..Len(kept)
      BY <3>1, <3>2, LenProperties
    <3> QED BY <3>1, <3>2, <3>3
  <2>6. \A x \in ToSet(kept) : x \in ToSet(buffer)
    BY EmptyList
  <2>7. \A x \in ToSet(rows) : x.span = NoSpan
    <3> HIDE DEF rows, kept, row
    <3>1. ASSUME NEW i \in 1..Len(kept) + 1
          PROVE  rows[i].span = NoSpan
      <4>1. CASE i \in 1..Len(kept)
        <5>1. rows[i] \in ToSet(kept)
          BY <2>5, <4>1 DEF ToSet
        <5> QED BY <2>2, <2>6, <5>1
      <4>2. CASE i = Len(kept) + 1
        BY <2>4, <2>5, <4>2
      <4> QED BY <2>5, <4>1, <4>2
    <3> QED BY <2>5, <3>1 DEF ToSet
  <2>8. Last(rows) = row
    <3> HIDE DEF rows, kept, row
    <3> QED BY <2>5, LastFacts
  <2>9. /\ disk' \subseteq disk \cup Written(buffer) \cup ToSet(rows)
        /\ buffer' = << >> \/ buffer' = rows
        /\ latest' = Last(rows)
    BY <2>1 DEF BufferRow
  <2> HIDE DEF rows, kept, row
  <2>10. \A r \in disk' \cup ToSet(buffer') : r.span = NoSpan
    BY <1>00, <2>2, <2>7, <2>9, EmptyList
  <2>11. latest'.span = NoSpan /\ pending' = {}
    BY <1>0, <2>1, <2>4, <2>8, <2>9
  <2> QED BY <2>10, <2>11 DEF SpanInv
<1>2. CASE SaveFails \/ StartTranscode \/ ResetEnds \/ Stop \/ Transcoded \/ TranscodeRest
           \/ NothingToRewrite
  <2>1. /\ UNCHANGED <<disk, buffer, latest, video, pending, todo>>
    BY <1>2 DEF SaveFails, StartTranscode, ResetEnds, Stop, Transcoded, TranscodeRest,
                NothingToRewrite
  <2> QED BY <2>1 DEF SpanInv, Known, InPlace
<1>3. CASE WaitThread
  <2>1. /\ UNCHANGED <<disk, buffer, latest, video, pending>>
        /\ todo' = todo \/ todo' = ready
        /\ stage = "wait"
    BY <1>3 DEF WaitThread
  <2>2. latest.span # NoSpan => todo' = << >>
    BY <1>0, <2>1 DEF TableInv, RoomInv
  <2> QED BY <2>1, <2>2 DEF SpanInv, Known, InPlace
<1>4. CASE JoinOne
  <2>0. PICK e : e = Head(todo)
    OBVIOUS
  <2>1. PICK s \in Places(e) :
          /\ stage = "join" /\ todo # << >> /\ todo' = Tail(todo)
          /\ video' = Joined(e, s) /\ Note(e, s)
          /\ pending' \subseteq pending \cup {Row(e, s)}
          /\ UNCHANGED disk
    BY <1>4, <2>0 DEF JoinOne
  <2>2. e \in Episodes /\ s \in Spans /\ s # NoSpan
    BY <2>0, <2>1, PlaceFacts
  <2>3. InPlace(Row(e, s))' /\ Len(video'[s.file]) = s.pos
    BY <2>0, <2>1, JoinedInPlace
  <2>4. /\ DOMAIN buffer' = DOMAIN buffer
        /\ \A i \in DOMAIN buffer :
             buffer'[i] = IF buffer[i].ep = e \/ i = Len(buffer)
                          THEN Row(buffer[i].ep, s) ELSE buffer[i]
        /\ latest'.ep = latest.ep
        /\ latest' = IF latest = NoRow THEN latest ELSE Row(latest.ep, s)
    BY <2>1, <2>2, NoteFacts DEF TableInv
  <2>5. ASSUME latest # NoRow
        PROVE  /\ latest'.span = s /\ latest'.span # NoSpan
               /\ Known(Row(e, s))'
               /\ \A r \in EpisodeRows : Known(r) => Known(r)'
    <3>1. latest'.span = s
      BY <2>4, <2>5 DEF Row
    <3>2. s.file <= s.file
      <4>1. s.file \in Episodes
        BY <2>2 DEF Spans
      <4>2. s.file \in Int
        BY <4>1, EpisodeInts
      <4>3. \A i \in Int : i <= i
        OBVIOUS
      <4> QED BY <4>2, <4>3, Zenon
    <3>3. Known(Row(e, s))'
      BY <2>2, <2>3, <3>1, <3>2 DEF Known, Row
    <3>4. ASSUME NEW r \in EpisodeRows, Known(r)
          PROVE  Known(r)'
      <4>1. InPlace(r)' /\ r.span.file <= s.file
        BY <2>0, <2>1, <3>4, JoinKeepsKnown
      <4> QED BY <2>2, <3>1, <4>1 DEF Known
    <3> QED BY <2>2, <3>1, <3>3, <3>4
  <2>6. ASSUME NEW r \in disk
        PROVE  Own(r)'
    <3>1. r.span # NoSpan => latest # NoRow
      BY <1>0
    <3> QED BY <1>0, <2>1, <2>4, <2>5, <3>1
  <2>7. ASSUME NEW i \in DOMAIN buffer, NEW r, r = buffer'[i]
        PROVE  Own(r)'
    <3>1. buffer # << >>
      BY <2>7
    <3>2. latest = buffer[Len(buffer)] /\ latest \in EpisodeRows /\ buffer[i] \in ToSet(buffer)
      BY <1>0, <2>7, <3>1, LastFacts DEF TableInv, RowTypes, ToSet
    <3>3. latest # NoRow
      BY <3>2, RowFacts
    <3>4. \A x : Row(x, s).ep = x /\ Row(x, s).span = s
      BY DEF Row
    <3>5. CASE i = Len(buffer)
      BY <2>4, <2>5, <2>7, <3>2, <3>3, <3>4, <3>5
    <3>6. CASE i # Len(buffer) /\ buffer[i].ep = e
      BY <2>4, <2>5, <2>7, <3>3, <3>4, <3>6
    <3>7. CASE i # Len(buffer) /\ buffer[i].ep # e
      BY <1>0, <2>4, <2>5, <2>7, <3>2, <3>3, <3>7
    <3> QED BY <3>5, <3>6, <3>7
  <2>8. \A r \in disk' \cup ToSet(buffer') : Own(r)'
    <3>1. \A r \in ToSet(buffer') : \E i \in DOMAIN buffer : r = buffer'[i]
      BY <2>4 DEF ToSet
    <3> QED BY <2>1, <2>6, <2>7, <3>1
  <2>9. latest' # NoRow => \A p \in pending' : Known(p)'
    <3>1. latest' # NoRow => latest # NoRow
      BY <2>4
    <3> QED BY <1>0, <2>1, <2>5, <3>1 DEF SpanInv
  <2>10. latest'.span # NoSpan => Len(video'[latest'.span.file]) = latest'.span.pos
    <3>1. latest'.span # NoSpan => latest # NoRow
      BY <1>0, <2>4
    <3> QED BY <2>3, <2>5, <3>1
  <2> QED BY <2>8, <2>9, <2>10 DEF SpanInv
<1>5. CASE JoinFails
  <2>1. /\ stage = "join" /\ todo # << >> /\ todo' = << >> /\ pending' = {}
        /\ video' = video \/ \E s \in Places(Head(todo)) : video' = Joined(Head(todo), s)
        /\ UNCHANGED <<disk, buffer, latest>>
    BY <1>5 DEF JoinFails
  <2>2. ASSUME NEW r \in EpisodeRows, Known(r)
        PROVE  Known(r)'
    <3>1. CASE video' = video
      BY <2>1, <2>2, <3>1 DEF Known, InPlace
    <3>2. CASE video' # video
      <4>1. PICK s \in Places(Head(todo)) : video' = Joined(Head(todo), s)
        BY <2>1, <3>2
      <4>2. InPlace(r)' /\ r.span.file <= latest.span.file
        BY <2>1, <2>2, <4>1, JoinKeepsKnown
      <4> QED BY <2>1, <2>2, <4>2 DEF Known
    <3> QED BY <3>1, <3>2
  <2> QED BY <1>0, <2>1, <2>2 DEF SpanInv
<1>6. CASE RewriteRows
  <2> DEFINE New(r) == IF \E p \in pending : p.ep = r.ep
                       THEN CHOOSE p \in pending : p.ep = r.ep ELSE r
  <2>1. /\ todo = << >> /\ pending' = {} /\ UNCHANGED <<todo, video>>
        /\ \/ UNCHANGED <<disk, buffer, latest>>
           \/ /\ disk' = {New(r) : r \in disk \cup Written(buffer)}
              /\ latest' = IF buffer = << >> THEN latest ELSE Last(buffer)
              /\ buffer' = << >>
    BY <1>6 DEF RewriteRows
  <2>2. latest' = latest
    BY <2>1 DEF TableInv, RowTypes
  <2>3. \A r : Known(r) = Known(r)'
    BY <2>1, <2>2 DEF Known, InPlace
  <2>4. CASE UNCHANGED <<disk, buffer, latest>>
    BY <1>0, <2>1, <2>3, <2>4 DEF SpanInv
  <2>5. CASE disk' = {New(r) : r \in disk \cup Written(buffer)} /\ buffer' = << >>
    <3>1. ASSUME NEW r \in disk \cup Written(buffer)
          PROVE  Own(New(r))
      <4>1. CASE \E p \in pending : p.ep = r.ep
        <5>1. New(r) \in pending
          BY <4>1
        <5>2. latest # NoRow
          <6>1. \E x \in disk \cup ToSet(buffer) : x.ep = r.ep /\ x \in EpisodeRows
            <7>1. CASE r \in disk
              BY <1>0, <7>1
            <7>2. CASE r \in Written(buffer)
              <8>1. PICK x \in ToSet(buffer) : r = Row(x.ep, NoSpan) \/ r = x
                BY <7>2 DEF Written
              <8> QED BY <1>0, <8>1 DEF Row
            <7> QED BY <7>1, <7>2
          <6>3. disk \in SUBSET EpisodeRows
            BY <1>0
          <6>2. saved # 0
            BY <1>0, <6>1, <6>3, TableOfNone DEF RowInv
          <6> QED BY <6>2 DEF RowInv, NoRow, Row, ListInv, ListTypes
        <5> QED BY <5>1, <5>2 DEF SpanInv, Known
      <4>2. CASE ~\E p \in pending : p.ep = r.ep
        BY <1>0, <1>00, <4>2
      <4> QED BY <4>1, <4>2
    <3> HIDE DEF New
    <3>2. \A r \in disk' : Own(r)
      BY <2>5, <3>1
    <3> QED BY <2>1, <2>2, <2>3, <2>5, <3>2, EmptyList DEF SpanInv
  <2> QED BY <2>1, <2>4, <2>5
<1>7. CASE CloseWriters
  <2>1. /\ UNCHANGED <<todo, video, pending>>
        /\ UNCHANGED <<disk, buffer, latest>> \/ Flush
    BY <1>7 DEF CloseWriters
  <2>2. CASE UNCHANGED <<disk, buffer, latest>>
    BY <2>1, <2>2 DEF SpanInv, Known, InPlace
  <2>3. CASE Flush
    <3>1. disk' = disk \cup Written(buffer) /\ buffer' = << >> /\ latest' = latest
      BY <2>3 DEF Flush, TableInv, RowTypes
    <3>2. \A r \in disk' : Own(r)
      BY <1>0, <1>00, <3>1
    <3>3. \A r : Known(r) = Known(r)'
      BY <2>1, <3>1 DEF Known, InPlace
    <3> QED BY <2>1, <3>1, <3>2, <3>3, EmptyList DEF SpanInv
  <2> QED BY <2>1, <2>2, <2>3
<1>8. CASE UNCHANGED storeVars
  BY <1>8 DEF storeVars, SpanInv, Known, InPlace
<1> QED BY <1>1, <1>2, <1>3, <1>4, <1>5, <1>6, <1>7, <1>8 DEF StoreNext, Finalize

LEMMA SpansHold ==
    StoreSpec => []SpanInv
<1>1. StoreInit => SpanInv
  BY EmptyList DEF StoreInit, SpanInv, NoRow, Row
<1>2. ListInv /\ TableInv /\ RowInv /\ SpanInv /\ [StoreNext]_storeVars => SpanInv'
  BY SpanStep
<1> QED BY <1>1, <1>2, ListsHold, TablesHold, RowsHold, PTL DEF StoreSpec

(* Joining never overwrites or shifts a video that some row other than the  *)
(* latest one points to (DatasetWriter._save_episode_video).                *)
THEOREM SpansHeld == StoreSpec => []SpansAreOwn
<1>1. SpanInv => SpansAreOwn
  BY DEF SpanInv, SpansAreOwn, Known
<1> QED BY <1>1, SpansHold, PTL

-----------------------------------------------------------------------------
(* A session without a fault that is no longer than the row buffer. Its     *)
(* rows are all in the buffer, or all in one file and the buffer is empty.  *)
Short == faults = {} /\ saved <= BufferSize

Layout ==
    IF saved < BufferSize
    THEN /\ columns = "none" /\ pending = {}
         /\ stage # "closed" => disk = {} /\ Len(buffer) = saved
    ELSE buffer = << >>

(* Every episode's video is transcoded or will be.                          *)
OnTheWay ==
    \A e \in Episodes : e < saved =>
        e \in ToSet(ready) \cup ToSet(jobs) \cup ToSet(deferred)

(* No row is forgotten while videos are joined, and the last video joined   *)
(* is that of the latest row, so that its span is its own in the end.       *)
Remembered ==
    /\ latest.ep \in Episodes /\ latest.ep \notin ToSet(todo) => todo = << >>
    /\ \A r \in ToSet(buffer) : r.ep \in ToSet(todo) \/ r.span # NoSpan
    /\ \A r \in disk : r.ep \in ToSet(todo) \/ \E p \in pending : p.ep = r.ep
    /\ todo = << >> => \A r \in ToSet(buffer) : InPlace(r)

Listed == \A r \in disk \cup ToSet(buffer) : InPlace(r)

ShortInv ==
    Short =>
      /\ stage # "gaveup" /\ failed = FALSE
      /\ Layout
      /\ Recording \/ stage \in {"finish", "wait"} => OnTheWay
      /\ stage = "join" => Remembered
      /\ stage \in {"close", "closed"} => Listed

AllInv == ListInv /\ TableInv /\ RowInv /\ SpanInv

LEMMA ShortBefore ==
    ASSUME ListInv, [StoreNext]_storeVars, Short'
    PROVE  Short
<1>1. saved \in Int /\ saved' \in Int /\ BufferSize \in Int
  BY ListStep, EpisodeInts, StoreAssumption DEF ListInv, ListTypes
<1>2. faults \subseteq faults'
  BY DEF StoreNext, Finalize, storeVars, SaveEpisode, SaveFails, StartTranscode, ResetEnds, Stop,
     Transcoded, TranscodeRest, WaitThread, JoinOne, JoinFails, RewriteRows, NothingToRewrite,
     CloseWriters, Fault
<1>3. saved' = saved \/ saved' = saved + 1
  BY DEF StoreNext, Finalize, storeVars, SaveEpisode, SaveFails, StartTranscode, ResetEnds, Stop,
     Transcoded, TranscodeRest, WaitThread, JoinOne, JoinFails, RewriteRows, NothingToRewrite,
     CloseWriters
<1> QED BY <1>1, <1>2, <1>3 DEF Short

(* What the other invariants say of a short session without a fault.        *)
LEMMA ShortFacts ==
    ASSUME AllInv, ShortInv, Short
    PROVE  /\ failed = FALSE /\ stage # "gaveup" /\ Layout /\ faults = {}
           /\ saved \in 0..NumEpisodes /\ NumEpisodes \in Nat /\ BufferSize \in Nat \ {0}
           /\ saved <= BufferSize
           /\ buffer \in Seq(EpisodeRows) /\ ToSet(buffer) \subseteq EpisodeRows
              /\ disk \subseteq EpisodeRows
           /\ \A r \in disk \cup ToSet(buffer) : r.ep \in Episodes /\ r.ep < saved
           /\ \A e \in ToSet(todo) : e \in Episodes /\ e < saved
           /\ latest.ep = saved - 1
<1>1. /\ buffer \in Seq(EpisodeRows) /\ disk \subseteq EpisodeRows
      /\ ToSet(buffer) \subseteq EpisodeRows
      /\ ToSet(buffer) = {buffer[i] : i \in DOMAIN buffer}
  BY ListFacts DEF AllInv, TableInv, RowTypes, ToSet
<1>2. \A r \in disk \cup ToSet(buffer) : r.ep \in Episodes
  BY <1>1 DEF EpisodeRows
<1>3. \A r \in disk \cup ToSet(buffer) : r.ep < saved
  BY <1>1, <1>2 DEF AllInv, RowInv, Table
<1>4. \A e \in ToSet(todo) : e \in Episodes /\ e < saved
  BY ListFacts DEF AllInv, ListInv, ListTypes, OrderInv, Counted, Short
<1> QED BY <1>1, <1>2, <1>3, <1>4, StoreAssumption
        DEF AllInv, RowInv, ListInv, ListTypes, ShortInv, Short

LEMMA ShortSave ==
    ASSUME AllInv, ShortInv, Short, Short', SaveEpisode
    PROVE  ShortInv'
<1>1. PICK roll \in BOOLEAN :
        /\ BufferRow(roll) /\ (roll => columns # "none")
        /\ stage = "record" /\ saved \in Episodes
        /\ saved' = saved + 1 /\ deferred' = Append(deferred, saved)
        /\ stage' \in {"record", "start"} /\ UNCHANGED <<failed, ready, jobs, pending>>
  BY EpisodeInts DEF SaveEpisode, AllInv, ListInv, ListTypes, Episodes, joining
<1>2. /\ saved \in Nat /\ BufferSize \in Nat \ {0} /\ saved + 1 <= BufferSize
      /\ failed = FALSE /\ Layout /\ buffer \in Seq(EpisodeRows)
  BY <1>1, ShortFacts DEF Short
<1>3. columns = "none" /\ pending = {} /\ disk = {} /\ Len(buffer) = saved /\ roll = FALSE
  BY <1>1, <1>2 DEF Layout
<1> DEFINE row == Row(saved, NoSpan)
           rows == Append(buffer, row)
<1>4. row \in EpisodeRows
  BY <1>1, RowFacts
<1>5. Len(rows) = saved + 1
  <2> HIDE DEF row
  <2> QED BY <1>2, <1>3, <1>4, AppendProperties
<1>6. /\ buffer' = IF Len(rows) >= BufferSize THEN << >> ELSE rows
      /\ disk' = disk \cup {} \cup (IF Len(rows) >= BufferSize THEN ToSet(rows) ELSE {})
      /\ columns' = IF Len(rows) >= BufferSize THEN "plain" ELSE columns
  BY <1>1, <1>3 DEF BufferRow
<1> HIDE DEF rows, row
<1>7. Layout'
  <2>1. CASE saved' < BufferSize
    <3>1. ~(Len(rows) >= BufferSize)
      BY <1>1, <1>2, <1>5, <2>1
    <3> QED BY <1>1, <1>3, <1>5, <1>6, <2>1, <3>1 DEF Layout
  <2>2. CASE ~(saved' < BufferSize)
    <3>1. Len(rows) >= BufferSize
      BY <1>1, <1>2, <1>5, <2>2
    <3> QED BY <1>6, <2>2, <3>1 DEF Layout
  <2> QED BY <2>1, <2>2
<1>8. OnTheWay'
  <2>1. ToSet(deferred') = ToSet(deferred) \cup {saved}
    <3>1. /\ Episodes \subseteq Int /\ deferred \in Seq(Episodes) /\ Sorted(deferred)
          /\ \A x \in ToSet(deferred) : x < saved
      BY <1>1, EpisodeInts DEF AllInv, ListInv, ListTypes, OrderInv, Counted, Recording
    <3> QED BY <1>1, <3>1, AppendList
  <2>2. Recording
    BY <1>1 DEF Recording
  <2>3. \A e \in Episodes : e < saved' => e < saved \/ e = saved
    BY <1>1, <1>2, EpisodeInts
  <2>4. OnTheWay
    BY <2>2 DEF ShortInv
  <2> QED BY <1>1, <2>1, <2>3, <2>4 DEF OnTheWay
<1> QED BY <1>1, <1>2, <1>7, <1>8 DEF ShortInv

(* Steps before joining that leave the rows alone.                          *)
LEMMA ShortRest ==
    ASSUME AllInv, ShortInv, Short, Short',
           StartTranscode \/ ResetEnds \/ Stop \/ Transcoded \/ TranscodeRest
    PROVE  ShortInv'
<1>1. failed = FALSE /\ Layout /\ faults = {} /\ stage # "gaveup"
  BY ShortFacts
<1>2. faults' = {}
  BY DEF Short
<1>3. /\ UNCHANGED <<saved, buffer, disk, columns, pending>>
      /\ stage # "closed"
      /\ failed' = FALSE /\ stage' \notin {"gaveup", "closed", "join", "close"}
      /\ Recording \/ stage \in {"finish", "wait"}
      /\ ToSet(ready') \cup ToSet(jobs') \cup ToSet(deferred')
           = ToSet(ready) \cup ToSet(jobs) \cup ToSet(deferred)
  <2>1. CASE StartTranscode
    BY <1>1, <2>1, EmptyList DEF StartTranscode, Waited, Finish, Recording, meta, joining
  <2>2. CASE ResetEnds \/ Stop
    BY <1>1, <2>2 DEF ResetEnds, Stop, Waited, Finish, Recording, meta, mp4s, joining
  <2>3. CASE Transcoded
    <3>1. /\ jobs' = << >> /\ ready' = ready \o jobs /\ UNCHANGED <<failed, deferred, stage>>
          /\ UNCHANGED <<saved, buffer, disk, columns, pending>> /\ jobs # << >>
      BY <1>1, <1>2, <2>3 DEF Transcoded, Fault, meta, joining
    <3>2. ToSet(ready \o jobs) = ToSet(ready) \cup ToSet(jobs)
      BY EpisodeInts, JoinLists DEF AllInv, ListInv, ListTypes, OrderInv
    <3>3. stage \in {"reset", "finish", "wait"}
      BY <1>1, <3>1 DEF AllInv, ListInv, ListTypes, PhaseInv
    <3> QED BY <1>1, <3>1, <3>2, <3>3, EmptyList DEF Recording
  <2>4. CASE TranscodeRest
    <3>1. /\ deferred' = << >> /\ ready' = ready \o deferred /\ UNCHANGED <<failed, jobs>>
          /\ UNCHANGED <<saved, buffer, disk, columns, pending>>
          /\ stage = "finish" /\ stage' = "wait"
      BY <1>1, <1>2, <2>4 DEF TranscodeRest, Fault, meta, joining
    <3>2. ToSet(ready \o deferred) = ToSet(ready) \cup ToSet(deferred)
      BY EpisodeInts, JoinLists DEF AllInv, ListInv, ListTypes, OrderInv
    <3> QED BY <1>1, <3>1, <3>2, EmptyList
  <2> QED BY <2>1, <2>2, <2>3, <2>4
<1>4. Layout'
  BY <1>1, <1>3 DEF Layout
<1>5. OnTheWay'
  BY <1>3 DEF OnTheWay, ShortInv
<1> QED BY <1>3, <1>4, <1>5 DEF ShortInv

LEMMA ShortWait ==
    ASSUME AllInv, ShortInv, Short, Short', WaitThread
    PROVE  ShortInv'
<1>1. failed = FALSE /\ Layout
  BY ShortFacts
<1>2. /\ stage = "wait" /\ stage' = "join" /\ jobs = << >> /\ deferred = << >>
      /\ todo' = ready /\ failed' = FALSE
      /\ UNCHANGED <<saved, buffer, latest, disk, columns, pending>>
  BY <1>1 DEF WaitThread, AllInv, ListInv, PhaseInv, meta
<1>3. \A e \in Episodes : e < saved => e \in ToSet(todo')
  BY <1>2, EmptyList DEF ShortInv, OnTheWay
<1>4. Layout'
  BY <1>1, <1>2 DEF Layout
<1>5. Remembered'
  <2>1. \A r \in disk \cup ToSet(buffer) : r.ep \in ToSet(todo')
    BY <1>3, ShortFacts
  <2>2. latest.ep \in Episodes => latest.ep \in ToSet(todo')
    BY <1>3, ShortFacts
  <2>3. todo' = << >> => ToSet(todo') = {}
    BY EmptyList
  <2> QED BY <1>2, <2>1, <2>2, <2>3 DEF Remembered
<1> QED BY <1>2, <1>4, <1>5 DEF ShortInv, Recording

LEMMA NoElement ==
    ASSUME NEW t \in Seq(Episodes), ToSet(t) = {}
    PROVE  t = << >>
<1>1. Len(t) \in Nat /\ \A i \in 1..Len(t) : t[i] \in ToSet(t)
  BY ListFacts
<1>2. Len(t) = 0
  <2>1. ~(1 \in 1..Len(t))
    BY <1>1
  <2> QED BY <1>1, <2>1
<1> QED BY <1>2, EmptySeq

LEMMA ShortJoin ==
    ASSUME AllInv, AllInv', ShortInv, Short, Short', JoinOne
    PROVE  ShortInv'
<1>0. PICK e : e = Head(todo)
  OBVIOUS
<1>1. PICK s \in Places(e) :
        /\ stage = "join" /\ todo # << >> /\ todo' = Tail(todo)
        /\ video' = Joined(e, s) /\ Note(e, s)
        /\ pending' = IF \E r \in ToSet(buffer) : r.ep = e THEN pending
                      ELSE pending \cup {Row(e, s)}
        /\ UNCHANGED <<stage, saved, disk, columns, failed>>
  BY <1>0 DEF JoinOne, mp4s
<1>2. e \in Episodes /\ s \in Spans /\ s # NoSpan
  BY <1>0, <1>1, PlaceFacts DEF AllInv
<1>3. /\ DOMAIN buffer' = DOMAIN buffer /\ Len(buffer') = Len(buffer)
      /\ \A i \in DOMAIN buffer :
           buffer'[i] = IF buffer[i].ep = e \/ i = Len(buffer)
                        THEN Row(buffer[i].ep, s) ELSE buffer[i]
      /\ latest'.ep = latest.ep
      /\ latest' = IF latest = NoRow THEN latest ELSE Row(latest.ep, s)
  BY <1>1, <1>2, NoteFacts DEF AllInv, TableInv
<1>4. /\ failed = FALSE /\ Layout /\ saved \in Int
      /\ buffer \in Seq(EpisodeRows) /\ Remembered /\ latest.ep = saved - 1
      /\ \A x \in ToSet(todo) : x \in Episodes /\ x < saved
  <2>1. Remembered
    BY <1>1 DEF ShortInv
  <2> QED BY <2>1, ShortFacts
<1>5. /\ Tail(todo) \in Seq(Episodes)
      /\ ToSet(todo) = {e} \cup ToSet(Tail(todo))
      /\ \A x \in ToSet(Tail(todo)) : e < x
  BY <1>0, <1>1, EpisodeInts, TailList DEF AllInv, ListInv, ListTypes, OrderInv
<1>6. latest.ep \in Episodes => latest.ep \in ToSet(todo)
  BY <1>1, <1>4 DEF Remembered
<1>7. latest'.ep \in Episodes /\ latest'.ep \notin ToSet(todo') => todo' = << >>
  <2> SUFFICES ASSUME latest.ep \in Episodes, latest.ep \notin ToSet(todo')
               PROVE  todo' = << >>
    BY <1>3
  <2>1. latest.ep = e
    BY <1>1, <1>5, <1>6
  <2>2. ASSUME NEW x \in ToSet(todo')
        PROVE  FALSE
    <3>1. e < x /\ x < saved /\ x \in Int /\ e = saved - 1
      BY <1>1, <1>4, <1>5, <2>1, <2>2, EpisodeInts
    <3> QED BY <1>4, <3>1
  <2> QED BY <1>1, <1>5, <2>2, NoElement
<1>8. ASSUME NEW i \in DOMAIN buffer, NEW r, r = buffer'[i]
      PROVE  /\ r.ep = buffer[i].ep
             /\ r.ep \in ToSet(todo') \/ r.span # NoSpan
             /\ i = Len(buffer) => r = Row(latest.ep, s)
             /\ todo' = << >> => InPlace(r)'
  <2>1. buffer[i] \in ToSet(buffer) /\ \A x : Row(x, s).ep = x /\ Row(x, s).span = s
    BY DEF ToSet, Row
  <2>2. r.ep = buffer[i].ep
    BY <1>3, <1>8, <2>1
  <2>3. r.ep \in ToSet(todo') \/ r.span # NoSpan
    <3>1. CASE buffer[i].ep = e \/ i = Len(buffer)
      BY <1>2, <1>3, <1>8, <2>1, <3>1
    <3>2. CASE ~(buffer[i].ep = e \/ i = Len(buffer))
      BY <1>1, <1>3, <1>4, <1>5, <1>8, <2>1, <3>2 DEF Remembered
    <3> QED BY <3>1, <3>2
  <2>4. buffer # << >> /\ latest = buffer[Len(buffer)] /\ latest \in EpisodeRows
    BY <1>4, <1>8, LastFacts DEF AllInv, TableInv, RowTypes
  <2>5. i = Len(buffer) => r = Row(latest.ep, s)
    BY <1>3, <1>8, <2>4
  <2>6. ASSUME todo' = << >>
        PROVE  InPlace(r)'
    <3>1. ToSet(todo') = {} /\ r.span # NoSpan
      BY <2>3, <2>6, EmptyList
    <3>2. CASE r.ep # latest.ep
      <4>1. r \in ToSet(buffer')
        BY <1>3, <1>8 DEF ToSet
      <4> QED BY <1>3, <3>1, <3>2, <4>1 DEF AllInv, SpanInv, Known
    <3>3. CASE r.ep = latest.ep
      <4>1. latest.ep = e
        BY <1>1, <1>5, <1>6, <2>4, <3>1 DEF EpisodeRows
      <4>2. r = Row(e, s)
        BY <1>3, <1>8, <2>1, <2>2, <3>3, <4>1
      <4>3. InPlace(Row(e, s))'
        BY <1>0, <1>1, JoinedInPlace DEF AllInv
      <4> QED BY <4>2, <4>3
    <3> QED BY <3>2, <3>3
  <2> QED BY <2>2, <2>3, <2>5, <2>6
<1>9. \A r \in ToSet(buffer') : \E i \in DOMAIN buffer : r = buffer'[i]
  BY <1>3 DEF ToSet
<1>10. ASSUME NEW r \in disk
       PROVE  r.ep \in ToSet(todo') \/ \E p \in pending' : p.ep = r.ep
  <2>1. CASE r.ep = e
    <3>1. ~\E x \in ToSet(buffer) : x.ep = e
      BY <2>1 DEF AllInv, RowInv, Table, ToSet
    <3>2. Row(e, s) \in pending' /\ Row(e, s).ep = e
      BY <1>1, <3>1 DEF Row
    <3> QED BY <2>1, <3>2
  <2>2. CASE r.ep # e
    BY <1>1, <1>4, <1>5, <2>2 DEF Remembered
  <2> QED BY <2>1, <2>2
<1>11. Remembered'
  BY <1>1, <1>7, <1>8, <1>9, <1>10 DEF Remembered
<1>12. Layout'
  <2>1. CASE saved < BufferSize
    <3>1. columns = "none" /\ pending = {} /\ disk = {} /\ Len(buffer) = saved
      BY <1>1, <1>4, <2>1 DEF Layout
    <3>2. e < saved
      BY <1>4, <1>5
    <3>3. \E i \in DOMAIN buffer : buffer[i].ep = e
      BY <1>2, <3>1, <3>2 DEF AllInv, RowInv, Table
    <3>4. pending' = {}
      BY <1>1, <3>1, <3>3 DEF ToSet
    <3> QED BY <1>1, <1>3, <2>1, <3>1, <3>4 DEF Layout
  <2>2. CASE ~(saved < BufferSize)
    <3>1. buffer = << >>
      BY <1>4, <2>2 DEF Layout
    <3>2. buffer' = << >>
      <4>1. AllInv' => buffer' \in Seq(EpisodeRows)
        BY DEF AllInv, TableInv, RowTypes
      <4> QED BY <1>3, <3>1, <4>1, EmptySeq, EmptyList
    <3> QED BY <1>1, <2>2, <3>2 DEF Layout
  <2> QED BY <2>1, <2>2
<1> QED BY <1>1, <1>4, <1>11, <1>12 DEF ShortInv, Recording

(* In a short session every row has its span when the last video is joined, *)
(* so the table can be built, and it is built with all of them.             *)
LEMMA ShortClose ==
    ASSUME AllInv, ShortInv, Short, Short',
           RewriteRows \/ NothingToRewrite \/ CloseWriters
    PROVE  ShortInv'
<1>1. /\ failed = FALSE /\ Layout /\ faults = {} /\ saved <= BufferSize
      /\ ToSet(buffer) \subseteq EpisodeRows
  BY ShortFacts
<1>2. /\ UNCHANGED <<failed, saved, todo, video>> /\ pending' = {} /\ todo = << >>
      /\ stage \in {"join", "close"}
  BY DEF RewriteRows, NothingToRewrite, CloseWriters, mp4s, joining, AllInv, ListInv, PhaseInv
<1>3. \A r : InPlace(r) = InPlace(r)'
  BY <1>2 DEF InPlace
<1>4. \A r \in ToSet(buffer) : InPlace(r)
  BY <1>2 DEF ShortInv, Remembered, Listed
<1>5. ~Mixed(buffer)
  BY <1>4 DEF Mixed, InPlace
<1>6. Written(buffer) = ToSet(buffer)
  <2>1. CASE columns # "plain"
    BY <2>1 DEF Written
  <2>2. CASE columns = "plain"
    BY <1>1, <2>2, EmptyList DEF Layout, Written
  <2> QED BY <2>1, <2>2
<1>7. CASE RewriteRows
  <2> DEFINE New(r) == IF \E p \in pending : p.ep = r.ep
                       THEN CHOOSE p \in pending : p.ep = r.ep ELSE r
  <2>1. /\ stage = "join" /\ pending # {} /\ stage' = "close"
        /\ disk' = {New(r) : r \in disk \cup Written(buffer)}
        /\ buffer' = << >> /\ columns' = "none"
    BY <1>5, <1>7 DEF RewriteRows
  <2>2. ~(saved < BufferSize) /\ buffer = << >>
    BY <1>1, <2>1 DEF Layout
  <2>3. Layout'
    BY <1>2, <2>1, <2>2 DEF Layout
  <2>4. ASSUME NEW r \in disk
        PROVE  InPlace(New(r))
    <3>1. \E p \in pending : p.ep = r.ep
      BY <1>1, <1>2, <2>1, <2>4, EmptyList DEF ShortInv, Remembered
    <3>2. New(r) \in pending
      BY <3>1
    <3>3. latest # NoRow
      <4>1. saved # 0
        BY <2>4, ShortFacts, EpisodeInts DEF Episodes
      <4> QED BY <4>1, ShortFacts DEF NoRow, Row
    <3> HIDE DEF New
    <3> QED BY <3>2, <3>3 DEF AllInv, SpanInv, Known
  <2> HIDE DEF New
  <2>5. ToSet(buffer) = {} /\ ToSet(buffer') = {}
    BY <2>1, <2>2, EmptyList
  <2>6. Listed'
    <3>1. \A r \in disk' : InPlace(r)
      BY <1>6, <2>1, <2>4, <2>5
    <3> QED BY <1>3, <2>5, <3>1 DEF Listed
  <2> QED BY <1>1, <1>2, <2>1, <2>3, <2>6 DEF ShortInv, Recording
<1>8. CASE NothingToRewrite
  <2>1. /\ stage = "join" /\ stage' = "close" /\ pending = {}
        /\ UNCHANGED <<buffer, disk, columns>>
    BY <1>8 DEF NothingToRewrite, meta
  <2>2. Layout'
    BY <1>1, <1>2, <2>1 DEF Layout
  <2>3. Listed'
    <3>1. disk = {}
      BY <1>1, <1>2, <2>1, EmptyList DEF ShortInv, Remembered
    <3> QED BY <1>3, <1>4, <2>1, <3>1 DEF Listed
  <2> QED BY <1>1, <1>2, <2>1, <2>2, <2>3 DEF ShortInv, Recording
<1>9. CASE CloseWriters
  <2>1. /\ stage = "close" /\ stage' = "closed" /\ Flush /\ columns' = "none"
    BY <1>5, <1>9 DEF CloseWriters
  <2>2. disk' = disk \cup ToSet(buffer) /\ buffer' = << >>
    BY <1>6, <2>1 DEF Flush
  <2>3. Layout'
    BY <1>2, <2>1, <2>2 DEF Layout
  <2>4. Listed'
    <3>1. Listed /\ ToSet(buffer') = {}
      BY <1>1, <2>1, <2>2, EmptyList DEF ShortInv
    <3> QED BY <1>3, <2>2, <3>1 DEF Listed
  <2> QED BY <1>1, <1>2, <2>1, <2>3, <2>4 DEF ShortInv, Recording
<1> QED BY <1>7, <1>8, <1>9

LEMMA ShortStep ==
    ASSUME AllInv, ShortInv, [StoreNext]_storeVars
    PROVE  ShortInv'
<1> SUFFICES ASSUME Short'
             PROVE  ShortInv'
  BY DEF ShortInv
<1>1. Short
  BY ShortBefore DEF AllInv
<1>2. AllInv'
  BY ListStep, TableStep, RowStep, SpanStep DEF AllInv
<1>3. CASE SaveEpisode
  BY <1>1, <1>3, ShortSave
<1>4. CASE SaveFails \/ JoinFails
  <2>1. faults' # {}
    BY <1>4 DEF SaveFails, JoinFails, Fault
  <2> QED BY <2>1 DEF Short
<1>5. CASE StartTranscode \/ ResetEnds \/ Stop \/ Transcoded \/ TranscodeRest
  BY <1>1, <1>5, ShortRest
<1>6. CASE WaitThread
  BY <1>1, <1>6, ShortWait
<1>7. CASE JoinOne
  BY <1>1, <1>2, <1>7, ShortJoin
<1>8. CASE RewriteRows \/ NothingToRewrite \/ CloseWriters
  BY <1>1, <1>8, ShortClose
<1>9. CASE UNCHANGED storeVars
  <2>1. /\ UNCHANGED <<stage, saved, buffer, latest, disk, columns, deferred, jobs, failed, ready>>
        /\ UNCHANGED <<todo, pending, video, faults>>
    BY <1>9 DEF storeVars, meta, mp4s, joining
  <2>2. /\ Layout' = Layout /\ OnTheWay' = OnTheWay /\ Remembered' = Remembered
        /\ Listed' = Listed /\ Recording' = Recording
    BY <2>1 DEF Layout, OnTheWay, Remembered, Listed, InPlace, Recording
  <2> QED BY <1>1, <2>1, <2>2 DEF ShortInv
<1> QED BY <1>3, <1>4, <1>5, <1>6, <1>7, <1>8, <1>9 DEF StoreNext, Finalize

LEMMA ShortHolds ==
    StoreSpec => [](AllInv /\ ShortInv)
<1>1. StoreInit => ShortInv
  <2> SUFFICES ASSUME StoreInit
               PROVE  ShortInv
    OBVIOUS
  <2>1. Layout
    BY EmptyList DEF StoreInit, Layout
  <2>2. OnTheWay
    BY EpisodeInts DEF StoreInit, OnTheWay, Episodes
  <2> QED BY <2>1, <2>2 DEF StoreInit, ShortInv
<1>2. AllInv /\ ShortInv /\ [StoreNext]_storeVars => ShortInv'
  BY ShortStep
<1>3. StoreSpec => []AllInv
  BY ListsHold, TablesHold, RowsHold, SpansHold, PTL DEF AllInv
<1> QED BY <1>1, <1>2, <1>3, PTL DEF StoreSpec

(* A short session without a fault ends with every row pointing to its own  *)
(* video (DatasetWriter.finalize, LeRobotDatasetMetadata.save_episode).     *)
THEOREM ShortSessionsHold == StoreSpec => []ShortSessionKeepsVideos
<1>1. ShortInv => ShortSessionKeepsVideos
  BY DEF ShortInv, Short, Listed, ShortSessionKeepsVideos
<1> QED BY <1>1, ShortHolds, PTL
=============================================================================
