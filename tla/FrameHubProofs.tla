--------------------------- MODULE FrameHubProofs ---------------------------
(***************************************************************************)
(* Theorems about FrameHub, for any number of viewers and publishers, with *)
(* or without timeouts.                                                    *)
(***************************************************************************)
EXTENDS FrameHub, TLAPS

(* Every variable keeps its type (FrameHub.publish, awaitNext, remove).     *)
THEOREM TypeCorrect == Spec => []TypeOK
<1> USE HubAssumption DEF TypeOK, NoFrame, PubPc, ViewPc
<1>1. Init => TypeOK
  BY DEF Init
<1>2. TypeOK /\ [Next]_vars => TypeOK'
  <2> SUFFICES ASSUME TypeOK, [Next]_vars
               PROVE  TypeOK'
    OBVIOUS
  <2>1. ASSUME NEW p \in Publishers, Publish(p)
        PROVE  TypeOK'
    <3>0. ASSUME NEW where \in PubPc, NEW n \in 0..MaxSeq
          PROVE  [pub EXCEPT ![p].pc = where, ![p].frame = n]
                   \in [Publishers -> [pc : PubPc, frame : 0..MaxSeq, todo : SUBSET Viewers]]
      <4>1. [pub[p] EXCEPT !.pc = where, !.frame = n]
              \in [pc : PubPc, frame : 0..MaxSeq, todo : SUBSET Viewers]
        OBVIOUS
      <4> QED BY <4>1
    <3>1. CASE Number(p)
      <4>1. seq + 1 \in 0..MaxSeq
        BY <3>1 DEF Number
      <4>2. overtaken' \in SUBSET (0..MaxSeq)
        BY <3>1 DEF Number
      <4>3. UNCHANGED <<latest, waiters, view>> /\ seq' = seq + 1
        BY <3>1 DEF Number
      <4>4. pub' \in [Publishers -> [pc : PubPc, frame : 0..MaxSeq, todo : SUBSET Viewers]]
        BY <3>0, <3>1, <4>1 DEF Number
      <4> QED BY <4>1, <4>2, <4>3, <4>4
    <3>2. CASE Store(p)
      BY <3>2 DEF Store
    <3>3. CASE ListLocks(p)
      <4>1. pub' \in [Publishers -> [pc : PubPc, frame : 0..MaxSeq, todo : SUBSET Viewers]]
        <5>1. [pub[p] EXCEPT !.pc = "notify", !.todo = waiters]
                \in [pc : PubPc, frame : 0..MaxSeq, todo : SUBSET Viewers]
          OBVIOUS
        <5> QED BY <3>3, <5>1 DEF ListLocks
      <4> QED BY <3>3, <4>1 DEF ListLocks
    <3>4. CASE Published(p)
      <4>1. "idle" \in PubPc /\ 0 \in 0..MaxSeq
        OBVIOUS
      <4>2. pub' = [pub EXCEPT ![p].pc = "idle", ![p].frame = 0]
        BY <3>4 DEF Published
      <4>3. pub' \in [Publishers -> [pc : PubPc, frame : 0..MaxSeq, todo : SUBSET Viewers]]
        BY <3>0, <4>1, <4>2
      <4> QED BY <3>4, <4>3 DEF Published
    <3>5. ASSUME NEW v \in Viewers, Notify(p, v)
          PROVE  TypeOK'
      BY <3>5 DEF Notify
    <3> QED BY <2>1, <3>1, <3>2, <3>3, <3>4, <3>5 DEF Publish
  <2>2. CASE Remove
    BY <2>2 DEF Remove
  <2>3. ASSUME NEW v \in Viewers, Await(v)
        PROVE  TypeOK'
    <3>0. Deliver(v) => view' \in [Viewers -> [pc : ViewPc, after : 0..MaxSeq, again : BOOLEAN]]
      <4>1. [pc |-> "gone", after |-> 0, again |-> FALSE] \in [pc : ViewPc, after : 0..MaxSeq, again : BOOLEAN]
        OBVIOUS
      <4>2. [pc |-> "look", after |-> latest, again |-> latest = view[v].after]
              \in [pc : ViewPc, after : 0..MaxSeq, again : BOOLEAN]
        OBVIOUS
      <4> QED BY <4>1, <4>2 DEF Deliver
    <3>a. ASSUME NEW there \in ViewPc, Go(v, there)
          PROVE  view' \in [Viewers -> [pc : ViewPc, after : 0..MaxSeq, again : BOOLEAN]]
      BY <3>a DEF Go
    <3>b. DropLock(v) =>
            /\ waiters' \in SUBSET Viewers
            /\ pub' \in [Publishers -> [pc : PubPc, frame : 0..MaxSeq, todo : SUBSET Viewers]]
      BY DEF DropLock
    <3>1. CASE Look(v)
      BY <3>0, <3>a, <3>1 DEF Look
    <3>2. CASE Enlist(v)
      BY <3>a, <3>2 DEF Enlist
    <3>3. CASE Recheck(v)
      BY <3>0, <3>a, <3>b, <3>3 DEF Recheck
    <3>4. CASE Wait(v)
      BY <3>a, <3>4 DEF Wait
    <3>5. CASE Timeout(v)
      BY <3>a, <3>5 DEF Timeout
    <3>6. CASE Return(v)
      BY <3>0, <3>a, <3>b, <3>6 DEF Return
    <3>7. CASE LastLook(v)
      BY <3>0, <3>7 DEF LastLook
    <3> QED BY <2>3, <3>1, <3>2, <3>3, <3>4, <3>5, <3>6, <3>7 DEF Await
  <2>4. ASSUME NEW v \in Viewers, Reconnect(v)
        PROVE  TypeOK'
    BY <2>4 DEF Reconnect, Go
  <2>5. CASE UNCHANGED vars
    BY <2>5 DEF vars
  <2> QED BY <2>1, <2>2, <2>3, <2>4, <2>5 DEF Next
<1> QED BY <1>1, <1>2, PTL DEF Spec

-----------------------------------------------------------------------------
(* The list and the threads agree; with TypeOK this is inductive as it is.  *)
LEMMA LocksStep == TypeOK /\ LocksMatchWaits /\ [Next]_vars => LocksMatchWaits'
<1> SUFFICES ASSUME TypeOK, LocksMatchWaits, [Next]_vars
             PROVE  LocksMatchWaits'
  OBVIOUS
<1> USE DEF TypeOK, LocksMatchWaits, PubPc, ViewPc
<1>1. ASSUME NEW p \in Publishers, Publish(p)
      PROVE  LocksMatchWaits'
  <2>1. CASE Number(p)
    BY <2>1 DEF Number
  <2>2. CASE Store(p)
    BY <2>2 DEF Store
  <2>3. CASE ListLocks(p)
    BY <2>3 DEF ListLocks
  <2>4. CASE Published(p)
    BY <2>4 DEF Published
  <2>5. ASSUME NEW v \in Viewers, Notify(p, v)
        PROVE  LocksMatchWaits'
    BY <2>5 DEF Notify
  <2> QED BY <1>1, <2>1, <2>2, <2>3, <2>4, <2>5 DEF Publish
<1>2. CASE Remove
  BY <1>2 DEF Remove
<1>3. ASSUME NEW v \in Viewers, Await(v)
      PROVE  LocksMatchWaits'
  <2> USE DEF Go, Deliver
  <2>1. CASE Look(v)
    BY <2>1 DEF Look
  <2>2. CASE Enlist(v)
    BY <2>2 DEF Enlist
  <2>3. CASE Recheck(v)
    BY <2>3 DEF Recheck, DropLock
  <2>4. CASE Wait(v)
    BY <2>4 DEF Wait
  <2>5. CASE Timeout(v)
    BY <2>5 DEF Timeout
  <2>6. CASE Return(v)
    BY <2>6 DEF Return, DropLock
  <2>7. CASE LastLook(v)
    BY <2>7 DEF LastLook
  <2> QED BY <1>3, <2>1, <2>2, <2>3, <2>4, <2>5, <2>6, <2>7 DEF Await
<1>4. ASSUME NEW v \in Viewers, Reconnect(v)
      PROVE  LocksMatchWaits'
  BY <1>4 DEF Reconnect, Go
<1>5. CASE UNCHANGED vars
  BY <1>5 DEF vars
<1> QED BY <1>1, <1>2, <1>3, <1>4, <1>5 DEF Next

(* The waiters list holds exactly the locks of the waits under way          *)
(* (FrameHub.awaitNext, its finally block).                                 *)
THEOREM LocksHold == Spec => []LocksMatchWaits
<1>1. Init => LocksMatchWaits
  BY DEF Init, LocksMatchWaits
<1> QED BY <1>1, LocksStep, TypeCorrect, PTL DEF Spec

-----------------------------------------------------------------------------
(* A newer frame can only be stored by a publisher that has still to list   *)
(* the locks, and it lists the lock of every viewer past Recheck.           *)
LEMMA WakeupStep ==
    TypeOK /\ LocksMatchWaits /\ NoLostWakeup /\ [Next]_vars => NoLostWakeup'
<1> SUFFICES ASSUME TypeOK, LocksMatchWaits, NoLostWakeup, [Next]_vars,
                    NEW w \in Viewers,
                    view'[w].pc \in {"checked", "waiting"}, latest' > view'[w].after
             PROVE  WillNotify(w)'
  BY DEF NoLostWakeup
<1> USE HubAssumption DEF TypeOK, PubPc, ViewPc, NoFrame
<1>0. ASSUME view[w] = view'[w], latest = latest'
      PROVE  WillNotify(w)
  BY <1>0 DEF NoLostWakeup
<1>1. ASSUME NEW p \in Publishers, Publish(p)
      PROVE  WillNotify(w)'
  <2>1. CASE Number(p)
    BY <2>1, <1>0 DEF Number, WillNotify
  <2>2. CASE Store(p)
    BY <2>2 DEF Store, WillNotify
  <2>3. CASE ListLocks(p)
    BY <2>3 DEF ListLocks, WillNotify, LocksMatchWaits
  <2>4. CASE Published(p)
    BY <2>4, <1>0 DEF Published, WillNotify
  <2>5. ASSUME NEW v \in Viewers, Notify(p, v)
        PROVE  WillNotify(w)'
    <3>1. v # w
      BY <2>5 DEF Notify
    <3>2. view'[w] = view[w] /\ latest' = latest
      BY <2>5, <3>1 DEF Notify
    <3> QED BY <1>0, <2>5, <3>1, <3>2 DEF Notify, WillNotify
  <2> QED BY <1>1, <2>1, <2>2, <2>3, <2>4, <2>5 DEF Publish
<1>2. CASE Remove
  BY <1>2 DEF Remove
<1>3. ASSUME NEW v \in Viewers, Await(v)
      PROVE  WillNotify(w)'
  <2> USE DEF Go, Deliver
  <2>1. CASE Look(v)
    BY <2>1, <1>0 DEF Look, WillNotify
  <2>2. CASE Enlist(v)
    BY <2>2, <1>0 DEF Enlist, WillNotify
  <2>3. CASE Recheck(v)
    BY <2>3, <1>0 DEF Recheck, DropLock, WillNotify
  <2>4. CASE Wait(v)
    <3>1. view[w].pc \in {"checked", "waiting"} /\ view'[w].after = view[w].after
      BY <2>4 DEF Wait
    <3>2. latest' = latest /\ pub' = pub
      BY <2>4 DEF Wait
    <3> QED BY <3>1, <3>2 DEF NoLostWakeup, WillNotify
  <2>5. CASE Timeout(v)
    BY <2>5, <1>0 DEF Timeout, WillNotify
  <2>6. CASE Return(v)
    BY <2>6, <1>0 DEF Return, DropLock, WillNotify
  <2>7. CASE LastLook(v)
    BY <2>7, <1>0 DEF LastLook, WillNotify
  <2> QED BY <1>3, <2>1, <2>2, <2>3, <2>4, <2>5, <2>6, <2>7 DEF Await
<1>4. ASSUME NEW v \in Viewers, Reconnect(v)
      PROVE  WillNotify(w)'
  BY <1>4, <1>0 DEF Reconnect, Go, WillNotify
<1>5. CASE UNCHANGED vars
  BY <1>5, <1>0 DEF vars, WillNotify
<1> QED BY <1>1, <1>2, <1>3, <1>4, <1>5 DEF Next

(* No viewer sleeps on a frame it has not seen without a notification on    *)
(* its way (FrameHub.publish, awaitNext).                                   *)
THEOREM WakeupHolds == Spec => []NoLostWakeup
<1>1. Init => NoLostWakeup
  BY DEF Init, NoLostWakeup
<1> QED BY <1>1, WakeupStep, TypeCorrect, LocksHold, PTL DEF Spec

-----------------------------------------------------------------------------
(* A frame about to be stored is the newest numbered or overtaken; the      *)
(* stored one is overtaken or no client has got a newer one.                *)
OrderInv ==
    /\ latest <= seq
    /\ \A p \in Publishers :
         pub[p].pc = "store" => /\ pub[p].frame \in 1..seq
                                /\ pub[p].frame \in {seq} \cup overtaken
    /\ \A v \in Viewers :
         /\ view[v].after <= seq
         /\ latest \notin overtaken \cup {NoFrame} => view[v].after <= latest

(* What a step that delivers nothing has to keep.                           *)
SameView ==
    \A v \in Viewers : /\ view'[v].after = view[v].after
                       /\ view'[v].again = view[v].again
                       /\ view'[v].pc = "gone" <=> view[v].pc = "gone"

LEMMA Unseen ==
    ASSUME SameView, seq' = seq, overtaken' = overtaken
    PROVE  UNCHANGED Feed!vars
BY DEF SameView, Feed!vars

(* A newer frame, the same again, an overtaken one, or the end.             *)
LEMMA DeliverStep ==
    ASSUME TypeOK, OrderInv, NEW v \in Viewers, view[v].pc # "gone",
           Deliver(v), seq' = seq, overtaken' = overtaken
    PROVE  [Feed!Next]_(Feed!vars)
<1> USE DEF TypeOK, ViewPc, NoFrame
<1> DEFINE old  == [w \in Viewers |-> view[w].after]
           more == [w \in Viewers |-> view[w].again]
           here == {w \in Viewers : view[w].pc # "gone"}
<1>1. CASE latest = NoFrame
  <2>1. view' = [view EXCEPT ![v] = [pc |-> "gone", after |-> 0, again |-> FALSE]]
    BY <1>1 DEF Deliver
  <2>2. /\ [w \in Viewers |-> view'[w].after] = [old EXCEPT ![v] = 0]
        /\ [w \in Viewers |-> view'[w].again] = [more EXCEPT ![v] = FALSE]
    BY <2>1
  <2>3. {w \in Viewers : view'[w].pc # "gone"} = here \ {v}
    BY <2>1
  <2> QED BY <2>2, <2>3 DEF Feed!Next, Feed!Leave, Feed!Get
<1>2. CASE latest # NoFrame
  <2> DEFINE same == latest = old[v]
  <2>1. view' = [view EXCEPT ![v] = [pc |-> "look", after |-> latest, again |-> same]]
    BY <1>2 DEF Deliver
  <2>2. /\ [w \in Viewers |-> view'[w].after] = [old EXCEPT ![v] = latest]
        /\ [w \in Viewers |-> view'[w].again] = [more EXCEPT ![v] = same]
    BY <2>1
  <2>3. {w \in Viewers : view'[w].pc # "gone"} = here
    BY <2>1
  <2>4. v \in here /\ old[v] \in Nat /\ latest \in Nat \ {0} /\ seq \in Nat /\ latest <= seq
    BY <1>2, HubAssumption DEF OrderInv
  <2>5. CASE latest = old[v]
    <3>1. Feed!Same(v)
      BY <2>2, <2>3, <2>4, <2>5 DEF Feed!Same, Feed!Get
    <3> QED BY <3>1 DEF Feed!Next
  <2>6. CASE latest > old[v]
    <3>1. latest \in old[v] + 1..seq
      BY <2>4, <2>6
    <3>2. same = FALSE
      BY <2>4, <2>6
    <3>3. Feed!Newer(v)
      BY <2>2, <2>3, <2>4, <3>1, <3>2 DEF Feed!Newer, Feed!Get
    <3> QED BY <3>3 DEF Feed!Next
  <2>7. CASE latest < old[v]
    <3>1. latest \in overtaken
      BY <1>2, <2>4, <2>7 DEF OrderInv
    <3>2. same = FALSE
      BY <2>4, <2>7
    <3>3. Feed!Older(v)
      BY <2>2, <2>3, <2>4, <2>7, <3>1, <3>2 DEF Feed!Older, Feed!Get
    <3> QED BY <3>3 DEF Feed!Next
  <2>8. latest = old[v] \/ latest > old[v] \/ latest < old[v]
    <3> HIDE DEF old
    <3> QED BY <2>4
  <2> QED BY <2>5, <2>6, <2>7, <2>8
<1> QED BY <1>1, <1>2

(* A number is taken: the frames on their way are overtaken by it.          *)
LEMMA NumberStep ==
    ASSUME TypeOK, OrderInv, NEW p \in Publishers, Number(p)
    PROVE  OrderInv' /\ Feed!Offer
<1> USE HubAssumption DEF TypeOK, PubPc, ViewPc, NoFrame
<1> DEFINE held == {pub[q].frame : q \in {r \in Publishers : pub[r].pc = "store"}}
<1>1. /\ seq' = seq + 1 /\ overtaken' = overtaken \cup held
      /\ UNCHANGED <<latest, view>>
  BY DEF Number
<1>2. /\ pub'[p].frame = seq'
      /\ \A q \in Publishers : q # p => pub'[q] = pub[q]
  BY <1>1 DEF Number
<1>3. seq \in Nat /\ \A q \in Publishers : pub[q].pc = "store" => pub[q].frame \in 1..seq
  BY DEF OrderInv
<1>4. held \in SUBSET (1..seq)
  BY <1>3
<1>5. Feed!Offer
  BY <1>1, <1>4 DEF Feed!Offer
<1>6. OrderInv'
  <2>1. \A q \in Publishers : pub'[q].pc = "store" =>
          pub'[q].frame \in 1..seq' /\ pub'[q].frame \in {seq'} \cup overtaken'
    <3>1. ASSUME NEW q \in Publishers, pub'[q].pc = "store", q # p
          PROVE  pub'[q].frame \in 1..seq' /\ pub'[q].frame \in {seq'} \cup overtaken'
      <4>1. pub'[q] = pub[q] /\ pub[q].frame \in held
        BY <1>2, <3>1
      <4> QED BY <1>1, <1>3, <3>1, <4>1
    <3>2. pub'[p].frame \in 1..seq' /\ pub'[p].frame \in {seq'}
      BY <1>1, <1>2, <1>3
    <3> QED BY <3>1, <3>2
  <2>2. \A v \in Viewers : latest' \notin overtaken' \cup {NoFrame} => latest \notin overtaken \cup {NoFrame}
    BY <1>1
  <2> QED BY <1>1, <1>3, <2>1, <2>2 DEF OrderInv
<1> QED BY <1>5, <1>6

LEMMA OrderStep ==
    ASSUME TypeOK, OrderInv, [Next]_vars
    PROVE  OrderInv' /\ [Feed!Next]_(Feed!vars)
<1> DEFINE Ordered == [Feed!Next]_(Feed!vars)
<1> SUFFICES OrderInv' /\ Ordered
  OBVIOUS
<1>0. ASSUME SameView, seq' = seq, overtaken' = overtaken PROVE Ordered
  BY <1>0, Unseen
<1> HIDE DEF Ordered
<1> USE HubAssumption DEF TypeOK, PubPc, ViewPc, NoFrame, OrderInv
<1>1. ASSUME NEW p \in Publishers, Publish(p)
      PROVE  OrderInv' /\ Ordered
  <2>1. CASE Number(p)
    BY <2>1, NumberStep DEF Ordered, Feed!Next
  <2>2. CASE Store(p)
    <3>1. /\ latest' = pub[p].frame /\ pub[p].pc = "store"
          /\ pub' = [pub EXCEPT ![p].pc = "list"]
          /\ UNCHANGED <<seq, view, overtaken>>
      BY <2>2 DEF Store
    <3>2. Ordered
      BY <3>1, <1>0 DEF SameView
    <3> QED BY <3>1, <3>2
  <2>3. CASE ListLocks(p)
    BY <2>3, <1>0 DEF ListLocks, SameView
  <2>4. CASE Published(p)
    BY <2>4, <1>0 DEF Published, SameView
  <2>5. ASSUME NEW v \in Viewers, Notify(p, v)
        PROVE  OrderInv' /\ Ordered
    BY <2>5, <1>0 DEF Notify, SameView
  <2> QED BY <1>1, <2>1, <2>2, <2>3, <2>4, <2>5 DEF Publish
<1>2. CASE Remove
  BY <1>2, <1>0 DEF Remove, SameView
<1>3. ASSUME NEW v \in Viewers, Await(v)
      PROVE  OrderInv' /\ Ordered
  <2>0. ASSUME Deliver(v), view[v].pc # "gone", UNCHANGED <<seq, latest, overtaken>>,
               \A q \in Publishers : pub'[q].pc = pub[q].pc /\ pub'[q].frame = pub[q].frame
        PROVE  OrderInv' /\ Ordered
    <3>1. Ordered
      BY <2>0, DeliverStep DEF Ordered
    <3>2. OrderInv'
      BY <2>0 DEF Deliver
    <3> QED BY <3>1, <3>2
  <2>a. ASSUME NEW there \in ViewPc, there # "gone", view[v].pc # "gone", Go(v, there),
               UNCHANGED <<seq, latest, overtaken>>,
               \A q \in Publishers : pub'[q].pc = pub[q].pc /\ pub'[q].frame = pub[q].frame
        PROVE  OrderInv' /\ Ordered
    <3>1. \A w \in Viewers : view'[w].after = view[w].after /\ view'[w].again = view[w].again
      BY <2>a DEF Go
    <3>2. SameView
      BY <2>a, <3>1 DEF Go, SameView
    <3>3. OrderInv'
      BY <2>a, <3>1
    <3> QED BY <2>a, <3>2, <3>3, <1>0
  <2> HIDE DEF OrderInv
  <2>1. CASE Look(v)
    BY <2>1, <2>0, <2>a DEF Look
  <2>2. CASE Enlist(v)
    BY <2>2, <2>a DEF Enlist
  <2>3. CASE Recheck(v)
    <3>1. \A q \in Publishers : pub'[q].pc = pub[q].pc /\ pub'[q].frame = pub[q].frame
      BY <2>3 DEF Recheck, DropLock
    <3> QED BY <2>3, <3>1, <2>0, <2>a DEF Recheck
  <2>4. CASE Wait(v) \/ Timeout(v)
    BY <2>4, <2>a DEF Wait, Timeout
  <2>5. CASE Return(v)
    <3>1. \A q \in Publishers : pub'[q].pc = pub[q].pc /\ pub'[q].frame = pub[q].frame
      BY <2>5 DEF Return, DropLock
    <3> QED BY <2>5, <3>1, <2>0, <2>a DEF Return
  <2>6. CASE LastLook(v)
    BY <2>6, <2>0 DEF LastLook
  <2> QED BY <1>3, <2>1, <2>2, <2>3, <2>4, <2>5, <2>6 DEF Await
<1>4. ASSUME NEW v \in Viewers, Reconnect(v)
      PROVE  OrderInv' /\ Ordered
  <2>1. /\ view' = [view EXCEPT ![v].pc = "look"] /\ view[v].pc = "gone"
        /\ UNCHANGED <<seq, latest, pub, overtaken>>
    BY <1>4 DEF Reconnect, Go
  <2>2. /\ [w \in Viewers |-> view'[w].after] = [w \in Viewers |-> view[w].after]
        /\ [w \in Viewers |-> view'[w].again] = [w \in Viewers |-> view[w].again]
    BY <2>1
  <2>3. {w \in Viewers : view'[w].pc # "gone"} = {w \in Viewers : view[w].pc # "gone"} \cup {v}
    BY <2>1
  <2>4. Ordered
    BY <2>1, <2>2, <2>3 DEF Ordered, Feed!Next, Feed!Join
  <2>5. OrderInv'
    BY <2>1
  <2> QED BY <2>4, <2>5
<1>5. CASE UNCHANGED vars
  BY <1>5, <1>0 DEF vars, SameView
<1> QED BY <1>1, <1>2, <1>3, <1>4, <1>5 DEF Next

(* With any number of camera threads, the clients of a stream get newer and *)
(* newer frames, maybe the same again, and an older one only if publishes   *)
(* overlapped, across closing and reopening a camera (streamMjpeg).         *)
THEOREM InOrder == Spec => FramesInOrder
<1>1. Init => OrderInv /\ Feed!Init
  BY HubAssumption DEF Init, OrderInv, NoFrame, Feed!Init
<1>2. TypeOK /\ OrderInv /\ [Next]_vars => OrderInv'
  BY OrderStep
<1>3. TypeOK /\ OrderInv /\ [Next]_vars => [Feed!Next]_(Feed!vars)
  BY OrderStep
<1> QED BY <1>1, <1>2, <1>3, TypeCorrect, PTL DEF Spec, FramesInOrder, Feed!Spec
=============================================================================
