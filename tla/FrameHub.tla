------------------------------ MODULE FrameHub ------------------------------
(***************************************************************************)
(* One stream of the phone's frame hub (android .../net/FrameHub.kt) and   *)
(* the MJPEG handlers that wait on it (HttpBridgeServer.streamMjpeg).      *)
(* A publisher numbers a frame, stores it and then notifies the locks it   *)
(* finds in the waiters list; a viewer looks, enlists its lock, looks      *)
(* again while holding the lock, and waits.  A stream may have several     *)
(* publishers: every UVC camera publishes to uvc/first as well.            *)
(***************************************************************************)
EXTENDS Naturals

CONSTANTS
    Viewers,    \* HTTP threads streaming this stream
    Publishers, \* camera threads publishing to it
    MaxSeq      \* frames published in all, for model checking

ASSUME HubAssumption == MaxSeq \in Nat

NoFrame == 0    \* latest[stream] = null; sequence numbers start at 1

VARIABLES
    seq,        \* the hub's counter
    latest,     \* sequence number of the stored frame, or NoFrame
    waiters,    \* viewers whose lock is in the list
    pub,        \* pub[p]: step, the frame in hand, the locks still to notify
    view,       \* view[v]: step, the number sent last, and whether it was
                \* sent more than once
    overtaken   \* history: frames numbered but not stored when another was numbered

vars == <<seq, latest, waiters, pub, view, overtaken>>

PubPc  == {"idle", "store", "list", "notify"}
ViewPc == {"look", "enlist", "recheck", "checked", "waiting", "woken", "empty", "gone"}

Init ==
    /\ seq = 0 /\ latest = NoFrame /\ waiters = {}
    /\ pub = [p \in Publishers |-> [pc |-> "idle", frame |-> NoFrame, todo |-> {}]]
    /\ view = [v \in Viewers |-> [pc |-> "look", after |-> 0, again |-> FALSE]]
    /\ overtaken = {}

Go(v, where) == view' = [view EXCEPT ![v].pc = where]

(* The handler writes the frame it got, be it the one before or an older    *)
(* one, and asks for a newer one; without a frame (the camera was closed)   *)
(* it ends.                                                                 *)
Deliver(v) ==
    view' = [view EXCEPT ![v] =
               IF latest = NoFrame
               THEN [pc |-> "gone", after |-> 0, again |-> FALSE]
               ELSE [pc |-> "look", after |-> latest, again |-> latest = view[v].after]]

(* Every wait has a lock of its own: a publisher that still holds the one   *)
(* dropped here notifies it in vain, so it leaves the locks to notify too.  *)
DropLock(v) ==
    /\ waiters' = waiters \ {v}
    /\ pub' = [p \in Publishers |-> [pub[p] EXCEPT !.todo = @ \ {v}]]

-----------------------------------------------------------------------------
(* Faulty variants of the actions below.                                    *)

\* the second look under the lock is left out
Recheck_Skipped(v) ==
    /\ view[v].pc = "recheck"
    /\ Go(v, "checked")
    /\ UNCHANGED <<seq, latest, waiters, pub, overtaken>>

\* the counter belongs to the stream and restarts with the camera
Remove_RestartsSeq ==
    /\ latest' = NoFrame
    /\ seq' = 0
    /\ UNCHANGED <<waiters, pub, view, overtaken>>

\* the frame takes a number of its own instead of the counter's
Number_Twice(p) ==
    /\ pub[p].pc = "idle" /\ seq < MaxSeq
    /\ seq' = seq + 1
    /\ pub' = [pub EXCEPT ![p].pc = "store", ![p].frame = seq + 2]
    /\ overtaken' = overtaken \cup {pub[q].frame : q \in {r \in Publishers : pub[r].pc = "store"}}
    /\ UNCHANGED <<latest, waiters, view>>

-----------------------------------------------------------------------------
(* publish                                                                  *)

Number(p) ==
    /\ pub[p].pc = "idle" /\ seq < MaxSeq
    /\ seq' = seq + 1
    /\ pub' = [pub EXCEPT ![p].pc = "store", ![p].frame = seq + 1]
    /\ overtaken' = overtaken \cup {pub[q].frame : q \in {r \in Publishers : pub[r].pc = "store"}}
    /\ UNCHANGED <<latest, waiters, view>>

Store(p) ==
    /\ pub[p].pc = "store"
    /\ latest' = pub[p].frame
    /\ pub' = [pub EXCEPT ![p].pc = "list"]
    /\ UNCHANGED <<seq, waiters, view, overtaken>>

(* Iterating a CopyOnWriteArrayList visits the locks it held at the start.  *)
ListLocks(p) ==
    /\ pub[p].pc = "list"
    /\ pub' = [pub EXCEPT ![p].pc = "notify", ![p].todo = waiters]
    /\ UNCHANGED <<seq, latest, waiters, view, overtaken>>

(* synchronized(lock): not while the viewer holds its lock.                 *)
Notify(p, v) ==
    /\ pub[p].pc = "notify" /\ v \in pub[p].todo
    /\ view[v].pc # "checked"
    /\ pub' = [pub EXCEPT ![p].todo = @ \ {v}]
    /\ view' = IF view[v].pc = "waiting" THEN [view EXCEPT ![v].pc = "woken"] ELSE view
    /\ UNCHANGED <<seq, latest, waiters, overtaken>>

Published(p) ==
    /\ pub[p].pc = "notify" /\ pub[p].todo = {}
    /\ pub' = [pub EXCEPT ![p].pc = "idle", ![p].frame = NoFrame]
    /\ UNCHANGED <<seq, latest, waiters, view, overtaken>>

Publish(p) == Number(p) \/ Store(p) \/ ListLocks(p) \/ Published(p) \/ \E v \in Viewers : Notify(p, v)

(* The camera was closed: the stored frame goes, the counter stays.         *)
Remove ==
    /\ latest' = NoFrame
    /\ UNCHANGED <<seq, waiters, pub, view, overtaken>>

-----------------------------------------------------------------------------
(* awaitNext, called in a loop by streamMjpeg; its wait for a first frame   *)
(* before the header is taken as the first turn of that loop.               *)

Look(v) ==
    /\ view[v].pc = "look"
    /\ IF latest > view[v].after THEN Deliver(v) ELSE Go(v, "enlist")
    /\ UNCHANGED <<seq, latest, waiters, pub, overtaken>>

Enlist(v) ==
    /\ view[v].pc = "enlist"
    /\ waiters' = waiters \cup {v}
    /\ Go(v, "recheck")
    /\ UNCHANGED <<seq, latest, pub, overtaken>>

Recheck(v) ==
    /\ view[v].pc = "recheck"
    /\ IF latest > view[v].after
       THEN Deliver(v) /\ DropLock(v)
       ELSE Go(v, "checked") /\ UNCHANGED <<waiters, pub>>
    /\ UNCHANGED <<seq, latest, overtaken>>

(* wait() releases the lock.                                                *)
Wait(v) ==
    /\ view[v].pc = "checked"
    /\ Go(v, "waiting")
    /\ UNCHANGED <<seq, latest, waiters, pub, overtaken>>

Timeout(v) ==
    /\ view[v].pc = "waiting"
    /\ Go(v, "woken")
    /\ UNCHANGED <<seq, latest, waiters, pub, overtaken>>

(* After any wake-up awaitNext returns the stored frame, newer or not. When *)
(* there is none the handler looks once more, at a frame that may have come *)
(* since, before it gives up.                                               *)
Return(v) ==
    /\ view[v].pc = "woken"
    /\ IF latest = NoFrame THEN Go(v, "empty") ELSE Deliver(v)
    /\ DropLock(v)
    /\ UNCHANGED <<seq, latest, overtaken>>

LastLook(v) ==
    /\ view[v].pc = "empty"
    /\ Deliver(v)
    /\ UNCHANGED <<seq, latest, waiters, pub, overtaken>>

(* A client connects again after its stream ended.                          *)
Reconnect(v) ==
    /\ view[v].pc = "gone"
    /\ Go(v, "look")
    /\ UNCHANGED <<seq, latest, waiters, pub, overtaken>>

Await(v) == Look(v) \/ Enlist(v) \/ Recheck(v) \/ Wait(v) \/ Timeout(v)
            \/ Return(v) \/ LastLook(v)

Next ==
    \/ \E p \in Publishers : Publish(p)
    \/ Remove
    \/ \E v \in Viewers : Await(v) \/ Reconnect(v)

(* Publishers finish the frame they have begun, and a running thread runs;  *)
(* no new frame has to come and no wait has to time out.                    *)
Fairness ==
    /\ \A p \in Publishers : WF_vars(pub[p].pc # "idle" /\ Publish(p))
    /\ \A v \in Viewers : WF_vars(view[v].pc # "waiting" /\ Await(v))

Spec == Init /\ [][Next]_vars /\ Fairness

-----------------------------------------------------------------------------
TypeOK ==
    /\ seq \in 0..MaxSeq /\ latest \in 0..MaxSeq
    /\ waiters \in SUBSET Viewers
    /\ pub \in [Publishers -> [pc : PubPc, frame : 0..MaxSeq, todo : SUBSET Viewers]]
    /\ view \in [Viewers -> [pc : ViewPc, after : 0..MaxSeq, again : BOOLEAN]]
    /\ overtaken \in SUBSET (0..MaxSeq)

WillNotify(v) ==
    \E p \in Publishers :
      \/ pub[p].pc = "list"
      \/ pub[p].pc = "notify" /\ v \in pub[p].todo

(* A lock is in the list exactly while its viewer is between enlisting and  *)
(* the finally block (awaitNext): the list of a stream nobody waits on is   *)
(* empty, and a viewer that waits can be found.                             *)
LocksMatchWaits ==
    /\ waiters = {v \in Viewers : view[v].pc \in {"recheck", "checked", "waiting", "woken"}}
    /\ \A p \in Publishers : pub[p].todo \subseteq waiters

(* No lost wake-up (FrameHub.publish, awaitNext): a viewer that waits, or   *)
(* is about to, while a newer frame is stored, is still going to be         *)
(* notified; the frame does not wait for the next one or for the timeout.   *)
NoLostWakeup ==
    \A v \in Viewers :
      view[v].pc \in {"checked", "waiting"} /\ latest > view[v].after => WillNotify(v)

(* A client of a stream gets newer and newer frames until its stream ends   *)
(* (streamMjpeg, awaitNext), even when the camera is closed and reopened    *)
(* while it watches.  It may get the frame it has again, when its wait ends *)
(* without a newer one, and is taken back only to a frame that was          *)
(* overtaken: two cameras were publishing to the stream at once.            *)
Feed == INSTANCE FrameFeed WITH
    Clients <- Viewers, offered <- seq,
    joined <- {v \in Viewers : view[v].pc # "gone"},
    taken <- [v \in Viewers |-> view[v].after],
    again <- [v \in Viewers |-> view[v].again]
FramesInOrder == Feed!Spec
=============================================================================
