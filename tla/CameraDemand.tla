---------------------------- MODULE CameraDemand ----------------------------
(***************************************************************************)
(* When the phone's USB camera runs: HTTP handlers count the viewers of a  *)
(* stream (FrameHub.addViewer, removeViewer), the first and the last of    *)
(* them post a message to the main thread (BridgeService.                  *)
(* deviceDemandListener), and the main thread opens the camera at once and *)
(* closes it after an idle delay. An open goes from the main thread to an  *)
(* executor, back to the main thread and on to the camera library, whose   *)
(* answer the executor awaits before it takes back the mark that an open   *)
(* is under way. One attached camera with its permission granted; Streams  *)
(* are the names under which it can be asked for.                          *)
(***************************************************************************)
EXTENDS Integers, Sequences, FiniteSets

CONSTANTS
    Streams,     \* "uvc/<id>" and "uvc/first"
    Clients,     \* HTTP handler threads
    IdleTicks,   \* IDLE_CLOSE_MS, in ticks
    AwaitTicks,  \* how long the executor waits for the library, in ticks
    AnswerTicks, \* the longest the library takes to answer, in ticks
    First,       \* "uvc/first", whose frame outlives a close
    MaxPending   \* messages, answers due and tasks replaced before a client
                 \* has to wait with connecting, for model checking

ASSUME DemandAssumption ==
    /\ AwaitTicks \in Nat /\ AnswerTicks \in Nat /\ IdleTicks \in Nat
    /\ AnswerTicks < IdleTicks
    /\ MaxPending \in Nat \ {0} /\ First \in Streams /\ IsFiniteSet(Clients)

Off == -1    \* no timer

VARIABLES
    viewers,    \* the hub's counter of each stream
    client,     \* step of each handler thread and the stream it serves
    mainQ,      \* demand messages posted to the main thread
    closeTasks, \* ticks left of the close task kept for each stream, or Off
    orphans,    \* close tasks still scheduled that the map no longer holds
    main,       \* what the main thread is doing: idle, checking, closing
    opened,     \* the camera runs
    ran,        \* it has run before, and uvc/first keeps a frame
    opener,     \* the open the executor has in hand: not "idle" means marked
                \* as connecting, and the ticks its wait has left
    answers,    \* ticks left of the library for each openCamera, in order
    spoilt      \* history: the last open failed, or the camera was closed
                \* while it still was marked

clientVars == <<viewers, client>>
taskVars   == <<closeTasks, orphans>>
camVars    == <<opened, ran, opener, answers, spoilt>>
vars == <<clientVars, mainQ, taskVars, main, camVars>>

Steps    == {"away", "on", "viewing", "off", "leaked"}
Message  == [stream : Streams, active : BOOLEAN]
MainIdle == [pc |-> "idle", left |-> {}]
NoOpen   == [pc |-> "idle", left |-> Off]

(* A handler that serves nobody; its stream means nothing.                  *)
Away == [pc |-> "away", stream |-> First]

Init ==
    /\ viewers = [s \in Streams |-> 0]
    /\ client = [c \in Clients |-> Away]
    /\ mainQ = << >>
    /\ closeTasks = [s \in Streams |-> Off] /\ orphans = {}
    /\ main = MainIdle
    /\ opened = FALSE /\ ran = FALSE
    /\ opener = NoOpen /\ answers = << >> /\ spoilt = FALSE

HasViewer(s) == viewers[s] > 0
NoViewer     == \A s \in Streams : ~HasViewer(s)

To(c, where) == client' = [client EXCEPT ![c] = IF where = "away" THEN Away
                                                ELSE [pc |-> where, stream |-> @.stream]]

-----------------------------------------------------------------------------
(* Faulty variants of the actions below.                                    *)

\* the viewer is removed in the catch block and again in finally
RemoveViewer_Twice(c) ==
    LET s == client[c].stream IN
    /\ client[c].pc = "viewing"
    /\ viewers' = [viewers EXCEPT ![s] = @ - 2]
    /\ To(c, IF viewers'[s] = 0 THEN "off" ELSE "away")
    /\ UNCHANGED <<mainQ, taskVars, main, camVars>>

\* the count is compared before it goes down
RemoveViewer_Compares(c) ==
    LET s == client[c].stream IN
    /\ client[c].pc = "viewing"
    /\ viewers' = [viewers EXCEPT ![s] = @ - 1]
    /\ To(c, IF viewers[s] = 0 THEN "off" ELSE "away")
    /\ UNCHANGED <<mainQ, taskVars, main, camVars>>

\* only one of the camera's names is looked at
CheckName_One(s) ==
    /\ main.pc = "check" /\ s \in main.left
    /\ main' = IF HasViewer(s) THEN MainIdle ELSE [pc |-> "close", left |-> {}]
    /\ UNCHANGED <<clientVars, mainQ, taskVars, camVars>>

-----------------------------------------------------------------------------
(* HTTP handlers: streamMjpeg and writeSnapshot.                            *)

AddViewer(c, s) ==
    /\ client[c].pc = "away" 
    /\ Len(mainQ) + Len(answers) + Cardinality(orphans) < MaxPending
    /\ viewers' = [viewers EXCEPT ![s] = @ + 1]
    /\ client' = [client EXCEPT ![c] =
                    [pc |-> IF viewers[s] = 0 THEN "on" ELSE "viewing", stream |-> s]]
    /\ UNCHANGED <<mainQ, taskVars, main, camVars>>

Post(c, active) == mainQ' = Append(mainQ, [stream |-> client[c].stream, active |-> active])

NotifyOn(c) ==
    /\ client[c].pc = "on"
    /\ Post(c, TRUE)
    /\ To(c, "viewing")
    /\ UNCHANGED <<viewers, taskVars, main, camVars>>

(* There is a frame, and writing the header fails, outside of the try       *)
(* whose finally block removes the viewer.                                  *)
HeaderFails(c) ==
    /\ client[c].pc = "viewing"
    /\ opened \/ (ran /\ client[c].stream = First)
    /\ To(c, "leaked")
    /\ UNCHANGED <<viewers, mainQ, taskVars, main, camVars>>

(* No frame before the timeout, the snapshot is done, or the stream ends.   *)
(* The counter never has to be kept from going below zero.                  *)
RemoveViewer(c) ==
    LET s == client[c].stream IN
    /\ client[c].pc = "viewing"
    /\ viewers' = [viewers EXCEPT ![s] = @ - 1]
    /\ To(c, IF viewers[s] = 1 THEN "off" ELSE "away")
    /\ UNCHANGED <<mainQ, taskVars, main, camVars>>

NotifyOff(c) ==
    /\ client[c].pc = "off"
    /\ Post(c, FALSE)
    /\ To(c, "away")
    /\ UNCHANGED <<viewers, taskVars, main, camVars>>

-----------------------------------------------------------------------------
(* The main thread                                                          *)

Receive(active) ==
    /\ main = MainIdle /\ mainQ # << >> /\ Head(mainQ).active = active
    /\ mainQ' = Tail(mainQ)
    /\ UNCHANGED <<clientVars, main>>

(* openPreview starts an open unless the camera runs or is marked as        *)
(* connecting.                                                              *)
HandleOn ==
    /\ Receive(TRUE)
    /\ closeTasks' = [closeTasks EXCEPT ![Head(mainQ).stream] = Off]
    /\ IF opened \/ opener.pc # "idle"
       THEN UNCHANGED <<opener, spoilt>>
       ELSE opener' = [pc |-> "posted", left |-> AwaitTicks] /\ spoilt' = FALSE
    /\ UNCHANGED <<orphans, opened, ran, answers>>

(* The new task takes the old one's place in the map; the old one is not    *)
(* cancelled.                                                               *)
HandleOff ==
    LET s == Head(mainQ).stream IN
    /\ Receive(FALSE)
    /\ closeTasks' = [closeTasks EXCEPT ![s] = IdleTicks]
    /\ orphans' = IF closeTasks[s] = Off THEN orphans
                  ELSE orphans \cup {[stream |-> s, left |-> closeTasks[s]]}
    /\ UNCHANGED camVars

(* A close task runs: a viewer of its own stream stops it, else closeFor-   *)
(* Stream looks at every name of the camera.                                *)
Run(s) == main' = IF HasViewer(s) THEN MainIdle ELSE [pc |-> "check", left |-> Streams]

FireTask(s) ==
    /\ main = MainIdle /\ closeTasks[s] = 0
    /\ closeTasks' = [closeTasks EXCEPT ![s] = Off]
    /\ Run(s)
    /\ UNCHANGED <<clientVars, mainQ, orphans, camVars>>

FireOrphan(o) ==
    /\ main = MainIdle /\ o.left = 0
    /\ orphans' = orphans \ {o}
    /\ Run(o.stream)
    /\ UNCHANGED <<clientVars, mainQ, closeTasks, camVars>>

CheckName(s) ==
    /\ main.pc = "check" /\ s \in main.left
    /\ main' = IF HasViewer(s) THEN MainIdle
               ELSE [pc |-> IF main.left = {s} THEN "close" ELSE "check",
                     left |-> main.left \ {s}]
    /\ UNCHANGED <<clientVars, mainQ, taskVars, camVars>>

(* closePreview closes a camera that runs, and only that.                   *)
ClosePreview ==
    /\ main.pc = "close"
    /\ main' = MainIdle
    /\ opened' = FALSE
    /\ spoilt' = (spoilt \/ (opened /\ opener.pc # "idle"))
    /\ UNCHANGED <<clientVars, mainQ, taskVars, ran, opener, answers>>

(* openInternal, in its turn among the messages: openCamera is called, or   *)
(* throws.                                                                  *)
OpenInternal ==
    /\ main = MainIdle /\ opener.pc = "posted"
    /\ \/ /\ opener' = [opener EXCEPT !.pc = "await"]
          /\ answers' = Append(answers, AnswerTicks)
          /\ UNCHANGED spoilt
       \/ opener' = [opener EXCEPT !.pc = "done"] /\ spoilt' = TRUE /\ UNCHANGED answers
    /\ UNCHANGED <<clientVars, mainQ, taskVars, main, opened, ran>>

-----------------------------------------------------------------------------
(* The library answers, at last, or never does. Whatever open an answer is  *)
(* for, the callback set last gets it. A failed open is not tried again:    *)
(* the next first viewer asks for it.                                       *)
Settle == opener' = IF opener.pc = "await" THEN [opener EXCEPT !.pc = "done"] ELSE opener

Answer ==
    /\ answers # << >> /\ answers' = Tail(answers)
    /\ \/ opened' = TRUE /\ ran' = TRUE /\ Settle /\ UNCHANGED spoilt
       \/ opened' = FALSE /\ spoilt' = TRUE /\ Settle /\ UNCHANGED ran
       \/ spoilt' = TRUE /\ UNCHANGED <<opened, ran, opener>>
    /\ UNCHANGED <<clientVars, mainQ, taskVars, main>>

(* The executor has waited for 8 s.                                         *)
AwaitTimesOut ==
    /\ opener.pc = "await" /\ opener.left = 0
    /\ opener' = [opener EXCEPT !.pc = "done"]
    /\ UNCHANGED <<clientVars, mainQ, taskVars, main, opened, ran, answers, spoilt>>

(* It takes the mark back, whatever has happened to the camera meanwhile.   *)
RemoveMark ==
    /\ opener.pc = "done"
    /\ opener' = NoOpen
    /\ UNCHANGED <<clientVars, mainQ, taskVars, main, opened, ran, answers, spoilt>>

Executor == AwaitTimesOut \/ RemoveMark

Down(n) == IF n > 0 THEN n - 1 ELSE n

(* A tick is long: the messages of a demand change are handled, and due     *)
(* tasks run, before the next one.                                          *)
AllHandled == mainQ = << >> /\ \A c \in Clients : client[c].pc \notin {"on", "off"}

Settled ==
    /\ AllHandled /\ main = MainIdle
    /\ opener.pc \in {"idle", "await"} /\ opener.left # 0
    /\ \A i \in DOMAIN answers : answers[i] # 0
    /\ \A s \in Streams : closeTasks[s] # 0
    /\ \A o \in orphans : o.left # 0

Tick ==
    /\ Settled
    /\ opener' = [opener EXCEPT !.left = Down(@)]
    /\ answers' = [i \in DOMAIN answers |-> Down(answers[i])]
    /\ closeTasks' = [s \in Streams |-> Down(closeTasks[s])]
    /\ orphans' = {[stream |-> o.stream, left |-> Down(o.left)] : o \in orphans}
    /\ UNCHANGED <<clientVars, mainQ, main, opened, ran, spoilt>>

Handler(c) == NotifyOn(c) \/ NotifyOff(c)

MainThread ==
    \/ HandleOn \/ HandleOff \/ OpenInternal \/ ClosePreview
    \/ \E s \in Streams : FireTask(s) \/ CheckName(s)
    \/ \E o \in orphans : FireOrphan(o)

Next ==
    \/ \E c \in Clients : \/ Handler(c) \/ HeaderFails(c) \/ RemoveViewer(c)
                         \/ \E s \in Streams : AddViewer(c, s)
    \/ MainThread \/ Executor \/ Answer \/ Tick

(* Threads run, opens are answered and time passes; nobody has to connect, and a     *)
(* viewer may watch for ever.                                               *)
Fairness ==
    /\ WF_vars(MainThread) /\ WF_vars(Executor) /\ WF_vars(Answer) /\ WF_vars(Tick)
    /\ \A c \in Clients : WF_vars(Handler(c))

Spec == Init /\ [][Next]_vars /\ Fairness

-----------------------------------------------------------------------------
Timer == Off..IdleTicks

TypeOK ==
    /\ viewers \in [Streams -> Nat]
    /\ client \in [Clients -> [pc : Steps, stream : Streams]]
    /\ mainQ \in Seq(Message)
    /\ closeTasks \in [Streams -> Timer]
    /\ orphans \subseteq [stream : Streams, left : 0..IdleTicks]
    /\ main \in [pc : {"idle", "check", "close"}, left : SUBSET Streams]
    /\ opened \in BOOLEAN /\ ran \in BOOLEAN /\ spoilt \in BOOLEAN
    /\ opener \in [pc : {"idle", "posted", "await", "done"}, left : Off..AwaitTicks]
    /\ answers \in Seq(0..AnswerTicks)

Posted(s, active) == \E i \in DOMAIN mainQ : mainQ[i] = [stream |-> s, active |-> active]

OnPending(s) ==
    Posted(s, TRUE) \/ \E c \in Clients : client[c].pc = "on" /\ client[c].stream = s

(* When somebody watches, the camera runs, is marked as being opened, the   *)
(* library still has to answer, or a message that opens it is on its way -  *)
(* unless the last open failed, or the camera was closed while that open    *)
(* was still marked, which makes openPreview ignore a new viewer. A close   *)
(* decided on an old count never leaves a viewer behind otherwise           *)
(* (deviceDemandListener, closeForStream, openPreview).                     *)
WantedIsServed ==
    (\E s \in Streams : HasViewer(s)) /\ ~spoilt =>
        \/ opened \/ opener.pc # "idle" \/ answers # << >>
        \/ \E s \in Streams : OnPending(s)

(* Once every client has left for good, the camera is closed.               *)
IdleCameraCloses == <>[](\A c \in Clients : client[c].pc = "away") => <>[](~opened)

=============================================================================
