------------------------- MODULE CameraDemandProofs -------------------------
(***************************************************************************)
(* A watched camera is served, for any names of the camera, any number of  *)
(* clients and any delays, unless the last open failed or was cut short.   *)
(***************************************************************************)
EXTENDS CameraDemand, SequenceTheorems, FiniteSetTheorems, TLAPS

(* Counters are taken as integers first; that they stay above zero follows  *)
(* from what they count, see Counts below.                                  *)
Opener == [pc : {"idle", "posted", "await", "done"}, left : Off..AwaitTicks]

TypeInv ==
    /\ viewers \in [Streams -> Int]
    /\ client \in [Clients -> [pc : Steps, stream : Streams]]
    /\ mainQ \in Seq(Message)
    /\ main \in [pc : {"idle", "check", "close"}, left : SUBSET Streams]
    /\ opened \in BOOLEAN /\ ran \in BOOLEAN /\ spoilt \in BOOLEAN
    /\ opener \in Opener
    /\ answers \in Seq(0..AnswerTicks)

(* A close under way has already looked at the names outside of main.left:  *)
(* a viewer found there came later and its message is still to be handled.  *)
LateViewersAsk ==
    /\ main.pc = "idle" => main.left = {}
    /\ main.pc = "close" => main.left = {}
    /\ main.pc # "idle" =>
         \A s \in Streams \ main.left : HasViewer(s) => OnPending(s)

(* An open that has reached the library, and still is marked, has opened    *)
(* the camera or has an answer to come.                                     *)
MarkMeansOpening ==
    opener.pc \in {"await", "done"} /\ ~spoilt => opened \/ answers # << >>

IInv == TypeInv /\ LateViewersAsk /\ MarkMeansOpening /\ WantedIsServed

-----------------------------------------------------------------------------
(* What appending and taking the head do to the messages in the queue.      *)
LEMMA AppendKeeps ==
    ASSUME TypeInv, NEW m \in Message, mainQ' = Append(mainQ, m),
           NEW s \in Streams
    PROVE  Posted(s, TRUE)' <=> Posted(s, TRUE) \/ m = [stream |-> s, active |-> TRUE]
<1>1. DOMAIN mainQ' = DOMAIN mainQ \cup {Len(mainQ) + 1}
  BY DEF TypeInv
<1>2. \A i \in DOMAIN mainQ : mainQ'[i] = mainQ[i]
  BY DEF TypeInv
<1>3. mainQ'[Len(mainQ) + 1] = m
  BY DEF TypeInv
<1> QED BY <1>1, <1>2, <1>3 DEF Posted

LEMMA TailKeeps ==
    ASSUME TypeInv, mainQ # << >>, mainQ' = Tail(mainQ), NEW s \in Streams,
           ~Head(mainQ).active, Posted(s, TRUE)
    PROVE  Posted(s, TRUE)'
<1>1. PICK i \in DOMAIN mainQ : mainQ[i] = [stream |-> s, active |-> TRUE]
  BY DEF Posted
<1>2. i # 1
  BY <1>1 DEF TypeInv
<1>3. i - 1 \in DOMAIN mainQ' /\ mainQ'[i - 1] = mainQ[i]
  BY <1>2 DEF TypeInv
<1> QED BY <1>1, <1>3 DEF Posted

-----------------------------------------------------------------------------
LEMMA FunctionIsSeq ==
    ASSUME NEW S, NEW n \in Nat, NEW f \in [1..n -> S]
    PROVE  f \in Seq(S)
<1>1. [1..n -> S] \in {[1..m -> S] : m \in Nat}
  OBVIOUS
<1>2. f \in UNION {[1..m -> S] : m \in Nat}
  BY <1>1, Zenon
<1>3. Seq(S) = UNION {[1..m -> S] : m \in Nat}
  BY SeqDef, Zenon
<1> QED BY <1>2, <1>3, Zenon

LEMMA AwayType == Away \in [pc : Steps, stream : Streams]
  BY DemandAssumption DEF Away, Steps

LEMMA InitType == Init => TypeInv
<1> SUFFICES ASSUME Init
             PROVE  TypeInv
  OBVIOUS
<1> USE DemandAssumption DEF Init, MainIdle, Off, Opener, NoOpen
<1>1. client \in [Clients -> [pc : Steps, stream : Streams]]
  BY AwayType
<1>2. main \in [pc : {"idle", "check", "close"}, left : SUBSET Streams]
  OBVIOUS
<1>3. spoilt \in BOOLEAN /\ opened \in BOOLEAN /\ ran \in BOOLEAN
  BY Zenon
<1>4. opener \in Opener /\ answers \in Seq(0..AnswerTicks) /\ viewers \in [Streams -> Int]
  OBVIOUS
<1>5. mainQ \in Seq(Message)
  OBVIOUS
<1> QED BY <1>1, <1>2, <1>3, <1>4, <1>5 DEF TypeInv

LEMMA TypeStep == TypeInv /\ [Next]_vars => TypeInv'
<1> SUFFICES ASSUME TypeInv, [Next]_vars
             PROVE  TypeInv'
  OBVIOUS
<1> USE DemandAssumption DEF TypeInv, Steps, Off, MainIdle, Message, Opener,
        clientVars, taskVars, camVars
<1>1. ASSUME NEW c \in Clients, Handler(c) \/ HeaderFails(c) \/ RemoveViewer(c)
      PROVE  TypeInv'
  <2>0. ASSUME NEW where \in Steps, To(c, where)
        PROVE  client' \in [Clients -> [pc : Steps, stream : Streams]]
    <3>1. Away \in [pc : Steps, stream : Streams]
      BY AwayType
    <3> QED BY <2>0, <3>1 DEF To
  <2>a. ASSUME NEW active \in BOOLEAN, Post(c, active)
        PROVE  mainQ' \in Seq(Message)
    <3>1. [stream |-> client[c].stream, active |-> active] \in Message
      OBVIOUS
    <3> QED BY <2>a, <3>1 DEF Post
  <2>1. CASE NotifyOn(c)
    BY <2>0, <2>a, <2>1 DEF NotifyOn
  <2>3. CASE HeaderFails(c)
    BY <2>0, <2>3 DEF HeaderFails
  <2>4. CASE RemoveViewer(c)
    <3>1. client' \in [Clients -> [pc : Steps, stream : Streams]]
      BY <2>0, <2>4 DEF RemoveViewer
    <3>2. viewers' \in [Streams -> Int]
      BY <2>4 DEF RemoveViewer
    <3> QED BY <2>4, <3>1, <3>2 DEF RemoveViewer
  <2>5. CASE NotifyOff(c)
    BY <2>0, <2>a, <2>5 DEF NotifyOff
  <2> QED BY <1>1, <2>1, <2>3, <2>4, <2>5 DEF Handler
<1>2. ASSUME NEW c \in Clients, NEW s \in Streams, AddViewer(c, s)
      PROVE  TypeInv'
  BY <1>2 DEF AddViewer
<1>3. CASE MainThread
  <2>0. mainQ # << >> => Tail(mainQ) \in Seq(Message)
    OBVIOUS
  <2>1. CASE HandleOn
    <3>1. opener' \in Opener /\ spoilt' \in BOOLEAN
      <4>1. opener' = opener \/ opener' = [pc |-> "posted", left |-> AwaitTicks]
        BY <2>1 DEF HandleOn
      <4>2. spoilt' \in BOOLEAN
        BY <2>1, Zenon DEF HandleOn
      <4> QED BY <4>1, <4>2
    <3> QED BY <2>0, <2>1, <3>1 DEF HandleOn, Receive
  <2>2. CASE HandleOff
    BY <2>0, <2>2 DEF HandleOff, Receive
  <2>3. CASE ClosePreview
    <3>1. spoilt' \in BOOLEAN /\ opened' \in BOOLEAN
      BY <2>3, Zenon DEF ClosePreview
    <3> QED BY <2>3, <3>1 DEF ClosePreview
  <2>4. ASSUME NEW s \in Streams, FireTask(s)
        PROVE  TypeInv'
    BY <2>4 DEF FireTask, Run
  <2>5. ASSUME NEW s \in Streams, CheckName(s)
        PROVE  TypeInv'
    BY <2>5 DEF CheckName
  <2>6. ASSUME NEW o \in orphans, FireOrphan(o)
        PROVE  TypeInv'
    BY <2>6 DEF FireOrphan, Run
  <2>7. CASE OpenInternal
    <3>0. answers' \in Seq(0..AnswerTicks)
      <4>1. AnswerTicks \in 0..AnswerTicks
        OBVIOUS
      <4>2. answers' = answers \/ answers' = Append(answers, AnswerTicks)
        BY <2>7 DEF OpenInternal
      <4>3. \A S, n : \A t \in Seq(S) : n \in S => Append(t, n) \in Seq(S)
        OBVIOUS
      <4>4. Append(answers, AnswerTicks) \in Seq(0..AnswerTicks)
        BY <4>1, <4>3, Zenon
      <4> QED BY <4>2, <4>4
    <3>1. opener' \in Opener
      <4>1. PICK pc \in {"await", "done"} : opener' = [opener EXCEPT !.pc = pc]
        BY <2>7 DEF OpenInternal
      <4> QED BY <4>1
    <3>2. spoilt' \in BOOLEAN
      BY <2>7, Zenon DEF OpenInternal
    <3> QED BY <2>7, <3>0, <3>1, <3>2 DEF OpenInternal
  <2> QED BY <1>3, <2>1, <2>2, <2>3, <2>4, <2>5, <2>6, <2>7 DEF MainThread
<1>4. CASE Executor \/ Answer
  <2>1. opened' \in BOOLEAN /\ spoilt' \in BOOLEAN /\ ran' \in BOOLEAN
    BY <1>4, Zenon DEF Executor, AwaitTimesOut, RemoveMark, Answer
  <2>2. opener' \in Opener
    BY <1>4 DEF Executor, AwaitTimesOut, RemoveMark, Answer, Settle, NoOpen
  <2>3. answers' \in Seq(0..AnswerTicks)
    <3>1. answers # << >> => Tail(answers) \in Seq(0..AnswerTicks)
      OBVIOUS
    <3> QED BY <1>4, <3>1 DEF Executor, AwaitTimesOut, RemoveMark, Answer
  <2> QED BY <1>4, <2>1, <2>2, <2>3 DEF Executor, AwaitTimesOut, RemoveMark, Answer
<1>5. CASE Tick
  <2>1. opener' \in Opener
    <3>1. Down(opener.left) \in Off..AwaitTicks
      BY DEF Down
    <3>2. opener' = [opener EXCEPT !.left = Down(opener.left)]
      BY <1>5 DEF Tick
    <3> QED BY <3>1, <3>2
  <2>2. answers' \in Seq(0..AnswerTicks)
    <3>1. \A i \in DOMAIN answers : Down(answers[i]) \in 0..AnswerTicks
      BY DEF Down
    <3>2. DOMAIN answers = 1..Len(answers) /\ Len(answers) \in Nat
      OBVIOUS
    <3>3. answers' \in [1..Len(answers) -> 0..AnswerTicks]
      BY <1>5, <3>1, <3>2 DEF Tick
    <3>4. PICK n \in Nat : answers' \in [1..n -> 0..AnswerTicks]
      BY <3>2, <3>3
    <3> QED BY <3>4, FunctionIsSeq
  <2> QED BY <1>5, <2>1, <2>2 DEF Tick
<1>6. CASE UNCHANGED vars
  BY <1>6 DEF vars
<1> QED BY <1>1, <1>2, <1>3, <1>4, <1>5, <1>6 DEF Next

-----------------------------------------------------------------------------
(* While clients move, a request to open stays requested.                   *)
LEMMA ClientKeepsOn ==
    ASSUME TypeInv, NEW c \in Clients, NEW s \in Streams, OnPending(s),
           \/ Handler(c) \/ HeaderFails(c) \/ RemoveViewer(c)
           \/ \E t \in Streams : AddViewer(c, t)
    PROVE  OnPending(s)'
<1> USE DEF TypeInv
<1>1. CASE NotifyOn(c)
  <2>1. [stream |-> client[c].stream, active |-> TRUE] \in Message
    BY DEF Message
  <2>2. Posted(s, TRUE)' <=> Posted(s, TRUE) \/ client[c].stream = s
    BY <1>1, <2>1, AppendKeeps DEF NotifyOn, Post
  <2>3. ASSUME NEW d \in Clients, d # c
        PROVE  client'[d] = client[d]
    BY <1>1, <2>3 DEF NotifyOn, To
  <2> QED BY <2>2, <2>3 DEF OnPending
<1>2. CASE NotifyOff(c)
  <2>1. [stream |-> client[c].stream, active |-> FALSE] \in Message
    BY DEF Message
  <2>2. Posted(s, TRUE)' <=> Posted(s, TRUE)
    BY <1>2, <2>1, AppendKeeps DEF NotifyOff, Post
  <2>3. ASSUME NEW d \in Clients, client[d].pc = "on"
        PROVE  client'[d] = client[d]
    BY <1>2, <2>3 DEF NotifyOff, To
  <2> QED BY <2>2, <2>3 DEF OnPending
<1>3. CASE mainQ' = mainQ /\ client[c].pc # "on"
           /\ \A d \in Clients : d # c => client'[d] = client[d]
  BY <1>3 DEF OnPending, Posted
<1>4. CASE HeaderFails(c) \/ RemoveViewer(c)
  BY <1>3, <1>4 DEF HeaderFails, RemoveViewer, To, Away
<1>5. ASSUME NEW t \in Streams, AddViewer(c, t)
      PROVE  OnPending(s)'
  BY <1>3, <1>5 DEF AddViewer
<1> QED BY <1>1, <1>2, <1>4, <1>5 DEF Handler

(* A stream gets its first viewer only together with a request to open.     *)
LEMMA NewViewerAsks ==
    ASSUME TypeInv, NEW c \in Clients, NEW s \in Streams, HasViewer(s)',
           \/ Handler(c) \/ HeaderFails(c) \/ RemoveViewer(c)
           \/ \E t \in Streams : AddViewer(c, t)
    PROVE  HasViewer(s) \/ OnPending(s)'
<1> USE DEF TypeInv, HasViewer
<1>1. CASE RemoveViewer(c)
  BY <1>1 DEF RemoveViewer
<1>2. ASSUME NEW t \in Streams, AddViewer(c, t), ~HasViewer(s)
      PROVE  OnPending(s)'
  <2>1. t = s
    BY <1>2 DEF AddViewer
  <2>2. viewers[s] = 0
    <3>1. viewers'[s] = viewers[s] + 1
      BY <1>2, <2>1 DEF AddViewer
    <3> QED BY <1>2, <3>1
  <2>3. client'[c] = [pc |-> "on", stream |-> s]
    BY <1>2, <2>1, <2>2 DEF AddViewer
  <2>4. client'[c].pc = "on" /\ client'[c].stream = s
    BY <2>3
  <2> QED BY <2>4 DEF OnPending
<1>3. CASE viewers' = viewers
  BY <1>3
<1> QED BY <1>1, <1>2, <1>3 DEF Handler, NotifyOn, NotifyOff, HeaderFails

-----------------------------------------------------------------------------
LEMMA ServedStep ==
    ASSUME IInv, [Next]_vars
    PROVE  LateViewersAsk' /\ MarkMeansOpening' /\ WantedIsServed'
<1> DEFINE Goal == LateViewersAsk' /\ MarkMeansOpening' /\ WantedIsServed'
<1> SUFFICES Goal
  OBVIOUS
<1> USE DEF IInv
<1>1. ASSUME NEW c \in Clients,
             \/ Handler(c) \/ HeaderFails(c) \/ RemoveViewer(c)
             \/ \E t \in Streams : AddViewer(c, t)
      PROVE  Goal
  <2>1. UNCHANGED <<main, opened, opener, answers, spoilt>>
    BY <1>1 DEF Handler, NotifyOn, HeaderFails, RemoveViewer, NotifyOff, AddViewer, camVars
  <2>2. ASSUME NEW s \in Streams, HasViewer(s)'
        PROVE  HasViewer(s) \/ OnPending(s)'
    BY <1>1, <2>2, NewViewerAsks
  <2>3. ASSUME NEW s \in Streams, OnPending(s)
        PROVE  OnPending(s)'
    BY <1>1, <2>3, ClientKeepsOn
  <2>4. LateViewersAsk'
    BY <2>1, <2>2, <2>3 DEF LateViewersAsk
  <2>5. WantedIsServed' /\ MarkMeansOpening'
    BY <2>1, <2>2, <2>3 DEF WantedIsServed, MarkMeansOpening
  <2> QED BY <2>4, <2>5
<1>2. CASE HandleOn
  <2>1. main' = MainIdle
    BY <1>2 DEF HandleOn, Receive
  <2>2. /\ opened' = opened /\ answers' = answers
        /\ \/ (opened \/ opener.pc # "idle") /\ opener' = opener /\ spoilt' = spoilt
           \/ opener'.pc = "posted"
    BY <1>2 DEF HandleOn
  <2> QED BY <2>1, <2>2 DEF LateViewersAsk, MarkMeansOpening, WantedIsServed, MainIdle
<1>3. CASE HandleOff
  <2>1. main' = MainIdle /\ UNCHANGED <<viewers, opened, opener, answers, spoilt>>
    BY <1>3 DEF HandleOff, Receive, clientVars, camVars
  <2>2. ASSUME NEW s \in Streams, OnPending(s)
        PROVE  OnPending(s)'
    <3>1. mainQ # << >> /\ mainQ' = Tail(mainQ) /\ ~Head(mainQ).active /\ client' = client
      BY <1>3 DEF HandleOff, Receive, clientVars
    <3>2. Posted(s, TRUE) => Posted(s, TRUE)'
      BY <3>1, TailKeeps
    <3> QED BY <2>2, <3>1, <3>2 DEF OnPending
  <2> QED BY <2>1, <2>2 DEF LateViewersAsk, MarkMeansOpening, WantedIsServed, MainIdle, HasViewer
<1>4. CASE ClosePreview
  <2>1. \A s \in Streams : HasViewer(s) => OnPending(s)
    BY <1>4 DEF ClosePreview, LateViewersAsk
  <2>2. main' = MainIdle /\ viewers' = viewers /\ client' = client /\ mainQ' = mainQ
    BY <1>4 DEF ClosePreview, clientVars
  <2>3. \A s \in Streams : (HasViewer(s) <=> HasViewer(s)') /\ (OnPending(s) <=> OnPending(s)')
    BY <2>2 DEF HasViewer, OnPending, Posted
  <2>4. MarkMeansOpening'
    BY <1>4 DEF ClosePreview, MarkMeansOpening
  <2> QED BY <2>1, <2>2, <2>3, <2>4 DEF LateViewersAsk, WantedIsServed, MainIdle
<1>5. ASSUME viewers' = viewers, client' = client, mainQ' = mainQ,
             opened' = opened, spoilt' = spoilt, opener'.pc = opener.pc,
             answers = << >> <=> answers' = << >>,
             \/ main' = main
             \/ main'.pc = "idle" /\ main'.left = {}
             \/ main'.pc = "check" /\ main'.left = Streams
             \/ \E s \in Streams : CheckName(s) /\ ~HasViewer(s)
      PROVE  Goal
  <2>1. \A s \in Streams : (HasViewer(s) <=> HasViewer(s)') /\ (OnPending(s) <=> OnPending(s)')
    BY <1>5 DEF HasViewer, OnPending, Posted
  <2>2. WantedIsServed' /\ MarkMeansOpening'
    BY <1>5, <2>1 DEF WantedIsServed, MarkMeansOpening
  <2>3. ASSUME NEW s \in Streams, CheckName(s), ~HasViewer(s)
        PROVE  LateViewersAsk'
    <3>1. main' = [pc |-> IF main.left = {s} THEN "close" ELSE "check", left |-> main.left \ {s}]
      BY <2>3 DEF CheckName
    <3>2. main.pc = "check" /\ s \in main.left
      BY <2>3 DEF CheckName
    <3> QED BY <2>1, <2>3, <3>1, <3>2 DEF LateViewersAsk
  <2>4. LateViewersAsk'
    BY <1>5, <2>1, <2>3 DEF LateViewersAsk
  <2> QED BY <2>2, <2>4
<1>6. ASSUME NEW s \in Streams, FireTask(s)
      PROVE  Goal
  BY <1>5, <1>6 DEF FireTask, Run, MainIdle, clientVars, camVars
<1>7. ASSUME NEW o \in orphans, FireOrphan(o)
      PROVE  Goal
  BY <1>5, <1>7 DEF FireOrphan, Run, MainIdle, clientVars, camVars
<1>8. ASSUME NEW s \in Streams, CheckName(s)
      PROVE  Goal
  <2>1. CASE HasViewer(s)
    BY <1>5, <1>8, <2>1 DEF CheckName, MainIdle, clientVars, camVars
  <2>2. CASE ~HasViewer(s)
    BY <1>5, <1>8, <2>2 DEF CheckName, clientVars, camVars
  <2> QED BY <2>1, <2>2
<1>9. CASE OpenInternal \/ Answer \/ Executor
  <2>1. viewers' = viewers /\ client' = client /\ mainQ' = mainQ /\ main' = main
    BY <1>9 DEF OpenInternal, Answer, Executor, AwaitTimesOut, RemoveMark, clientVars
  <2>2. \A s \in Streams : (HasViewer(s) <=> HasViewer(s)') /\ (OnPending(s) <=> OnPending(s)')
    BY <2>1 DEF HasViewer, OnPending, Posted
  <2>3. LateViewersAsk'
    BY <2>1, <2>2 DEF LateViewersAsk
  <2>4. CASE OpenInternal
    <3>1. answers' # << >> \/ spoilt'
      BY <2>4, DemandAssumption DEF OpenInternal, TypeInv
    <3> QED BY <2>3, <3>1 DEF MarkMeansOpening, WantedIsServed
  <2>5. CASE Answer
    BY <2>3, <2>5 DEF Answer, MarkMeansOpening, WantedIsServed
  <2>6. CASE AwaitTimesOut
    BY <2>3, <2>6 DEF AwaitTimesOut, TypeInv, Opener, MarkMeansOpening, WantedIsServed
  <2>7. CASE RemoveMark
    BY <2>3, <2>7 DEF RemoveMark, NoOpen, MarkMeansOpening, WantedIsServed
  <2> QED BY <1>9, <2>4, <2>5, <2>6, <2>7 DEF Executor
<1>10. CASE Tick
  <2>1. opener'.pc = opener.pc
    BY <1>10 DEF Tick, TypeInv, Opener
  <2>2. answers = << >> <=> answers' = << >>
    <3>1. DOMAIN answers' = DOMAIN answers
      BY <1>10 DEF Tick
    <3>2. answers' \in Seq(0..AnswerTicks) /\ answers \in Seq(0..AnswerTicks)
      BY TypeStep DEF TypeInv
    <3> QED BY <3>1, <3>2
  <2> QED BY <1>5, <1>10, <2>1, <2>2 DEF Tick, clientVars
<1>11. CASE UNCHANGED vars
  BY <1>5, <1>11 DEF vars, clientVars, camVars
<1> QED
  BY <1>1, <1>2, <1>3, <1>4, <1>6, <1>7, <1>8, <1>9, <1>10, <1>11 DEF Next, MainThread

(* A watched camera runs, is being opened or is about to be, unless the last *)
(* open failed or the camera was closed while it still was marked            *)
(* (deviceDemandListener, closeForStream, openPreview).                     *)
THEOREM ServedHolds == Spec => []WantedIsServed
<1>1. Init => IInv
  <2> SUFFICES ASSUME Init
               PROVE  IInv
    OBVIOUS
  <2> USE DemandAssumption DEF Init, MainIdle, Off
  <2>1. TypeInv
    BY InitType
  <2>2. LateViewersAsk /\ MarkMeansOpening /\ WantedIsServed
    BY DEF LateViewersAsk, MarkMeansOpening, WantedIsServed, HasViewer, NoOpen
  <2> QED BY <2>1, <2>2 DEF IInv
<1>2. IInv /\ [Next]_vars => IInv'
  BY TypeStep, ServedStep DEF IInv
<1>3. IInv => WantedIsServed
  BY DEF IInv
<1> QED BY <1>1, <1>2, <1>3, PTL DEF Spec
-----------------------------------------------------------------------------
(* A counter is the number of the stream's handlers between addViewer and   *)
(* removeViewer, a leaked one among them.                                   *)
Counted == {"on", "viewing", "leaked"}

Handlers(s) == {c \in Clients : client[c].pc \in Counted /\ client[c].stream = s}

Counts == \A s \in Streams : viewers[s] = Cardinality(Handlers(s))

Timers ==
    /\ closeTasks \in [Streams -> Timer]
    /\ orphans \subseteq [stream : Streams, left : 0..IdleTicks]

LEMMA HandlersFinite ==
    ASSUME NEW s \in Streams
    PROVE  IsFiniteSet(Handlers(s)) /\ Cardinality(Handlers(s)) \in Nat
<1>1. Handlers(s) \subseteq Clients
  BY DEF Handlers
<1>2. IsFiniteSet(Handlers(s))
  BY <1>1, DemandAssumption, FS_Subset
<1> QED BY <1>2, FS_CardinalityType

LEMMA CountsSame ==
    ASSUME Counts, viewers' = viewers, \A s \in Streams : Handlers(s)' = Handlers(s)
    PROVE  Counts'
BY DEF Counts

(* A handler that moves on without being counted anew or no longer.         *)
LEMMA MoveKeeps ==
    ASSUME TypeInv, NEW c \in Clients, NEW where \in Steps, To(c, where),
           client[c].pc \in Counted <=> where \in Counted
    PROVE  \A s \in Streams : Handlers(s)' = Handlers(s)
<1>1. \A d \in Clients : d # c => client'[d] = client[d]
  BY DEF To, TypeInv
<1>2. where = "away" => client'[c].pc = "away"
  BY DEF To, TypeInv, Away
<1>3. where # "away" => client'[c].pc = where /\ client'[c].stream = client[c].stream
  BY DEF To, TypeInv
<1> QED BY <1>1, <1>2, <1>3 DEF Handlers, Counted

LEMMA CountStep == TypeInv /\ Counts /\ [Next]_vars => Counts'
<1> SUFFICES ASSUME TypeInv, Counts, [Next]_vars
             PROVE  Counts'
  OBVIOUS
<1>1. ASSUME NEW c \in Clients, Handler(c) \/ HeaderFails(c)
      PROVE  Counts'
  <2>1. viewers' = viewers
    BY <1>1 DEF Handler, NotifyOn, HeaderFails, NotifyOff
  <2>2. \A s \in Streams : Handlers(s)' = Handlers(s)
    <3>1. CASE NotifyOn(c)
      BY <3>1, MoveKeeps DEF NotifyOn, Steps, Counted
    <3>2. CASE HeaderFails(c)
      BY <3>2, MoveKeeps DEF HeaderFails, Steps, Counted
    <3>3. CASE NotifyOff(c)
      BY <3>3, MoveKeeps DEF NotifyOff, Steps, Counted
    <3> QED BY <1>1, <3>1, <3>2, <3>3 DEF Handler
  <2> QED BY <2>1, <2>2, CountsSame
<1>2. ASSUME NEW c \in Clients, RemoveViewer(c)
      PROVE  Counts'
  <2>0. PICK s \in Streams : s = client[c].stream
    BY DEF TypeInv
  <2>1. c \in Handlers(s)
    BY <1>2, <2>0 DEF RemoveViewer, Handlers, Counted
  <2>2. client'[c].pc \notin Counted /\ \A d \in Clients : d # c => client'[d] = client[d]
    BY <1>2 DEF RemoveViewer, To, TypeInv, Away, Counted
  <2>3. Handlers(s)' = Handlers(s) \ {c}
    BY <2>2 DEF Handlers
  <2>4. \A t \in Streams : t # s => Handlers(t)' = Handlers(t)
    BY <2>0, <2>2 DEF Handlers
  <2>5. Cardinality(Handlers(s) \ {c}) = Cardinality(Handlers(s)) - 1
    BY <2>1, HandlersFinite, FS_RemoveElement
  <2>6. \A t \in Streams : viewers'[t] = IF t = s THEN viewers[t] - 1 ELSE viewers[t]
    BY <1>2, <2>0 DEF RemoveViewer, TypeInv
  <2> QED BY <2>1, <2>3, <2>4, <2>5, <2>6 DEF Counts
<1>3. ASSUME NEW c \in Clients, NEW s \in Streams, AddViewer(c, s)
      PROVE  Counts'
  <2>1. c \notin Handlers(s)
    BY <1>3 DEF AddViewer, Handlers, Counted
  <2>2. /\ client'[c].pc \in Counted /\ client'[c].stream = s
        /\ \A d \in Clients : d # c => client'[d] = client[d]
    BY <1>3 DEF AddViewer, TypeInv, Counted
  <2>3. Handlers(s)' = Handlers(s) \cup {c}
    BY <2>2 DEF Handlers
  <2>4. \A t \in Streams : t # s => Handlers(t)' = Handlers(t)
    BY <1>3, <2>2 DEF Handlers, AddViewer, Counted
  <2>5. Cardinality(Handlers(s) \cup {c}) = Cardinality(Handlers(s)) + 1
    BY <2>1, HandlersFinite, FS_AddElement
  <2>6. \A t \in Streams : viewers'[t] = IF t = s THEN viewers[t] + 1 ELSE viewers[t]
    BY <1>3 DEF AddViewer, TypeInv
  <2> QED BY <2>3, <2>4, <2>5, <2>6 DEF Counts
<1>4. CASE UNCHANGED <<viewers, client>>
  BY <1>4, CountsSame DEF Handlers
<1>5. CASE MainThread \/ OpenInternal \/ Executor \/ Answer \/ Tick \/ UNCHANGED vars
  BY <1>4, <1>5 DEF MainThread, HandleOn, HandleOff, Receive, ClosePreview, FireTask, CheckName,
                    FireOrphan, OpenInternal, Executor, AwaitTimesOut, RemoveMark, Answer, Tick, vars, clientVars
<1> QED BY <1>1, <1>2, <1>3, <1>5 DEF Next

LEMMA HeadStream ==
    ASSUME TypeInv, mainQ # << >>
    PROVE  Head(mainQ).stream \in Streams
<1>1. Head(mainQ) \in Message
  BY DEF TypeInv
<1> QED BY <1>1 DEF Message

LEMMA TimerSet ==
    ASSUME NEW f \in [Streams -> Timer], NEW k, NEW n \in Timer
    PROVE  [f EXCEPT ![k] = n] \in [Streams -> Timer]
OBVIOUS

LEMMA TimerValues == Off \in Timer /\ IdleTicks \in Timer
BY DemandAssumption DEF Off, Timer

LEMMA TimerStep == TypeInv /\ Timers /\ [Next]_vars => Timers'
<1> SUFFICES ASSUME TypeInv, Timers, [Next]_vars
             PROVE  Timers'
  OBVIOUS
<1> USE DemandAssumption DEF Timers, taskVars
<1>1. CASE UNCHANGED taskVars
  BY <1>1
<1>2. ASSUME NEW c \in Clients,
             Handler(c) \/ HeaderFails(c) \/ RemoveViewer(c) \/ \E s \in Streams : AddViewer(c, s)
      PROVE  Timers'
  BY <1>1, <1>2 DEF Handler, NotifyOn, HeaderFails, NotifyOff, RemoveViewer, AddViewer
<1>3. CASE HandleOn
  <2>1. closeTasks' = [closeTasks EXCEPT ![Head(mainQ).stream] = Off] /\ orphans' = orphans
    BY <1>3 DEF HandleOn
  <2>2. [closeTasks EXCEPT ![Head(mainQ).stream] = Off] \in [Streams -> Timer]
    BY TimerSet, TimerValues
  <2> QED BY <2>1, <2>2
<1>4. CASE HandleOff
  <2>1. Head(mainQ).stream \in Streams
    BY <1>4, HeadStream DEF HandleOff, Receive
  <2>2. closeTasks' \in [Streams -> Timer]
    <3>1. closeTasks' = [closeTasks EXCEPT ![Head(mainQ).stream] = IdleTicks]
      BY <1>4, Zenon DEF HandleOff
    <3>2. [closeTasks EXCEPT ![Head(mainQ).stream] = IdleTicks] \in [Streams -> Timer]
      BY TimerSet, TimerValues
    <3> QED BY <3>1, <3>2
  <2>3. orphans' \subseteq [stream : Streams, left : 0..IdleTicks]
    BY <1>4, <2>1 DEF HandleOff, Timer, Off
  <2> QED BY <2>2, <2>3
<1>5. ASSUME NEW s \in Streams, FireTask(s)
      PROVE  Timers'
  BY <1>5, TimerSet, TimerValues DEF FireTask
<1>6. ASSUME NEW o \in orphans, FireOrphan(o)
      PROVE  Timers'
  BY <1>6 DEF FireOrphan
<1>7. CASE Tick
  <2>1. \A n \in Off..IdleTicks : Down(n) \in Off..IdleTicks /\ (n # Off => Down(n) \in 0..IdleTicks)
    BY DEF Down, Off
  <2>2. closeTasks' \in [Streams -> Off..IdleTicks]
    BY <1>7, <2>1 DEF Tick, Timer, Off
  <2>3. orphans' \subseteq [stream : Streams, left : 0..IdleTicks]
    BY <1>7, <2>1 DEF Tick, Timer, Off
  <2> QED BY <2>2, <2>3 DEF Timer
<1>8. CASE ClosePreview \/ OpenInternal \/ Executor \/ Answer \/ UNCHANGED vars \/ \E s \in Streams : CheckName(s)
  BY <1>1, <1>8 DEF ClosePreview, OpenInternal, Executor, AwaitTimesOut, RemoveMark, Answer, vars, CheckName
<1> QED BY <1>2, <1>3, <1>4, <1>5, <1>6, <1>7, <1>8 DEF Next, MainThread

(* Every variable keeps its type; in particular a counter never goes below  *)
(* zero, because it always is the number of the handlers it stands for      *)
(* (FrameHub.addViewer, removeViewer).                                      *)
THEOREM TypeCorrect == Spec => []TypeOK
<1> DEFINE Typed == TypeInv /\ Counts /\ Timers
<1>1. Init => Typed
  <2> SUFFICES ASSUME Init
               PROVE  Typed
    OBVIOUS
  <2>1. TypeInv
    BY InitType
  <2>2. Counts
    <3>1. \A s \in Streams : Handlers(s) = {}
      BY DEF Init, Handlers, Counted, Away
    <3> QED BY <3>1, FS_EmptySet DEF Counts, Init
  <2>3. Timers
    BY DemandAssumption DEF Init, Timers, Timer, Off
  <2> QED BY <2>1, <2>2, <2>3
<1>2. Typed /\ [Next]_vars => Typed'
  BY TypeStep, CountStep, TimerStep
<1>3. Typed => TypeOK
  <2> SUFFICES ASSUME Typed
               PROVE  TypeOK
    OBVIOUS
  <2>1. \A s \in Streams : viewers[s] \in Nat
    BY HandlersFinite DEF Counts
  <2> QED BY <2>1 DEF TypeInv, Opener, Timers, TypeOK
<1> QED BY <1>1, <1>2, <1>3, PTL DEF Spec
=============================================================================
