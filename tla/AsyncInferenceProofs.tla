------------------------- MODULE AsyncInferenceProofs -------------------------
(***************************************************************************)
(* The must-go mark of the client, for any poses, chunk size and bound: a  *)
(* mark that is down has a chunk on its way, or one of four Causes took it *)
(* away.  Timesteps go up, and no queue grows beyond a chunk.              *)
(***************************************************************************)
EXTENDS AsyncInference, TLAPS

(* An observation that is being sent is none that stands for no observation. *)
Shape ==
    /\ ctl = [pc |-> ctl.pc, step |-> ctl.step, obs |-> ctl.obs]
    /\ infer = [pc |-> infer.pc, obs |-> infer.obs]
    /\ rcv = [pc |-> rcv.pc, todo |-> rcv.todo, kept |-> rcv.kept]
    /\ pose \in Poses
    /\ ctl.pc \in {"send", "evict", "clear"} => ctl.obs.pose \in Poses

(* A must-go observation that was sent, noted or not, is still to be        *)
(* answered.                                                                *)
SentIsPending == astray = {} /\ (~mustGo \/ Lowering) => Pending

IInv == mustGo \in BOOLEAN /\ Shape /\ SentIsPending

-----------------------------------------------------------------------------
LEMMA CtlToFacts ==
    ASSUME Shape, NEW pc, CtlTo(pc)
    PROVE  /\ ctl' = [pc |-> ctl'.pc, step |-> ctl'.step, obs |-> ctl'.obs]
           /\ ctl'.pc = pc /\ ctl'.obs = ctl.obs
BY DEF Shape, CtlTo

LEMMA ShapeStep ==
    ASSUME Shape, Next
    PROVE  Shape'
<1>1. CASE ActionsAvailable \/ ReadyToSend \/ ClearMustGo \/ SendAction \/ CaptureFails
  <2>1. PICK pc \in {"pop", "observe", "capture", "act"} : CtlTo(pc)
    BY <1>1 DEF ActionsAvailable, ReadyToSend, ClearMustGo, SendAction, CaptureFails
  <2>2. infer' = infer /\ rcv' = rcv /\ pose' \in Poses
    BY <1>1 DEF ActionsAvailable, ReadyToSend, ClearMustGo, SendAction, CaptureFails, server, robot, Shape
  <2> QED BY <2>1, <2>2, CtlToFacts DEF Shape
<1>2. CASE GetNowait
  <2>1. infer' = infer /\ pose' = pose /\ rcv' = [pc |-> rcv'.pc, todo |-> rcv'.todo, kept |-> rcv'.kept]
    BY <1>2 DEF GetNowait, server, robot, Shape
  <2>2. CASE queue = << >>
    BY <1>2, <2>1, <2>2, CtlToFacts DEF GetNowait, Shape
  <2>3. CASE queue # << >>
    <3>1. ctl' = [ctl EXCEPT !.pc = "acting", !.step = Head(queue)]
      BY <1>2, <2>3 DEF GetNowait
    <3> QED BY <3>1, <2>1 DEF Shape
  <2> QED BY <2>2, <2>3
<1>3. CASE Capture
  <2>1. infer' = infer /\ rcv' = rcv /\ pose' = pose
    BY <1>3 DEF Capture, server, robot
  <2>2. ctl' = [ctl EXCEPT !.pc = "send",
                  !.obs = [step |-> Max({latest, 0}), pose |-> pose,
                           go   |-> mustGo /\ queue = << >>]]
    BY <1>3 DEF Capture
  <2>3. ctl'.obs.pose = pose
    BY <2>2 DEF Shape
  <2> QED BY <2>1, <2>2, <2>3 DEF Shape
<1>4. CASE SendObservations \/ Evict
  <2>1. PICK pc \in {"clear", "evict"} : CtlTo(pc)
    BY <1>4 DEF SendObservations, Evict
  <2>2. infer' = infer /\ rcv' = rcv /\ pose' = pose /\ ctl.pc \in {"send", "evict"}
    BY <1>4 DEF SendObservations, Evict, robot
  <2> QED BY <2>1, <2>2, CtlToFacts DEF Shape
<1>5. CASE Answer
  <2>1. ctl' = ctl /\ pose' = pose
    BY <1>5 DEF Answer, GetActions, AddPredicted, Preprocess, Reply, NoReply, robot
  <2>2. infer' = [pc |-> infer'.pc, obs |-> infer'.obs]
    BY <1>5 DEF Answer, GetActions, AddPredicted, Preprocess, Reply, NoReply, Shape, Idle
  <2>3. rcv' = [pc |-> rcv'.pc, todo |-> rcv'.todo, kept |-> rcv'.kept]
    BY <1>5 DEF Answer, GetActions, AddPredicted, Preprocess, Reply, NoReply, Shape
  <2> QED BY <2>1, <2>2, <2>3 DEF Shape
<1>6. CASE Receive
  <2>1. ctl' = ctl /\ pose' = pose /\ infer' = infer
    BY <1>6 DEF Receive, ReadQueue, KeepOne, SwapQueue, SetMustGo, robot, server
  <2>2. rcv' = [pc |-> rcv'.pc, todo |-> rcv'.todo, kept |-> rcv'.kept]
    BY <1>6 DEF Receive, ReadQueue, KeepOne, SwapQueue, SetMustGo, Calling, Shape
  <2> QED BY <2>1, <2>2 DEF Shape
<1> QED BY <1>1, <1>2, <1>3, <1>4, <1>5, <1>6 DEF Next, Control

-----------------------------------------------------------------------------
(* What is on its way stays there, while the mark and the call that lowers  *)
(* it are left alone.                                                       *)
LEMMA QuietKeeps ==
    ASSUME SentIsPending, mustGo' = mustGo, Lowering' => Lowering, astray' = astray,
           Pending => Pending'
    PROVE  SentIsPending'
BY Zenon DEF SentIsPending

LEMMA SameIsPending ==
    ASSUME UNCHANGED <<obsQueue, infer, rcv>>
    PROVE  Pending' = Pending
BY DEF Pending, Held

LEMMA NotedIsNotEmpty ==
    ASSUME NEW c, Note({c})
    PROVE  astray' # {}
BY DEF Note

LEMMA ControlStep ==
    ASSUME IInv, Control
    PROVE  mustGo' \in BOOLEAN /\ SentIsPending'
<1> USE DEF IInv
<1>1. CASE ActionsAvailable \/ SendAction \/ ReadyToSend \/ CaptureFails
  <2>1. UNCHANGED <<mustGo, rcv, server, astray>>
    BY <1>1 DEF ActionsAvailable, SendAction, ReadyToSend, CaptureFails
  <2>2. PICK pc \in {"pop", "observe", "capture", "act"} : CtlTo(pc)
    BY <1>1 DEF ActionsAvailable, SendAction, ReadyToSend, CaptureFails
  <2>3. ~Lowering'
    BY <2>2, CtlToFacts DEF Lowering
  <2> QED BY <2>1, <2>3, SameIsPending, QuietKeeps DEF server
<1>2. CASE GetNowait
  <2>1. UNCHANGED <<mustGo, server>>
    BY <1>2 DEF GetNowait
  <2>2. CASE queue = << >>
    <3>1. rcv' = rcv /\ astray' = astray /\ CtlTo("dead")
      BY <1>2, <2>2 DEF GetNowait
    <3>2. ~Lowering'
      BY <3>1, CtlToFacts DEF Lowering
    <3> QED BY <2>1, <3>1, <3>2, SameIsPending, QuietKeeps DEF server
  <2>3. CASE queue # << >> /\ rcv.pc = "reading"
    <3>1. {c \in {"died"} : rcv.pc = "reading"} = {"died"}
      BY <2>3
    <3>2. astray' # {}
      BY <1>2, <2>3, <3>1, NotedIsNotEmpty DEF GetNowait
    <3> QED BY <2>1, <3>2 DEF SentIsPending
  <2>4. CASE queue # << >> /\ rcv.pc # "reading"
    <3>1. rcv' = rcv /\ astray' = astray
      BY <1>2, <2>4 DEF GetNowait, Note
    <3>2. ctl' = [ctl EXCEPT !.pc = "acting", !.step = Head(queue)]
      BY <1>2, <2>4 DEF GetNowait
    <3>3. ~Lowering'
      BY <3>2 DEF Shape, Lowering
    <3> QED BY <2>1, <3>1, <3>3, SameIsPending, QuietKeeps DEF server
  <2> QED BY <2>2, <2>3, <2>4
<1>3. CASE Capture
  <2>1. UNCHANGED <<mustGo, rcv, server, astray>>
    BY <1>3 DEF Capture
  <2>2. ctl'.pc = "send"
    BY <1>3 DEF Capture, Shape
  <2>3. ~Lowering'
    BY <2>2 DEF Lowering
  <2> QED BY <2>1, <2>3, SameIsPending, QuietKeeps DEF server
<1>4. CASE ClearMustGo
  <2>1. UNCHANGED <<rcv, server, astray>> /\ CtlTo("act") /\ ctl.pc = "clear"
    BY <1>4 DEF ClearMustGo
  <2>2. ~Lowering'
    BY <2>1, CtlToFacts DEF Lowering
  <2>3. mustGo' \in BOOLEAN /\ (~mustGo' => ~mustGo \/ Lowering)
    BY <1>4, <2>1, Zenon DEF ClearMustGo, Lowering
  <2>4. Pending' = Pending /\ astray' = astray
    BY <2>1, SameIsPending DEF server
  <2> QED BY <2>2, <2>3, <2>4, Zenon DEF SentIsPending
<1>5. CASE SendObservations
  <2>1. UNCHANGED <<mustGo, rcv, infer>> /\ ctl.pc = "send"
    BY <1>5 DEF SendObservations
  <2>2. ctl.obs # NoObs
    BY <2>1, AsyncAssumption DEF Shape, NoObs
  <2>3. PICK pc \in {"clear", "evict"} : CtlTo(pc)
    BY <1>5 DEF SendObservations
  <2>4. ctl'.pc = pc /\ ctl'.obs = ctl.obs
    BY <2>3, CtlToFacts
  <2>5. CASE ~Accepts(ctl.obs) /\ UNCHANGED <<obsQueue, astray>>
    <3>1. ~Lowering'
      BY <2>4, <2>5 DEF Accepts, Lowering
    <3> QED BY <2>1, <2>5, <3>1, SameIsPending, QuietKeeps
  <2>6. CASE Held /\ UNCHANGED <<obsQueue, astray>>
    BY <2>1, <2>6 DEF SentIsPending, Pending, Held
  <2>7. CASE obsQueue' = ctl.obs
    BY <2>1, <2>2, <2>7 DEF SentIsPending, Pending, Held
  <2>8. CASE Note({c \in {"unsent"} : ctl.obs.go}) /\ obsQueue' = obsQueue
    <3>1. CASE ctl.obs.go
      <4>1. {c \in {"unsent"} : ctl.obs.go} = {"unsent"}
        BY <3>1
      <4> QED BY <2>1, <2>8, <4>1, NotedIsNotEmpty DEF SentIsPending
    <3>2. CASE ~ctl.obs.go
      <4>1. ~Lowering' /\ astray' = astray
        BY <2>4, <2>8, <3>2 DEF Lowering, Note
      <4> QED BY <2>1, <2>8, <4>1, SameIsPending, QuietKeeps
    <3> QED BY <3>1, <3>2
  <2> QED BY <1>5, <2>5, <2>6, <2>7, <2>8 DEF SendObservations
<1>6. CASE Evict
  <2>1. UNCHANGED <<mustGo, rcv, infer, astray>> /\ ctl.pc = "evict" /\ CtlTo("clear")
    BY <1>6 DEF Evict
  <2>2. Lowering' => Lowering
    BY <2>1, CtlToFacts DEF Lowering
  <2>3. ctl.obs # NoObs
    BY <2>1, AsyncAssumption DEF Shape, NoObs
  <2>4. Pending => Pending'
    BY <1>6, <2>1, <2>3 DEF Evict, Pending, Held
  <2> QED BY <2>1, <2>2, <2>4, QuietKeeps
<1> QED BY <1>1, <1>2, <1>3, <1>4, <1>5, <1>6 DEF Control

LEMMA AnswerStep ==
    ASSUME IInv, Answer
    PROVE  mustGo' \in BOOLEAN /\ SentIsPending'
<1> USE DEF IInv
<1>1. UNCHANGED <<mustGo, ctl>>
  BY DEF Answer, GetActions, AddPredicted, Preprocess, Reply, NoReply
<1>2. Lowering' = Lowering
  BY <1>1 DEF Lowering
<1>3. CASE GetActions \/ AddPredicted \/ Preprocess
  <2>1. infer'.pc # "idle" /\ astray' = astray
    BY <1>3 DEF GetActions, AddPredicted, Preprocess, Shape
  <2> QED BY <1>1, <2>1 DEF SentIsPending, Pending
<1>4. CASE Reply
  BY <1>1, <1>4 DEF Reply, SentIsPending, Pending
<1>5. CASE NoReply
  <2>1. CASE ~mustGo \/ Lowering
    <3>1. {c \in {"unanswered"} : ~mustGo \/ Lowering} = {"unanswered"}
      BY <2>1
    <3>2. astray' # {}
      BY <1>5, <3>1, NotedIsNotEmpty DEF NoReply
    <3> QED BY <1>1, <3>2 DEF SentIsPending
  <2>2. CASE mustGo /\ ~Lowering
    BY <1>1, <1>2, <2>2 DEF SentIsPending
  <2> QED BY <2>1, <2>2
<1> QED BY <1>3, <1>4, <1>5 DEF Answer

LEMMA ReceiveStep ==
    ASSUME IInv, Receive
    PROVE  mustGo' \in BOOLEAN /\ SentIsPending'
<1> USE DEF IInv
<1>1. UNCHANGED <<ctl, server>>
  BY DEF Receive, ReadQueue, KeepOne, SwapQueue, SetMustGo
<1>2. Lowering' = Lowering
  BY <1>1 DEF Lowering
<1>3. CASE ReadQueue \/ KeepOne \/ SwapQueue
  <2>1. mustGo' = mustGo /\ astray' = astray /\ rcv'.pc \in {"filter", "flag"}
    BY <1>3 DEF ReadQueue, KeepOne, SwapQueue, Shape
  <2>2. Pending'
    BY <2>1 DEF Pending
  <2> QED BY <1>2, <2>1, <2>2, QuietKeeps
<1>4. CASE SetMustGo
  <2>1. mustGo' \in BOOLEAN /\ mustGo'
    BY <1>4, Zenon DEF SetMustGo
  <2>2. astray' = {} => ~Lowering
    BY <1>4 DEF SetMustGo
  <2> QED BY <1>2, <2>1, <2>2, Zenon DEF SentIsPending
<1> QED BY <1>3, <1>4 DEF Receive

-----------------------------------------------------------------------------
(* A mark that is down has a chunk on its way, or a must-go observation met *)
(* one of the four Causes since it was last raised                          *)
(* (control_loop_observation, receive_actions), for every value of the      *)
(* constants.                                                               *)
THEOREM GoHolds == Spec => []GoIsAnswered
<1>1. Init => IInv
  <2>1. Init => mustGo \in BOOLEAN /\ mustGo
    BY DEF Init
  <2>2. Init => Shape /\ ctl.pc = "act"
    BY DEF Init, Shape, Idle, Calling
  <2> QED BY <2>1, <2>2 DEF IInv, SentIsPending, Lowering
<1>2. IInv /\ [Next]_vars => IInv'
  <2>1. ASSUME IInv, UNCHANGED vars
        PROVE  IInv'
    BY <2>1 DEF vars, server, robot, IInv, Shape, SentIsPending, Lowering, Pending, Held
  <2>2. ASSUME IInv, Next
        PROVE  IInv'
    <3>1. Shape'
      BY <2>2, ShapeStep DEF IInv
    <3>2. mustGo' \in BOOLEAN /\ SentIsPending'
      BY <2>2, ControlStep, AnswerStep, ReceiveStep DEF Next
    <3> QED BY <3>1, <3>2 DEF IInv
  <2> QED BY <2>1, <2>2
<1>3. IInv => GoIsAnswered
  BY DEF IInv, SentIsPending, GoIsAnswered, MarkLost
<1> QED BY <1>1, <1>2, <1>3, PTL DEF Spec
-----------------------------------------------------------------------------
(* Timesteps go up: everything queued is later than what was performed,     *)
(* and what is kept of a chunk too, unless the two threads mix.             *)

LEMMA MinOfTwo ==
    ASSUME NEW a \in Int, NEW b \in Int
    PROVE  Min({a, b}) \in {a, b} /\ Min({a, b}) <= a /\ Min({a, b}) <= b
<1>1. \E x \in {a, b} : \A y \in {a, b} : x <= y
  <2>1. CASE a <= b
    BY <2>1
  <2>2. CASE b <= a
    BY <2>2
  <2> QED BY <2>1, <2>2
<1> QED BY <1>1 DEF Min

LEMMA MaxOfTwo ==
    ASSUME NEW a \in Int, NEW b \in Int
    PROVE  Max({a, b}) \in {a, b} /\ Max({a, b}) >= a /\ Max({a, b}) >= b
<1>1. \E x \in {a, b} : \A y \in {a, b} : x >= y
  <2>1. CASE a <= b
    BY <2>1
  <2>2. CASE b <= a
    BY <2>2
  <2> QED BY <2>1, <2>2
<1> QED BY <1>1 DEF Max

Ascending(s) == s \in Seq(Steps) /\ \A i, j \in 1..Len(s) : i < j => s[i] < s[j]
Above(s, n)  == \A i \in 1..Len(s) : s[i] > n

LEMMA ChunkIsAscending ==
    ASSUME NEW n \in Steps
    PROVE  Ascending(Chunk(n)) /\ Chunk(n) # << >>
<1> DEFINE k == Min({ChunkSize, MaxStep - n + 1})
<1>1. k \in 1..(MaxStep - n + 1)
  BY MinOfTwo, AsyncAssumption DEF Steps
<1> HIDE DEF k
<1>2. Chunk(n) = [i \in 1..k |-> n + i - 1]
  BY DEF Chunk, k
<1>3. Chunk(n) \in Seq(Steps) /\ Len(Chunk(n)) = k
  BY <1>1, <1>2, AsyncAssumption DEF Steps
<1> QED BY <1>1, <1>2, <1>3, AsyncAssumption DEF Ascending, Steps

LEMMA TailIsAscending ==
    ASSUME NEW s, Ascending(s), s # << >>
    PROVE  /\ Head(s) \in Steps /\ Ascending(Tail(s)) /\ Above(Tail(s), Head(s))
           /\ \A n \in Int : Above(s, n) => Above(Tail(s), n) /\ Head(s) > n
<1>1. /\ Head(s) = s[1] /\ Tail(s) \in Seq(Steps) /\ Len(Tail(s)) = Len(s) - 1 /\ Len(s) \in Nat \ {0}
      /\ \A i \in 1..Len(Tail(s)) : Tail(s)[i] = s[i + 1]
  BY DEF Ascending
<1> QED BY <1>1 DEF Ascending, Above

StepTypes ==
    /\ latest \in Steps \cup {-1} /\ ctl.step \in Steps
    /\ ctl.obs.step \in Steps /\ obsQueue.step \in Steps /\ infer.obs.step \in Steps
    /\ queue \in Seq(Steps) /\ rcv.todo \in Seq(Steps) /\ rcv.kept \in Seq(Steps)

QueueAhead ==
    /\ Ascending(queue) /\ Above(queue, latest)
    /\ ctl.pc = "acting" => ctl.step > latest /\ Above(queue, ctl.step)

ChunkAhead ==
    rcv.pc \in {"reading", "filter"} =>
      /\ Ascending(rcv.todo) /\ Ascending(rcv.kept) /\ Above(rcv.kept, latest)
      /\ \A i \in 1..Len(rcv.todo) : \A j \in 1..Len(rcv.kept) : rcv.kept[j] < rcv.todo[i]
      /\ rcv.pc = "reading" \/ ctl.pc = "acting" => rcv.kept = << >> /\ rcv.todo # << >>

Unmixed == ~mixed

ForwardInv == Shape /\ StepTypes /\ (Unmixed => QueueAhead /\ ChunkAhead)

(* What a step has to show.                                                 *)
Advances == StepTypes' /\ (Unmixed' => Unmixed /\ QueueAhead' /\ ChunkAhead')

LEMMA StepOfObservation ==
    ASSUME StepTypes
    PROVE  Max({latest, 0}) \in Steps
<1>1. latest \in Int /\ latest \in Steps \cup {-1} /\ 0 \in Steps
  BY AsyncAssumption DEF StepTypes, Steps
<1>2. Max({latest, 0}) \in {latest, 0} /\ Max({latest, 0}) >= 0
  BY <1>1, MaxOfTwo
<1> QED BY <1>1, <1>2

LEMMA QuietStep ==
    ASSUME ForwardInv, UNCHANGED <<latest, queue, rcv>>, Unmixed' => Unmixed,
           ctl'.step = ctl.step, ctl'.pc # "acting",
           ctl'.obs.step \in Steps, obsQueue'.step \in Steps, infer'.obs.step \in Steps
    PROVE  Advances
<1>1. StepTypes'
  BY DEF ForwardInv, StepTypes
<1>2. Unmixed' => QueueAhead' /\ ChunkAhead'
  BY DEF ForwardInv, QueueAhead, ChunkAhead
<1> QED BY <1>1, <1>2 DEF Advances

LEMMA ControlAdvances ==
    ASSUME ForwardInv, Control
    PROVE  Advances
<1> USE DEF ForwardInv
<1>1. CASE ActionsAvailable \/ ReadyToSend \/ ClearMustGo \/ CaptureFails
  <2>1. PICK pc \in {"pop", "observe", "capture", "act"} : CtlTo(pc)
    BY <1>1 DEF ActionsAvailable, ReadyToSend, ClearMustGo, CaptureFails
  <2>2. UNCHANGED <<latest, queue, rcv, obsQueue, infer, mixed>>
    BY <1>1 DEF ActionsAvailable, ReadyToSend, ClearMustGo, CaptureFails, server, robot
  <2>3. ctl'.pc = pc /\ ctl'.obs = ctl.obs /\ ctl'.step = ctl.step
    BY <2>1 DEF CtlTo, Shape
  <2> QED BY <2>2, <2>3, QuietStep DEF StepTypes, Unmixed
<1>2. CASE SendObservations \/ Evict
  <2>1. PICK pc \in {"clear", "evict"} : CtlTo(pc)
    BY <1>2 DEF SendObservations, Evict
  <2>2. UNCHANGED <<latest, queue, rcv, infer>>
    BY <1>2 DEF SendObservations, Evict, robot
  <2>3. ctl'.pc = pc /\ ctl'.obs = ctl.obs /\ ctl'.step = ctl.step
    BY <2>1 DEF CtlTo, Shape
  <2>4. obsQueue' \in {obsQueue, ctl.obs} /\ (Unmixed' => Unmixed)
    BY <1>2 DEF SendObservations, Evict, Note, Unmixed
  <2> QED BY <2>2, <2>3, <2>4, QuietStep DEF StepTypes
<1>3. CASE Capture
  <2>1. UNCHANGED <<latest, queue, rcv, obsQueue, infer, mixed>>
    BY <1>3 DEF Capture, server, robot
  <2>2. ctl' = [ctl EXCEPT !.pc = "send",
                  !.obs = [step |-> Max({latest, 0}), pose |-> pose,
                           go   |-> mustGo /\ queue = << >>]]
    BY <1>3 DEF Capture
  <2>3. ctl'.pc = "send" /\ ctl'.step = ctl.step /\ ctl'.obs.step = Max({latest, 0})
    BY <2>2 DEF Shape
  <2>4. Max({latest, 0}) \in Steps
    BY StepOfObservation
  <2> QED BY <2>1, <2>3, <2>4, QuietStep DEF StepTypes, Unmixed
<1>4. CASE SendAction
  <2>1. /\ UNCHANGED <<queue, rcv, obsQueue, infer, mixed>>
        /\ latest' = ctl.step /\ ctl.pc = "acting" /\ CtlTo("observe")
    BY <1>4 DEF SendAction, server
  <2>2. ctl'.pc = "observe" /\ ctl'.obs = ctl.obs /\ ctl'.step = ctl.step
    BY <2>1 DEF CtlTo, Shape
  <2>3. StepTypes' /\ Unmixed' = Unmixed
    BY <2>1, <2>2 DEF StepTypes, Unmixed
  <2>4. Unmixed => QueueAhead'
    BY <2>1, <2>2 DEF QueueAhead
  <2>5. Unmixed => ChunkAhead'
    BY <2>1, <2>2 DEF ChunkAhead, Above
  <2> QED BY <2>3, <2>4, <2>5 DEF Advances
<1>5. CASE GetNowait
  <2>1. UNCHANGED <<latest, obsQueue, infer>> /\ (Unmixed' => Unmixed)
    BY <1>5 DEF GetNowait, Note, Unmixed, server, robot
  <2>2. CASE queue = << >>
    <3>1. ctl'.pc = "dead" /\ ctl'.obs = ctl.obs /\ ctl'.step = ctl.step
      BY <1>5, <2>2 DEF GetNowait, CtlTo, Shape
    <3>2. UNCHANGED <<queue, rcv>>
      BY <1>5, <2>2 DEF GetNowait
    <3> QED BY <2>1, <3>1, <3>2, QuietStep DEF StepTypes
  <2>3. CASE queue # << >>
    <3>1. /\ queue' = Tail(queue)
          /\ rcv' = IF rcv.pc = "reading" THEN [rcv EXCEPT !.pc = "dead"] ELSE rcv
          /\ ctl' = [ctl EXCEPT !.pc = "acting", !.step = Head(queue)]
      BY <1>5, <2>3 DEF GetNowait
    <3>2. ctl'.pc = "acting" /\ ctl'.obs = ctl.obs /\ ctl'.step = Head(queue)
      BY <3>1 DEF Shape
    <3>3. /\ rcv'.todo = rcv.todo /\ rcv'.kept = rcv.kept
          /\ rcv'.pc \in {rcv.pc, "dead"} /\ rcv'.pc # "reading"
      BY <3>1 DEF Shape
    <3>4. Head(queue) \in Steps /\ Tail(queue) \in Seq(Steps)
      BY <2>3 DEF StepTypes
    <3>5. StepTypes'
      BY <2>1, <3>1, <3>2, <3>3, <3>4 DEF StepTypes
    <3>6. Unmixed => QueueAhead'
      BY <2>1, <2>3, <3>1, <3>2, TailIsAscending DEF QueueAhead, StepTypes, Steps
    <3>7. Unmixed' => rcv'.pc # "filter"
      BY <1>5, <2>3, <3>3 DEF GetNowait, Note, Unmixed
    <3>8. Unmixed' => ChunkAhead'
      BY <3>3, <3>7 DEF ChunkAhead
    <3> QED BY <2>1, <3>5, <3>6, <3>8 DEF Advances
  <2> QED BY <2>2, <2>3
<1> QED BY <1>1, <1>2, <1>3, <1>4, <1>5 DEF Control

LEMMA AnswerAdvances ==
    ASSUME ForwardInv, Answer
    PROVE  Advances
<1> USE DEF ForwardInv
<1>1. UNCHANGED <<latest, queue, ctl>> /\ (Unmixed' => Unmixed)
  BY DEF Answer, GetActions, AddPredicted, Preprocess, Reply, NoReply, Note, Unmixed, robot
<1>2. NoObs.step \in Steps
  BY AsyncAssumption DEF NoObs, Steps
<1>3. obsQueue'.step \in Steps /\ infer'.obs.step \in Steps
  BY <1>2 DEF Answer, GetActions, AddPredicted, Preprocess, Reply, NoReply, Idle, StepTypes, Shape
<1>4. CASE rcv' = rcv
  BY <1>1, <1>3, <1>4 DEF Advances, StepTypes, QueueAhead, ChunkAhead
<1>5. CASE Reply
  <2>1. rcv' = [pc |-> "reading", todo |-> Chunk(infer.obs.step), kept |-> << >>]
    BY <1>5 DEF Reply
  <2>2. Ascending(rcv'.todo) /\ rcv'.todo # << >> /\ rcv'.kept = << >>
    BY <2>1, ChunkIsAscending DEF StepTypes
  <2>3. Ascending(<< >>) /\ \A n : Above(<< >>, n)
    BY DEF Ascending, Above
  <2> QED BY <1>1, <1>3, <2>2, <2>3 DEF Advances, StepTypes, QueueAhead, ChunkAhead, Ascending
<1> QED BY <1>4, <1>5 DEF Answer, GetActions, AddPredicted, Preprocess, NoReply

LEMMA ReceiveAdvances ==
    ASSUME ForwardInv, Receive
    PROVE  Advances
<1> USE DEF ForwardInv
<1>1. UNCHANGED <<latest, ctl, obsQueue, infer>> /\ (Unmixed' => Unmixed)
  <2>1. UNCHANGED <<latest, ctl, obsQueue, infer>>
    BY DEF Receive, ReadQueue, KeepOne, SwapQueue, SetMustGo, robot, server
  <2>2. KeepOne => (Unmixed' => Unmixed)
    BY Zenon DEF KeepOne, Unmixed
  <2>3. ReadQueue \/ SwapQueue \/ SetMustGo => Unmixed' = Unmixed
    BY DEF ReadQueue, SwapQueue, SetMustGo, Unmixed
  <2> QED BY <2>1, <2>2, <2>3 DEF Receive
<1>2. CASE ReadQueue
  <2>1. /\ rcv'.todo = rcv.todo /\ rcv'.kept = rcv.kept /\ queue' = queue
        /\ rcv.pc = "reading"
    BY <1>2 DEF ReadQueue, Shape
  <2> QED BY <1>1, <2>1 DEF Advances, StepTypes, QueueAhead, ChunkAhead
<1>3. CASE SetMustGo
  <2>1. rcv' = Calling /\ queue' = queue
    BY <1>3 DEF SetMustGo
  <2> QED BY <1>1, <2>1 DEF Advances, StepTypes, QueueAhead, ChunkAhead, Calling
<1>4. CASE SwapQueue
  <2>1. /\ rcv.pc = "filter" /\ rcv.todo = << >> /\ queue' = rcv.kept
        /\ rcv'.pc = "flag" /\ rcv'.todo = rcv.todo /\ rcv'.kept = << >>
    BY <1>4 DEF SwapQueue, Shape
  <2>2. StepTypes'
    BY <1>1, <2>1 DEF StepTypes
  <2>3. Unmixed => QueueAhead' /\ ChunkAhead'
    BY <1>1, <2>1 DEF QueueAhead, ChunkAhead
  <2> QED BY <1>1, <2>2, <2>3 DEF Advances
<1>5. CASE KeepOne
  <2> DEFINE h == Head(rcv.todo)
  <2>1. /\ rcv.pc = "filter" /\ rcv.todo # << >> /\ queue' = queue
        /\ rcv'.pc = "filter" /\ rcv'.todo = Tail(rcv.todo)
        /\ rcv'.kept = IF h <= latest THEN rcv.kept ELSE Append(rcv.kept, h)
    BY <1>5 DEF KeepOne, Shape
  <2>2. Unmixed' => ctl.pc # "acting"
    BY <1>5 DEF KeepOne, Note, Unmixed
  <2>3. h \in Steps /\ Tail(rcv.todo) \in Seq(Steps)
    BY <2>1 DEF StepTypes
  <2>4. StepTypes'
    BY <1>1, <2>1, <2>3 DEF StepTypes
  <2>5. ASSUME Unmixed'
        PROVE  ChunkAhead'
    <3>1. /\ Ascending(rcv.todo) /\ Ascending(rcv.kept) /\ Above(rcv.kept, latest)
          /\ \A i \in 1..Len(rcv.todo) : \A j \in 1..Len(rcv.kept) : rcv.kept[j] < rcv.todo[i]
      BY <1>1, <2>1, <2>5 DEF ChunkAhead
    <3>2. /\ h = rcv.todo[1] /\ Len(rcv.todo) \in Nat \ {0}
          /\ Len(Tail(rcv.todo)) = Len(rcv.todo) - 1
          /\ \A i \in 1..Len(Tail(rcv.todo)) : Tail(rcv.todo)[i] = rcv.todo[i + 1]
      BY <2>1 DEF StepTypes
    <3>3. Ascending(Tail(rcv.todo)) /\ Above(Tail(rcv.todo), h)
      BY <2>1, <3>1, TailIsAscending
    <3>4. \A j \in 1..Len(rcv.kept) : rcv.kept[j] < h
      BY <3>1, <3>2
    <3>5. CASE h <= latest
      BY <1>1, <2>1, <2>2, <2>5, <3>1, <3>2, <3>3, <3>5 DEF ChunkAhead
    <3>6. CASE ~(h <= latest)
      <4>1. rcv'.kept = Append(rcv.kept, h)
        BY <2>1, <3>6
      <4>2. /\ Append(rcv.kept, h) \in Seq(Steps)
            /\ Len(Append(rcv.kept, h)) = Len(rcv.kept) + 1
            /\ Append(rcv.kept, h)[Len(rcv.kept) + 1] = h
            /\ \A j \in 1..Len(rcv.kept) : Append(rcv.kept, h)[j] = rcv.kept[j]
        BY <2>3 DEF StepTypes
      <4>3. Ascending(rcv'.kept) /\ Above(rcv'.kept, latest)
        <5>1. Len(rcv.kept) \in Nat /\ h \in Int /\ latest \in Int /\ h > latest
          BY <2>3, <3>6 DEF StepTypes, Steps
        <5>2. \A j \in 1..Len(rcv.kept) + 1 : j \in 1..Len(rcv.kept) \/ j = Len(rcv.kept) + 1
          BY <5>1
        <5>3. Above(rcv'.kept, latest)
          BY <3>1, <4>1, <4>2, <5>1, <5>2 DEF Above
        <5>4. \A i, j \in 1..Len(rcv.kept) + 1 :
                i < j => Append(rcv.kept, h)[i] < Append(rcv.kept, h)[j]
          BY <3>1, <3>4, <4>2, <5>1, <5>2 DEF Ascending
        <5> QED BY <4>1, <4>2, <5>3, <5>4 DEF Ascending
      <4>4. \A i \in 1..Len(rcv'.todo) : \A j \in 1..Len(rcv'.kept) : rcv'.kept[j] < rcv'.todo[i]
        <5>1. \A i \in 1..Len(Tail(rcv.todo)) : Tail(rcv.todo)[i] > h /\ Tail(rcv.todo)[i] \in Steps
          BY <2>3, <3>3 DEF Above
        <5> QED BY <2>1, <2>3, <3>1, <3>2, <4>1, <4>2, <5>1 DEF Ascending, Steps
      <4> QED BY <1>1, <2>1, <2>2, <2>5, <3>3, <4>3, <4>4 DEF ChunkAhead
    <3> QED BY <3>5, <3>6
  <2>6. Unmixed' => QueueAhead'
    BY <1>1, <2>1 DEF QueueAhead
  <2> QED BY <1>1, <2>4, <2>5, <2>6 DEF Advances
<1> QED BY <1>2, <1>3, <1>4, <1>5 DEF Receive

LEMMA ForwardStarts == Init => ForwardInv
<1>1. Init => Shape
  BY DEF Init, Shape, Idle, Calling
<1>2. Init => StepTypes
  BY AsyncAssumption DEF Init, StepTypes, Idle, Calling, NoObs, Steps
<1>3. Init => QueueAhead /\ ChunkAhead
  BY DEF Init, QueueAhead, ChunkAhead, Ascending, Above, Calling
<1> QED BY <1>1, <1>2, <1>3 DEF ForwardInv

LEMMA ForwardKeeps == ForwardInv /\ [Next]_vars => ForwardInv'
<1>1. ASSUME ForwardInv, UNCHANGED vars
      PROVE  ForwardInv'
  BY <1>1 DEF vars, server, robot, ForwardInv, Shape, StepTypes, QueueAhead, ChunkAhead, Unmixed
<1>2. ASSUME ForwardInv, Next
      PROVE  ForwardInv'
  <2>1. Shape'
    BY <1>2, ShapeStep DEF ForwardInv
  <2>2. Advances
    BY <1>2, ControlAdvances, AnswerAdvances, ReceiveAdvances DEF Next
  <2> QED BY <1>2, <2>1, <2>2 DEF ForwardInv, Advances
<1> QED BY <1>1, <1>2

(* No timestep is performed twice or after a later one                      *)
(* (_aggregate_action_queues, control_loop_action), for every value of the  *)
(* constants, as long as no action is performed while a chunk is compared.  *)
THEOREM ForwardHolds == Spec => []StepsForward
<1>1. Init => ForwardInv
  BY ForwardStarts
<1>2. ForwardInv /\ [Next]_vars => ForwardInv'
  BY ForwardKeeps
<1>3. ForwardInv => StepsForward
  BY DEF ForwardInv, QueueAhead, Unmixed, StepsForward
<1> QED BY <1>1, <1>2, <1>3, PTL DEF Spec
-----------------------------------------------------------------------------
(* The types: no queue grows beyond a chunk, because what is kept of a      *)
(* chunk and the rest of it are never more than the chunk.                  *)

Sizes == Len(queue) <= ChunkSize /\ Len(rcv.todo) + Len(rcv.kept) <= ChunkSize

Seen == Observation \cup {NoObs}

Flags ==
    /\ mustGo \in BOOLEAN /\ mixed \in BOOLEAN /\ astray \subseteq Causes /\ predicted \subseteq Steps
    /\ ctl.pc \in CtlPc /\ rcv.pc \in RcvPc /\ infer.pc \in InferPc
    /\ ctl.obs \in Seen /\ infer.obs \in Seen /\ obsQueue \in Seen
    /\ lastProcessed \in Poses \cup {None}

LEMMA ChunkIsShort ==
    ASSUME NEW n \in Steps
    PROVE  Chunk(n) \in Seq(Steps) /\ Len(Chunk(n)) \in 0..ChunkSize
<1> DEFINE k == Min({ChunkSize, MaxStep - n + 1})
<1>1. k \in 0..ChunkSize
  BY MinOfTwo, AsyncAssumption DEF Steps
<1> HIDE DEF k
<1>2. Chunk(n) = [i \in 1..k |-> n + i - 1]
  BY DEF Chunk, k
<1>3. Len(Chunk(n)) = k
  BY <1>1, <1>2, AsyncAssumption
<1> QED BY <1>1, <1>3, ChunkIsAscending DEF Ascending

(* The arithmetic of a step, for lengths.                                   *)
LEMMA SumFacts ==
    ASSUME NEW a \in Nat, NEW b \in Nat, NEW n \in Nat, a + b <= n
    PROVE  /\ a <= n /\ b <= n
           /\ a - 1 <= n /\ a - 1 + b <= n /\ a - 1 + (b + 1) <= n
OBVIOUS

LEMMA SizesStep ==
    ASSUME ForwardInv, Sizes, Next
    PROVE  Sizes'
<1> USE DEF ForwardInv, StepTypes
<1>1. CASE UNCHANGED <<queue, rcv>>
  BY <1>1 DEF Sizes
<1>2. CASE GetNowait /\ queue # << >>
  <2>1. queue' = Tail(queue) /\ rcv'.todo = rcv.todo /\ rcv'.kept = rcv.kept
    BY <1>2 DEF GetNowait, Shape
  <2>2. Len(Tail(queue)) = Len(queue) - 1
    BY <1>2
  <2>3. Len(queue) \in Nat /\ ChunkSize \in Nat /\ Len(queue) + 0 <= ChunkSize
    BY AsyncAssumption DEF Sizes
  <2>4. Len(Tail(queue)) <= ChunkSize
    BY <2>2, <2>3, SumFacts
  <2> QED BY <2>1, <2>4 DEF Sizes
<1>3. CASE Reply
  <2>1. queue' = queue /\ rcv'.todo = Chunk(infer.obs.step) /\ rcv'.kept = << >>
    BY <1>3 DEF Reply
  <2> QED BY <2>1, ChunkIsShort, AsyncAssumption DEF Sizes
<1>4. CASE ReadQueue
  BY <1>4 DEF ReadQueue, Sizes, Shape
<1>5. CASE KeepOne
  <2>1. /\ rcv.todo # << >> /\ queue' = queue /\ rcv'.todo = Tail(rcv.todo)
        /\ rcv'.kept \in {rcv.kept, Append(rcv.kept, Head(rcv.todo))}
    BY <1>5 DEF KeepOne, Shape
  <2>2. /\ Len(Tail(rcv.todo)) = Len(rcv.todo) - 1
        /\ Len(Append(rcv.kept, Head(rcv.todo))) = Len(rcv.kept) + 1
    BY <2>1
  <2>3. Len(rcv.todo) \in Nat /\ Len(rcv.kept) \in Nat /\ ChunkSize \in Nat
    BY AsyncAssumption
  <2>4. /\ Len(Tail(rcv.todo)) + Len(rcv.kept) <= ChunkSize
        /\ Len(Tail(rcv.todo)) + Len(Append(rcv.kept, Head(rcv.todo))) <= ChunkSize
    BY <2>2, <2>3, SumFacts DEF Sizes
  <2> QED BY <2>1, <2>4 DEF Sizes
<1>6. CASE SwapQueue
  <2>1. queue' = rcv.kept /\ rcv.todo = << >> /\ rcv'.todo = rcv.todo /\ rcv'.kept = << >>
    BY <1>6 DEF SwapQueue, Shape
  <2> QED BY <2>1, AsyncAssumption DEF Sizes
<1>7. CASE SetMustGo
  BY <1>7, AsyncAssumption DEF SetMustGo, Calling, Sizes
<1> QED
  BY <1>1, <1>2, <1>3, <1>4, <1>5, <1>6, <1>7
  DEF Next, Control, Answer, Receive, ActionsAvailable, GetNowait, SendAction, ReadyToSend, Capture, CaptureFails,
      ClearMustGo, SendObservations, Evict, GetActions, AddPredicted, Preprocess, NoReply

LEMMA NoObsSeen == NoObs \in Seen
BY DEF Seen

LEMMA FlagsStep ==
    ASSUME ForwardInv, Flags, Next
    PROVE  Flags'
<1> USE DEF ForwardInv, Flags
<1>1. mustGo' \in BOOLEAN
  BY DEF Next, Control, Answer, Receive, ActionsAvailable, GetNowait, SendAction, ReadyToSend, Capture, CaptureFails,
         ClearMustGo, SendObservations, Evict, GetActions, AddPredicted, Preprocess, Reply, NoReply,
         ReadQueue, KeepOne, SwapQueue, SetMustGo
<1>2. astray' \subseteq Causes /\ mixed' \in BOOLEAN
  BY DEF Next, Control, Answer, Receive, ActionsAvailable, GetNowait, SendAction, ReadyToSend, Capture, CaptureFails,
         ClearMustGo, SendObservations, Evict, GetActions, AddPredicted, Preprocess, Reply, NoReply,
         ReadQueue, KeepOne, SwapQueue, SetMustGo, Note, Causes
<1>3. CASE Control
  <2>1. UNCHANGED <<predicted, lastProcessed, infer>>
    BY <1>3 DEF Control, ActionsAvailable, GetNowait, SendAction, ReadyToSend, Capture, CaptureFails,
                ClearMustGo, SendObservations, Evict, server
  <2>2. obsQueue' \in {obsQueue, ctl.obs}
    BY <1>3 DEF Control, ActionsAvailable, GetNowait, SendAction, ReadyToSend, Capture, CaptureFails,
                ClearMustGo, SendObservations, Evict, server
  <2>3. rcv'.pc \in RcvPc
    BY <1>3 DEF Control, ActionsAvailable, GetNowait, SendAction, ReadyToSend, Capture, CaptureFails,
                ClearMustGo, SendObservations, Evict, Shape, RcvPc
  <2>4. ctl'.pc \in CtlPc /\ ctl'.obs \in Seen
    <3>1. CASE \E pc \in CtlPc : CtlTo(pc)
      BY <3>1 DEF CtlTo, Shape
    <3>2. CASE ctl' = [ctl EXCEPT !.pc = "acting", !.step = Head(queue)]
      BY <3>2 DEF Shape, CtlPc
    <3>3. CASE ctl' = [ctl EXCEPT !.pc = "send",
                         !.obs = [step |-> Max({latest, 0}), pose |-> pose,
                                  go   |-> mustGo /\ queue = << >>]]
      <4>1. Max({latest, 0}) \in Steps
        BY StepOfObservation
      <4>2. ctl'.pc = "send" /\ ctl'.obs = [step |-> Max({latest, 0}), pose |-> pose,
                                            go   |-> mustGo /\ queue = << >>]
        BY <3>3 DEF Shape
      <4>3. (mustGo /\ queue = << >>) \in BOOLEAN
        OBVIOUS
      <4>4. ctl'.obs \in Observation
        BY <4>1, <4>2, <4>3 DEF Shape, Observation
      <4> QED BY <4>2, <4>4 DEF CtlPc, Seen
    <3> QED
      BY <1>3, <3>1, <3>2, <3>3
      DEF Control, ActionsAvailable, GetNowait, SendAction, ReadyToSend, Capture, CaptureFails,
          ClearMustGo, SendObservations, Evict, CtlPc
  <2> QED BY <1>1, <1>2, <2>1, <2>2, <2>3, <2>4
<1>4. CASE Answer
  <2>1. UNCHANGED ctl
    BY <1>4 DEF Answer, GetActions, AddPredicted, Preprocess, Reply, NoReply
  <2>2. obsQueue' \in Seen /\ infer'.obs \in Seen /\ infer'.pc \in InferPc
    BY <1>4, NoObsSeen DEF Answer, GetActions, AddPredicted, Preprocess, Reply, NoReply, Idle, Shape, InferPc
  <2>3. predicted' \subseteq Steps
    BY <1>4 DEF Answer, GetActions, AddPredicted, Preprocess, Reply, NoReply, StepTypes
  <2>4. lastProcessed' \in Poses \cup {None}
    <3>1. infer.obs.pose \in Poses \cup {None}
      BY DEF Seen, Observation, NoObs
    <3> QED BY <1>4, <3>1 DEF Answer, GetActions, AddPredicted, Preprocess, Reply, NoReply
  <2>5. rcv'.pc \in RcvPc
    BY <1>4 DEF Answer, GetActions, AddPredicted, Preprocess, Reply, NoReply, RcvPc
  <2> QED BY <1>1, <1>2, <2>1, <2>2, <2>3, <2>4, <2>5
<1>5. CASE Receive
  <2>1. UNCHANGED <<ctl, server>>
    BY <1>5 DEF Receive, ReadQueue, KeepOne, SwapQueue, SetMustGo
  <2>2. rcv'.pc \in RcvPc
    <3>1. ReadQueue => rcv'.pc = "filter"
      BY DEF ReadQueue, Shape
    <3>2. KeepOne => rcv'.pc = rcv.pc
      BY DEF KeepOne, Shape
    <3>3. SwapQueue => rcv'.pc = "flag"
      BY DEF SwapQueue, Shape
    <3>4. SetMustGo => rcv'.pc = "calling"
      BY DEF SetMustGo, Calling
    <3> QED BY <1>5, <3>1, <3>2, <3>3, <3>4 DEF Receive, RcvPc
  <2> QED BY <1>1, <1>2, <2>1, <2>2 DEF server
<1> QED BY <1>3, <1>4, <1>5 DEF Next

LEMMA ShortEnough ==
    ASSUME NEW s \in Seq(Steps), Len(s) <= ChunkSize
    PROVE  s \in ShortSeq
<1>1. Len(s) \in 0..ChunkSize /\ s \in [1..Len(s) -> Steps]
  BY AsyncAssumption
<1> QED BY <1>1 DEF ShortSeq

(* Every variable keeps its type; in particular the client's queue never    *)
(* holds more than a chunk (_aggregate_action_queues).                      *)
THEOREM TypeCorrect == Spec => []TypeOK
<1> DEFINE Typed == ForwardInv /\ Sizes /\ Flags
<1>1. Init => Typed
  <2>1. Init => ForwardInv
    BY ForwardStarts
  <2>2. Init => Sizes
    BY AsyncAssumption DEF Init, Sizes, Calling
  <2>3. Init => Flags
    <3>1. Init => mustGo \in BOOLEAN /\ mixed \in BOOLEAN /\ astray \subseteq Causes
      BY DEF Init
    <3>2. Init => /\ predicted \subseteq Steps /\ lastProcessed \in Poses \cup {None}
                  /\ ctl.pc \in CtlPc /\ rcv.pc \in RcvPc /\ infer.pc \in InferPc
      BY DEF Init, Calling, Idle, CtlPc, RcvPc, InferPc
    <3>3. Init => ctl.obs \in Seen /\ infer.obs \in Seen /\ obsQueue \in Seen
      BY NoObsSeen DEF Init, Idle
    <3> QED BY <3>1, <3>2, <3>3, Zenon DEF Flags
  <2> QED BY <2>1, <2>2, <2>3
<1>2. Typed /\ [Next]_vars => Typed'
  <2>1. ASSUME Typed, UNCHANGED vars
        PROVE  Sizes' /\ Flags'
    BY <2>1 DEF vars, server, robot, Sizes, Flags
  <2> QED BY <2>1, ForwardKeeps, SizesStep, FlagsStep
<1>3. Typed => TypeOK
  <2> SUFFICES ASSUME Typed
               PROVE  TypeOK
    OBVIOUS
  <2>a. Len(rcv.todo) \in Nat /\ Len(rcv.kept) \in Nat /\ ChunkSize \in Nat
    BY AsyncAssumption DEF ForwardInv, StepTypes
  <2>b. Len(rcv.todo) + Len(rcv.kept) <= ChunkSize
    BY DEF Sizes
  <2>1. Len(rcv.todo) <= ChunkSize /\ Len(rcv.kept) <= ChunkSize
    BY <2>a, <2>b, SumFacts
  <2>2. queue \in ShortSeq /\ rcv.todo \in ShortSeq /\ rcv.kept \in ShortSeq
    BY <2>1, ShortEnough DEF Sizes, ForwardInv, StepTypes
  <2> QED BY <2>2 DEF TypeOK, ForwardInv, StepTypes, Shape, Flags, Seen
<1> HIDE DEF Typed
<1> QED BY <1>1, <1>2, <1>3, PTL DEF Spec
=============================================================================
