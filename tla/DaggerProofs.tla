----------------------------- MODULE DaggerProofs -----------------------------
(***************************************************************************)
(* Proofs about Dagger and the inference engine in it, for any chunk size, *)
(* threshold, number of errors, warm-ups and episodes: types, the bound on *)
(* actions of an old observation, and that nothing saved stays local.      *)
(***************************************************************************)
EXTENDS Dagger, SequenceTheorems, TLAPS

(* Queues of actions.                                                       *)
Actions == {"stale", "fresh"}

LEMMA TailFacts ==
    ASSUME NEW s \in Seq(Actions), s # <<>>
    PROVE  Tail(s) \in Seq(Actions) /\ Len(Tail(s)) = Len(s) - 1 /\ Len(s) \in Nat
OBVIOUS

LEMMA ChunkFacts ==
    ASSUME NEW a \in Actions, NEW n \in Nat
    PROVE  /\ [i \in 1..n |-> a] \in Seq(Actions)
           /\ Len([i \in 1..n |-> a]) = n
OBVIOUS

LEMMA JoinFacts ==
    ASSUME NEW s \in Seq(Actions), NEW r \in Seq(Actions)
    PROVE  s \o r \in Seq(Actions) /\ Len(s \o r) = Len(s) + Len(r)
OBVIOUS

LEMMA EmptyFacts == <<>> \in Seq(Actions) /\ Len(<<>>) = 0
OBVIOUS

-----------------------------------------------------------------------------
(* The engine. An inference under way has an observation and found the      *)
(* queue short; the thread runs only while errors are left.                 *)

EngineInv ==
    /\ EngineTypeOK
    /\ pc \in {"size", "infer"} => stamp # "none"
    /\ pc = "infer" => Len(queue) <= Threshold
    /\ pc # "ended" => errors < MaxErrors

(* Once the loop has passed an observation on, the held one is fresh, so    *)
(* only the inference under way can be stale, and it is merged once.        *)
StaleInv ==
    /\ stale <= 1
    /\ told => obs = "fresh"
    /\ ~told => stale = 0
    /\ stale = 1 => stamp # "stale"

LEMMA AgedFacts ==
    ASSUME NEW o \in Ages
    PROVE  Aged(o) \in Ages /\ (Aged(o) = "none" <=> o = "none")
BY DEF Aged, Ages

LEMMA QueueLen ==
    ASSUME EngineInv
    PROVE  Len(queue) \in Nat /\ Threshold \in Nat /\ Chunk \in Nat
BY EngineAssumption DEF EngineInv, EngineTypeOK

EngineCall == Pause \/ ResetAndResume \/ Notify \/ GetAction \/ UNCHANGED engine

LEMMA CallStep ==
    ASSUME EngineInv, StaleInv, EngineCall
    PROVE  EngineInv' /\ StaleInv'
<1> USE EngineAssumption
<1>1. CASE Pause
  BY <1>1 DEF Pause, thread, EngineInv, EngineTypeOK, StaleInv
<1>2. CASE ResetAndResume
  <2>1. /\ queue' = <<>> /\ active' = TRUE /\ told' = FALSE /\ stale' = 0
        /\ UNCHANGED <<pc, errors, failed, warm>>
        /\ obs' = Aged(obs) /\ stamp' = Aged(stamp)
    BY <1>2 DEF ResetAndResume
  <2>2. obs' \in Ages /\ stamp' \in Ages /\ (stamp' = "none" <=> stamp = "none")
    BY <2>1, AgedFacts DEF EngineInv, EngineTypeOK
  <2>3. queue' \in Seq({"stale", "fresh"}) /\ Len(queue') <= Threshold + Chunk /\ Len(queue') <= Threshold
    BY <2>1, EmptyFacts DEF Actions
  <2>4. EngineTypeOK'
    BY <2>1, <2>2, <2>3 DEF EngineInv, EngineTypeOK
  <2>5. EngineInv'
    BY <2>1, <2>2, <2>3, <2>4 DEF EngineInv
  <2> QED BY <2>1, <2>5 DEF StaleInv
<1>3. CASE Notify
  BY <1>3 DEF Notify, thread, EngineInv, EngineTypeOK, StaleInv, Ages
<1>4. CASE GetAction
  <2>1. UNCHANGED <<active, obs, thread, warm, told, stale>>
    BY <1>4 DEF GetAction
  <2>2. queue' \in Seq({"stale", "fresh"}) /\ Len(queue') <= Len(queue) /\ Len(queue') \in Nat
    <3>1. CASE queue = <<>>
      BY <1>4, <3>1, EmptyFacts DEF GetAction, Actions
    <3>2. CASE queue # <<>>
      <4>1. queue' = Tail(queue) /\ queue \in Seq(Actions)
        BY <1>4, <3>2 DEF GetAction, EngineInv, EngineTypeOK, Actions
      <4> QED BY <3>2, <4>1, TailFacts DEF Actions
    <3> QED BY <3>1, <3>2
  <2>3. EngineTypeOK'
    BY <2>1, <2>2, QueueLen DEF EngineInv, EngineTypeOK, thread
  <2> QED BY <2>1, <2>2, <2>3, QueueLen DEF EngineInv, StaleInv, thread
<1>5. CASE UNCHANGED engine
  BY <1>5 DEF engine, holder, thread, EngineInv, EngineTypeOK, StaleInv
<1> QED BY <1>1, <1>2, <1>3, <1>4, <1>5 DEF EngineCall

LEMMA MergeTypes ==
    ASSUME EngineInv, Merge
    PROVE  queue' \in Seq({"stale", "fresh"}) /\ Len(queue') <= Threshold + Chunk
<1>1. stamp \in Actions /\ queue \in Seq(Actions) /\ Len(queue) <= Threshold
  BY DEF Merge, Goes, EngineInv, EngineTypeOK, Ages, Actions
<1>2. PICK late \in 0..Chunk : queue' = Merged([i \in 1..Chunk - late |-> stamp])
  BY EngineAssumption DEF Merge
<1> DEFINE n == Chunk - late
           chunk == [i \in 1..n |-> stamp]
<1>3. n \in Nat /\ n <= Chunk
  BY <1>2, EngineAssumption
<1>4. chunk \in Seq(Actions) /\ Len(chunk) = n
  BY <1>1, <1>3, ChunkFacts
<1>5. queue' = IF RtcEnabled THEN chunk ELSE queue \o chunk
  BY <1>2 DEF Merged
<1> HIDE DEF chunk, n
<1>6. CASE RtcEnabled
  BY <1>3, <1>4, <1>5, <1>6, EngineAssumption DEF Actions
<1>7. CASE ~RtcEnabled
  <2>1. queue \o chunk \in Seq(Actions) /\ Len(queue \o chunk) = Len(queue) + n
    BY <1>1, <1>4, JoinFacts
  <2> QED BY <1>1, <1>3, <1>5, <1>7, <2>1, QueueLen DEF Actions
<1> QED BY <1>6, <1>7

LEMMA ThreadKeeps ==
    ASSUME EngineInv, StaleInv, NEW b \in BOOLEAN, Thread(b)
    PROVE  EngineInv' /\ StaleInv'
<1> USE EngineAssumption
<1>1. CASE StopSeen(b)
  BY <1>1 DEF StopSeen, Goes, holder, EngineInv, EngineTypeOK, StaleInv
<1>2. CASE TakeObs
  BY <1>2 DEF TakeObs, Goes, holder, EngineInv, EngineTypeOK, StaleInv, Ages
<1>3. CASE LookAtQueue
  BY <1>3 DEF LookAtQueue, Goes, holder, EngineInv, EngineTypeOK, StaleInv, Ages
<1>4. CASE Merge
  <2>1. /\ pc = "infer" /\ pc' = "poll" /\ errors' = 0 /\ stamp' = "none"
        /\ warm' = (IF ready THEN 0 ELSE warm - 1)
        /\ stale' = (IF told /\ stamp = "stale" THEN stale + 1 ELSE stale)
        /\ UNCHANGED <<active, obs, failed, told>>
    BY <1>4 DEF Merge, Goes
  <2>2. warm' \in 0..Warmups
    BY <2>1 DEF ready, EngineInv, EngineTypeOK
  <2>3. failed' = (errors' = MaxErrors) /\ errors' \in 0..MaxErrors
    BY <2>1 DEF EngineInv, EngineTypeOK
  <2>4. EngineTypeOK'
    BY <1>4, <2>1, <2>2, <2>3, MergeTypes DEF EngineInv, EngineTypeOK, Ages
  <2>5. StaleInv'
    BY <2>1 DEF StaleInv, EngineInv, EngineTypeOK
  <2> QED BY <2>1, <2>4, <2>5 DEF EngineInv
<1>5. CASE InferFails
  <2>1. /\ pc = "infer" /\ errors' = errors + 1 /\ stamp' = "none"
        /\ pc' = (IF errors' >= MaxErrors THEN "ended" ELSE "poll")
        /\ failed' = (errors' >= MaxErrors)
        /\ warm' = (IF errors' >= MaxErrors THEN 0 ELSE warm)
        /\ UNCHANGED <<active, obs, queue, told, stale>>
    BY <1>5 DEF InferFails, holder
  <2>2. errors' \in 0..MaxErrors /\ (errors' >= MaxErrors <=> errors' = MaxErrors)
    BY <2>1 DEF EngineInv, EngineTypeOK
  <2>3. EngineTypeOK'
    BY <2>1, <2>2 DEF EngineInv, EngineTypeOK, Ages
  <2> QED BY <2>1, <2>2, <2>3 DEF EngineInv, StaleInv
<1> QED BY <1>1, <1>2, <1>3, <1>4, <1>5 DEF Thread

-----------------------------------------------------------------------------
(* Every step of Dagger is one call of the engine or a step of its thread.  *)

LEMMA TransitionFacts ==
    ASSUME Transition, phase \in DOMAIN Transitions
    PROVE  /\ main = "top" /\ ~Over /\ pending' = "none" /\ EngineCall
           /\ phase' \in DOMAIN Transitions
           /\ main' \in {Acts, "save"}
           /\ main' = "save" => mode = "corrections"
           /\ UNCHANGED <<mode, stopAsked, uploadAsked, store, push>>
<1>1. DOMAIN Transitions = {"AUTONOMOUS", "PAUSED", "CORRECTING"}
  BY DEF Transitions
<1>2. CASE pending \in DOMAIN Transitions[phase]
  <2>1. phase' = Transitions[phase][pending]
    BY <1>2 DEF Transition
  <2>2. Transitions[phase][pending] \in {"AUTONOMOUS", "PAUSED", "CORRECTING"}
    BY <1>1, <1>2 DEF Transitions
  <2>3. EngineCall
    BY <1>2 DEF Transition, EngineCall
  <2>4. main' \in {Acts, "save"} /\ (main' = "save" => mode = "corrections")
    BY <1>2 DEF Transition, Acts
  <2> QED BY <1>1, <2>1, <2>2, <2>3, <2>4 DEF Transition
<1>3. CASE pending \notin DOMAIN Transitions[phase]
  BY <1>1, <1>3 DEF Transition, EngineCall, Acts
<1> QED BY <1>2, <1>3

LEMMA OneCall ==
    ASSUME [Next]_vars, phase \in DOMAIN Transitions
    PROVE  EngineCall \/ \E b \in BOOLEAN : Thread(b)
<1>1. CASE Operator
  BY <1>1 DEF Operator, AskUpload, AskStop, Request, EngineCall
<1>2. CASE MainStep
  <2>1. CASE Transition
    BY <2>1, TransitionFacts
  <2>2. CASE ~Transition
    BY <1>2, <2>2 DEF MainStep, EngineCall, Start, LeaveLoop, Interrupted, NoTransition, Upload,
       ActByHand, HoldPosition, ActAutonomously, WarmingUp, FlushWarmup, SendNextAction, Rotate,
       Save, SaveFails, Flag, FinalSave, FinalSaveFails, FinalFlag, Close, CloseFails, Teardown, TeardownFails, LastPush,
       LastPushFails
  <2> QED BY <2>1, <2>2
<1>3. CASE ThreadStep
  <2>1. (main \in {"done", "crashed"}) \in BOOLEAN
    OBVIOUS
  <2> QED BY <1>3, <2>1 DEF ThreadStep
<1>4. CASE PushStep
  BY <1>4 DEF PushStep, PushBegins, PushFails, Pushed, Uploading, Pusher, copies, EngineCall
<1>5. CASE UNCHANGED vars
  BY <1>5 DEF vars, EngineCall
<1> QED BY <1>1, <1>2, <1>3, <1>4, <1>5 DEF Next

-----------------------------------------------------------------------------
(* Types of the rest. A correction is saved only while some are wanted, and *)
(* only a continuous session cuts its recording into episodes.              *)

Mains == {"start", "top", "upload", "act", "get", "rotate", "save", "flag",
          "final", "finalflag", "closing", "teardown", "lastpush", "done", "crashed"}

Flags ==
    /\ stopAsked \in BOOLEAN /\ uploadAsked \in BOOLEAN /\ flushed \in BOOLEAN
    /\ frames \in BOOLEAN /\ needs \in BOOLEAN
    /\ closed \in BOOLEAN /\ early \in BOOLEAN /\ hub \in {"whole", "raw", "behind"}

SessionTypes ==
    /\ Flags
    /\ mode \in {"continuous", "corrections"} /\ phase \in DOMAIN Transitions
    /\ pending \in {"none", "pause_resume", "correction"}
    /\ main \in Mains
    /\ recorded \in 0..NumEpisodes /\ since \in 0..UploadEvery - 1
    /\ jobs \in 0..MaxJobs /\ pusher \in {"idle", "open", "whole"}

Wanted ==
    /\ main = "rotate" => mode = "continuous"
    /\ mode = "corrections" /\ main \in {"save", "flag"} => recorded < NumEpisodes

SessionInv == SessionTypes /\ Wanted

LEMMA SubmitFacts ==
    ASSUME jobs \in 0..MaxJobs, NEW w \in BOOLEAN, Submit(w)
    PROVE  jobs' \in 0..MaxJobs
BY DaggerAssumption DEF Submit, Least

LEMMA Continuous == SessionInv /\ mode # "corrections" => Wanted /\ mode = "continuous"
BY DEF SessionInv, SessionTypes

LEMMA FlagTypes ==
    ASSUME SessionInv, [Next]_vars
    PROVE  Flags'
<1> USE DEF SessionInv, SessionTypes, Flags
<1>1. CASE Operator
  BY <1>1 DEF Operator, AskUpload, AskStop, Request, store, push, copies
<1>2. CASE MainStep
  <2>1. CASE Start \/ LeaveLoop \/ Interrupted \/ NoTransition
    BY <2>1 DEF Start, LeaveLoop, Interrupted, NoTransition, events, store, push, copies
  <2>2. CASE Transition
    BY <2>2 DEF Transition, store, push, copies
  <2>3. CASE Upload \/ ActByHand \/ HoldPosition \/ ActAutonomously
    BY <2>3 DEF Upload, ActByHand, HoldPosition, ActAutonomously, events, store, push, copies
  <2>4. CASE WarmingUp \/ FlushWarmup \/ SendNextAction \/ Rotate
    BY <2>4 DEF WarmingUp, FlushWarmup, SendNextAction, Rotate, events, store, push, copies
  <2>5. CASE Save \/ SaveFails \/ FinalSave \/ FinalSaveFails
    BY <2>5 DEF Save, SaveFails, FinalSave, FinalSaveFails, SaveEpisode, SaveRaises, events, store, push, copies
  <2>6. CASE Flag \/ FinalFlag
    BY <2>6 DEF Flag, FinalFlag, events, store
  <2>7. CASE Close \/ CloseFails \/ Teardown \/ TeardownFails \/ LastPush \/ LastPushFails
    BY <2>7 DEF Close, CloseFails, Teardown, TeardownFails, LastPush, LastPushFails, events, store, push, copies
  <2> QED BY <1>2, <2>1, <2>2, <2>3, <2>4, <2>5, <2>6, <2>7 DEF MainStep
<1>3. CASE ThreadStep
  BY <1>3 DEF ThreadStep, events, store, push, copies
<1>4. CASE PushStep
  BY <1>4 DEF PushStep, PushBegins, PushFails, Pushed, Uploading, Pusher, copies, events, store
<1>5. CASE UNCHANGED vars
  BY <1>5 DEF vars, events, store, push, copies
<1> QED BY <1>1, <1>2, <1>3, <1>4, <1>5 DEF Next

LEMMA MainTypes ==
    ASSUME SessionInv, MainStep
    PROVE  SessionInv'
<1> USE DaggerAssumption DEF SessionInv, SessionTypes, Wanted, Mains, At
<1>0. Flags'
  <2>1. Next
    BY DEF Next
  <2> QED BY <2>1, FlagTypes
<1> USE <1>0
<1>1. CASE Start
  BY <1>1 DEF Start, store, push, copies, Transitions
<1>2. CASE LeaveLoop \/ Interrupted \/ NoTransition
  BY <1>2 DEF LeaveLoop, Interrupted, NoTransition, Acts, events, store, push, copies
<1>3. CASE Transition
  BY <1>3, TransitionFacts DEF Over, Acts, store, push, copies
<1>4. CASE Upload
  <2>1. jobs' \in 0..MaxJobs
    <3>1. uploadAsked \in BOOLEAN /\ Submit(uploadAsked)
      BY <1>4 DEF Upload, Flags
    <3> QED BY <3>1, SubmitFacts
  <2> QED BY <1>4, <2>1 DEF Upload, store
<1>5. CASE ActByHand \/ HoldPosition
  BY <1>5 DEF ActByHand, HoldPosition, AfterAct, events, store, push, copies
<1>13. CASE ActAutonomously
  BY <1>13 DEF ActAutonomously, events, store, push, copies
<1>6. CASE WarmingUp \/ FlushWarmup
  BY <1>6 DEF WarmingUp, FlushWarmup, events, store, push, copies
<1>7. CASE SendNextAction
  <2>1. main' = AfterAct /\ frames' \in BOOLEAN
    BY <1>7 DEF SendNextAction
  <2> QED BY <1>7, <2>1 DEF SendNextAction, AfterAct, events, push, copies
<1>8. CASE Rotate
  BY <1>8 DEF Rotate, events, store, push, copies
<1>9. CASE Save \/ FinalSave
  BY <1>9 DEF Save, FinalSave, SaveEpisode, events
<1>10. CASE SaveFails \/ FinalSaveFails
  BY <1>10 DEF SaveFails, FinalSaveFails, SaveRaises, events, store, push, copies
<1>11. CASE Flag
  <2>1. CASE mode = "corrections"
    BY <1>11, <2>1 DEF Flag, events
  <2>2. CASE mode # "corrections"
    <3> DEFINE due == since + 1 >= UploadEvery
    <3>1. due \in BOOLEAN
      OBVIOUS
    <3>2. since' = (IF due THEN 0 ELSE since + 1) /\ Submit(due) /\ recorded' = recorded
      BY <1>11, <2>2 DEF Flag
    <3>3. since' \in 0..UploadEvery - 1
      BY <3>2
    <3> HIDE DEF due
    <3>4. jobs' \in 0..MaxJobs
      BY <3>1, <3>2, SubmitFacts
    <3> QED BY <1>11, <2>2, <3>2, <3>3, <3>4 DEF Flag, events
  <2> QED BY <2>1, <2>2
<1>12. CASE FinalFlag \/ Close
  BY <1>12 DEF FinalFlag, Close, events, store, push, copies
<1>14. CASE CloseFails \/ Teardown \/ TeardownFails
  BY <1>14 DEF CloseFails, Teardown, TeardownFails, events, store, push, copies
<1>15. CASE LastPush \/ LastPushFails
  BY <1>15 DEF LastPush, LastPushFails, events, store, push, copies
<1> QED BY <1>1, <1>2, <1>3, <1>4, <1>5, <1>6, <1>7, <1>8, <1>9, <1>10, <1>11, <1>12, <1>13,
   <1>14, <1>15 DEF MainStep

LEMMA SessionStep == SessionInv /\ [Next]_vars => SessionInv'
<1> SUFFICES ASSUME SessionInv, [Next]_vars
             PROVE  SessionInv'
  OBVIOUS
<1>0. Flags'
  BY FlagTypes
<1>1. CASE Operator
  <2>1. CASE AskUpload \/ AskStop
    BY <1>0, <2>1 DEF AskUpload, AskStop, store, push, copies, SessionInv, SessionTypes, Wanted
  <2>2. CASE \E e \in {"pause_resume", "correction"} : Request(e)
    BY <1>0, <2>2 DEF Request, store, push, copies, SessionInv, SessionTypes, Wanted
  <2> QED BY <1>1, <2>1, <2>2 DEF Operator
<1>2. CASE MainStep
  BY <1>2, MainTypes
<1>3. CASE ThreadStep
  BY <1>0, <1>3 DEF ThreadStep, events, store, push, copies, SessionInv, SessionTypes, Wanted
<1>4. CASE PushStep
  <2>1. UNCHANGED <<mode, phase, pending, main, recorded, since>> /\ pusher' \in {"idle", "open", "whole"}
    BY <1>4 DEF PushStep, PushBegins, PushFails, Pushed, Uploading, Pusher, copies, events, store
  <2>2. jobs' = jobs \/ (jobs > 0 /\ jobs' = jobs - 1)
    BY <1>4 DEF PushStep, PushBegins, PushFails, Pushed
  <2>3. jobs' \in 0..MaxJobs
    BY <2>2, DaggerAssumption DEF SessionInv, SessionTypes
  <2> QED BY <1>0, <2>1, <2>3 DEF SessionInv, SessionTypes, Wanted
<1>5. CASE UNCHANGED vars
  BY <1>0, <1>5 DEF vars, events, store, push, copies, SessionInv, SessionTypes, Wanted
<1> QED BY <1>1, <1>2, <1>3, <1>4, <1>5 DEF Next

-----------------------------------------------------------------------------
(* A saved episode that the Hub lacks, or has only in part, is flagged, or   *)
(* is about to be by the very thread that saved it, or a push that began    *)
(* before finalize has lowered the flag since; the last look at the flag    *)
(* comes after that thread has set it and the pushes are over.              *)

FlagInv ==
    /\ hub # "whole" => needs \/ main \in {"flag", "finalflag"} \/ (early /\ hub = "raw")
    /\ main = "done" => hub = "whole" \/ (early /\ hub = "raw")

LEMMA FlagStep == SessionInv /\ FlagInv /\ [Next]_vars => FlagInv'
<1> SUFFICES ASSUME SessionInv, FlagInv, [Next]_vars
             PROVE  FlagInv'
  OBVIOUS
<1> USE DEF FlagInv
<1>1. CASE Operator
  BY <1>1 DEF Operator, AskUpload, AskStop, Request, push, copies
<1>2. CASE MainStep
  <2>1. CASE Transition
    <3>1. main = "top" /\ main' \in {"upload", "act", "save"} /\ UNCHANGED push
      BY <2>1, TransitionFacts DEF SessionInv, SessionTypes, Acts
    <3> QED BY <3>1 DEF push, copies
  <2>2. CASE Start \/ LeaveLoop \/ Interrupted \/ NoTransition
    BY <2>2 DEF Start, LeaveLoop, Interrupted, NoTransition, At, Acts, push, copies
  <2>3. CASE Upload \/ ActByHand \/ HoldPosition \/ ActAutonomously
    BY <2>3 DEF Upload, ActByHand, HoldPosition, ActAutonomously, At, AfterAct, push, copies
  <2>4. CASE WarmingUp \/ FlushWarmup \/ SendNextAction \/ Rotate
    BY <2>4 DEF WarmingUp, FlushWarmup, SendNextAction, Rotate, At, AfterAct, push, copies
  <2>5. CASE Save \/ SaveFails \/ FinalSave \/ FinalSaveFails
    BY <2>5 DEF Save, SaveFails, FinalSave, FinalSaveFails, SaveEpisode, SaveRaises, At, push, copies
  <2>6. CASE Flag \/ FinalFlag
    BY <2>6 DEF Flag, FinalFlag, At
  <2>7. CASE Close \/ CloseFails \/ Teardown \/ TeardownFails \/ LastPush \/ LastPushFails
    BY <2>7 DEF Close, CloseFails, Teardown, TeardownFails, LastPush, LastPushFails, At, push, copies
  <2> QED BY <1>2, <2>1, <2>2, <2>3, <2>4, <2>5, <2>6, <2>7 DEF MainStep
<1>3. CASE ThreadStep
  BY <1>3 DEF ThreadStep, push, copies
<1>4. CASE PushStep
  <2>1. CASE PushBegins \/ PushFails
    BY <2>1 DEF PushBegins, PushFails, Uploading, Pusher, copies
  <2>2. CASE Pushed
    <3>1. main' = main /\ pusher \in {"open", "whole"}
      BY <2>2 DEF Pushed, Uploading, Pusher, SessionInv, SessionTypes
    <3>2. hub' = "whole" \/ (hub' = "raw" /\ pusher = "open")
      BY <2>2, <3>1 DEF Pushed
    <3> QED BY <2>2, <3>1, <3>2 DEF Pushed
  <2> QED BY <1>4, <2>1, <2>2 DEF PushStep
<1>5. CASE UNCHANGED vars
  BY <1>5 DEF vars, push, copies
<1> QED BY <1>1, <1>2, <1>3, <1>4, <1>5 DEF Next

-----------------------------------------------------------------------------
Inv == SessionInv /\ FlagInv /\ EngineInv /\ StaleInv

LEMMA InvHolds == Spec => []Inv
<1>1. Init => Inv
  <2> SUFFICES ASSUME Init PROVE Inv
    OBVIOUS
  <2>1. SessionInv
    <3>1. Flags
      BY DEF Init, ready, Flags
    <3>2. "AUTONOMOUS" \in DOMAIN Transitions
      BY DEF Transitions
    <3> QED BY <3>1, <3>2, DaggerAssumption DEF Init, SessionInv, SessionTypes, Wanted, Mains
  <2>2. FlagInv
    BY DEF Init, FlagInv
  <2>3. EngineInv /\ StaleInv
    <3>1. /\ active = FALSE /\ obs = "none" /\ queue = <<>> /\ pc = "poll" /\ stamp = "none"
          /\ errors = 0 /\ failed = FALSE /\ warm = Warmups /\ told = FALSE /\ stale = 0
      BY DEF Init, EngineInit
    <3>2. queue \in Seq({"stale", "fresh"}) /\ Len(queue) <= Threshold + Chunk
      BY <3>1, EmptyFacts, EngineAssumption DEF Actions
    <3>3. errors \in 0..MaxErrors /\ errors # MaxErrors /\ warm \in 0..Warmups
      BY <3>1, EngineAssumption
    <3>4. EngineTypeOK
      BY <3>1, <3>2, <3>3 DEF EngineTypeOK, Ages
    <3> QED BY <3>1, <3>4, EngineAssumption DEF EngineInv, StaleInv
  <2> QED BY <2>1, <2>2, <2>3 DEF Inv
<1>2. Inv /\ [Next]_vars => Inv'
  <2> SUFFICES ASSUME Inv, [Next]_vars PROVE Inv'
    OBVIOUS
  <2>1. EngineCall \/ \E b \in BOOLEAN : Thread(b)
    BY OneCall DEF Inv, SessionInv, SessionTypes
  <2>2. EngineInv' /\ StaleInv'
    BY <2>1, CallStep, ThreadKeeps DEF Inv
  <2> QED BY <2>2, SessionStep, FlagStep DEF Inv
<1> QED BY <1>1, <1>2, PTL DEF Spec

(* Every variable of the session and of the engine keeps its type, and the  *)
(* action queue never holds more than a chunk above its threshold           *)
(* (DAggerStrategy, RTCInferenceEngine, ActionQueue).                       *)
THEOREM TypeCorrect == Spec => []TypeOK
<1>1. Inv => TypeOK
  BY DEF Inv, SessionInv, SessionTypes, Flags, EngineInv, TypeOK, Mains
<1> QED BY <1>1, InvHolds, PTL

(* After the loop has passed on its first observation since a reset, at     *)
(* most one chunk of an older one is merged (RTCInferenceEngine._rtc_loop). *)
THEOREM OldChunksEnd == Spec => []StaleIsBounded
<1>1. Inv => StaleIsBounded
  BY DEF Inv, StaleInv, StaleIsBounded
<1> QED BY <1>1, InvHolds, PTL

(* A session that ends well has sent every saved episode to the Hub, and in *)
(* full unless a push that began before finalize lowered the flag           *)
(* (_background_push, teardown).                                            *)
THEOREM NothingStaysBehind == Spec => []EverythingUploaded
<1>1. Inv => EverythingUploaded
  BY DEF Inv, FlagInv, EverythingUploaded
<1> QED BY <1>1, InvHolds, PTL
=============================================================================
