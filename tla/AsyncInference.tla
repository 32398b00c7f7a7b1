--------------------------- MODULE AsyncInference ---------------------------
(***************************************************************************)
(* Inference on another machine (async_inference): a robot client with a   *)
(* control thread (control_loop) and a receiver thread (receive_actions),  *)
(* and a policy server that keeps the newest observation worth predicting  *)
(* from.  Actions are their timesteps, an observation is the robot's pose  *)
(* with the timestep it was taken at; what aggregate_fn makes of two       *)
(* actions of one timestep is left out.  One client, already started.      *)
(***************************************************************************)
EXTENDS Integers, SequencesExt

CONSTANTS
    Poses,      \* robot poses that the server's similarity test tells apart
    None,       \* no observation, no pose
    ChunkSize,  \* actions in a chunk
    Enough,     \* an observation is sent when no more actions are queued:
                \* chunk_size_threshold times ChunkSize
    MaxStep     \* bound on timesteps: the policy predicts none beyond

(* With one action per chunk, or a threshold below zero, the client would   *)
(* never get beyond its first actions.                                      *)
ASSUME AsyncAssumption ==
    /\ Poses # {} /\ None \notin Poses
    /\ ChunkSize \in Nat \ {0, 1} /\ Enough \in 0..ChunkSize /\ MaxStep \in Nat

Steps == 0..MaxStep
Observation == [step : Steps, pose : Poses, go : BOOLEAN]

VARIABLES
    pose,           \* of the robot
    latest,         \* latest_action: timestep of the last action performed, or -1
    queue,          \* action_queue
    mustGo,         \* must_go: the next observation with an empty queue has to be processed
    ctl,            \* control thread: step, action popped, observation
    rcv,            \* receiver thread: step, actions received, those kept so far
    obsQueue,       \* the server's observation_queue: one or None
    predicted,      \* _predicted_timesteps
    lastProcessed,  \* pose of last_processed_obs, or None
    infer,          \* GetActions on the server: step and observation
    astray,         \* history: what befell must-go observations since the mark was
                    \* last raised, see Causes
    mixed           \* history: an action was performed while a chunk was compared with
                    \* latest

Causes == {"unsent",      \* the call with a must-go observation failed
           "unanswered",  \* inference failed, or its answer was lost, with the mark down
                          \* or a must-go observation at the server
           "early",       \* a chunk raised the mark while the call with a must-go
                          \* observation, which lowers it, had not returned
           "died"}        \* the receiver thread ended with a chunk in its hands

robot  == <<pose, latest>>
server == <<obsQueue, predicted, lastProcessed, infer>>
vars   == <<robot, queue, mustGo, ctl, rcv, server, astray, mixed>>

NoObs == [step |-> 0, pose |-> None, go |-> FALSE]
Idle  == [pc |-> "idle", obs |-> NoObs]
Calling == [pc |-> "calling", todo |-> << >>, kept |-> << >>]

Init ==
    /\ pose \in Poses /\ latest = -1 /\ queue = << >> /\ mustGo = TRUE
    /\ ctl = [pc |-> "act", step |-> 0, obs |-> NoObs]
    /\ rcv = Calling /\ infer = Idle
    /\ obsQueue = NoObs /\ predicted = {} /\ lastProcessed = None
    /\ astray = {} /\ mixed = FALSE

CtlTo(pc) == ctl' = [ctl EXCEPT !.pc = pc]
Note(causes) == astray' = astray \cup causes
Held      == obsQueue # NoObs
(* Some observation is on its way to become a chunk that is merged.         *)
Pending   == Held \/ infer.pc # "idle" \/ rcv.pc \in {"reading", "filter", "flag"}
(* A must-go observation has reached the server and is not yet noted as sent. *)
Lowering  == ctl.pc \in {"evict", "clear"} /\ ctl.obs.go
(* From then on no observation is a must-go one, until the server accepts   *)
(* one that is none.                                                        *)
MarkLost  == ~mustGo /\ ~Pending

-----------------------------------------------------------------------------
(* Faulty variants of the definitions below.                                *)

\* one action too many
Chunk_TooLong(s) == [i \in 1..Min({ChunkSize + 1, MaxStep - s + 1}) |-> s + i - 1]

\* the flag is raised for a chunk that brought new actions only
SetMustGo_WhenUseful ==
    /\ rcv.pc = "flag"
    /\ mustGo' = (mustGo \/ queue # << >>)
    /\ rcv' = Calling
    /\ astray' = {c \in {"early"} : Lowering}
    /\ UNCHANGED <<robot, queue, ctl, server, mixed>>

\* an observation is a must-go one when there are actions, not when there are none
Capture_GoWhenFed ==
    /\ ctl.pc = "capture"
    /\ ctl' = [ctl EXCEPT !.pc = "send",
                 !.obs = [step |-> Max({latest, 0}), pose |-> pose,
                          go   |-> mustGo /\ queue # << >>]]
    /\ UNCHANGED <<robot, queue, mustGo, rcv, server, astray, mixed>>

\* < for <=
KeepOne_Latest ==
    /\ rcv.pc = "filter" /\ rcv.todo # << >>
    /\ rcv' = [rcv EXCEPT !.todo = Tail(@),
                          !.kept = IF Head(rcv.todo) < latest THEN @
                                   ELSE Append(@, Head(rcv.todo))]
    /\ mixed' = (mixed \/ ctl.pc = "acting")
    /\ UNCHANGED <<robot, queue, mustGo, ctl, server, astray>>

-----------------------------------------------------------------------------
(* The client's control thread: perform an action, send an observation      *)

ActionsAvailable ==
    /\ ctl.pc = "act"
    /\ CtlTo(IF queue = << >> THEN "observe" ELSE "pop")
    /\ UNCHANGED <<robot, queue, mustGo, rcv, server, astray, mixed>>

(* A chunk without new actions may have emptied the queue since: get_nowait *)
(* raises.  The receiver reads the queue without its lock: it raises when   *)
(* the queue changes under it.                                              *)
GetNowait ==
    /\ ctl.pc = "pop"
    /\ IF queue = << >>
       THEN CtlTo("dead") /\ UNCHANGED <<queue, rcv, astray, mixed>>
       ELSE /\ ctl' = [ctl EXCEPT !.pc = "acting", !.step = Head(queue)]
            /\ queue' = Tail(queue)
            /\ rcv' = IF rcv.pc = "reading" THEN [rcv EXCEPT !.pc = "dead"] ELSE rcv
            /\ Note({c \in {"died"} : rcv.pc = "reading"})
            /\ mixed' = (mixed \/ rcv.pc = "filter")
    /\ UNCHANGED <<robot, mustGo, server>>

SendAction ==
    /\ ctl.pc = "acting"
    /\ pose' \in Poses
    /\ latest' = ctl.step
    /\ CtlTo("observe")
    /\ UNCHANGED <<queue, mustGo, rcv, server, astray, mixed>>

ReadyToSend ==
    /\ ctl.pc = "observe"
    /\ CtlTo(IF Len(queue) <= Enough THEN "capture" ELSE "act")
    /\ UNCHANGED <<robot, queue, mustGo, rcv, server, astray, mixed>>

Capture ==
    /\ ctl.pc = "capture"
    /\ ctl' = [ctl EXCEPT !.pc = "send",
                 !.obs = [step |-> Max({latest, 0}), pose |-> pose,
                          go   |-> mustGo /\ queue = << >>]]
    /\ UNCHANGED <<robot, queue, mustGo, rcv, server, astray, mixed>>

(* Reading the robot raises; the loop goes on.                              *)
CaptureFails ==
    /\ ctl.pc = "capture"
    /\ CtlTo("act")
    /\ UNCHANGED <<robot, queue, mustGo, rcv, server, astray, mixed>>

(* After the call, whatever came of it.                                     *)
ClearMustGo ==
    /\ ctl.pc = "clear"
    /\ mustGo' = (mustGo /\ ~ctl.obs.go)
    /\ CtlTo("act")
    /\ UNCHANGED <<robot, queue, rcv, server, astray, mixed>>

-----------------------------------------------------------------------------
(* The server                                                               *)

Accepts(obs) ==
    \/ obs.go \/ lastProcessed = None
    \/ obs.step \notin predicted /\ obs.pose # lastProcessed

SendObservations ==
    /\ ctl.pc = "send"
    /\ \/ /\ ~Accepts(ctl.obs) /\ CtlTo("clear")
          /\ UNCHANGED <<obsQueue, astray>>
       \/ /\ Accepts(ctl.obs) /\ Held /\ CtlTo("evict")
          /\ UNCHANGED <<obsQueue, astray>>
       \/ /\ Accepts(ctl.obs) /\ ~Held /\ CtlTo("clear")
          /\ obsQueue' = ctl.obs
          /\ UNCHANGED astray
       \/ CtlTo("clear") /\ Note({c \in {"unsent"} : ctl.obs.go}) /\ UNCHANGED obsQueue
    /\ UNCHANGED <<robot, queue, mustGo, rcv, predicted, lastProcessed, infer, mixed>>

(* The queue was full: its observation makes room.  If GetActions took it   *)
(* first, get_nowait raises, and the new observation is gone.               *)
Evict ==
    /\ ctl.pc = "evict"
    /\ obsQueue' = IF Held THEN ctl.obs ELSE obsQueue
    /\ CtlTo("clear")
    /\ UNCHANGED <<robot, queue, mustGo, rcv, predicted, lastProcessed, infer, astray, mixed>>

GetActions ==
    /\ rcv.pc = "calling" /\ infer.pc = "idle" /\ Held
    /\ infer' = [pc |-> "taken", obs |-> obsQueue]
    /\ obsQueue' = NoObs
    /\ UNCHANGED <<robot, queue, mustGo, ctl, rcv, predicted, lastProcessed, astray, mixed>>

AddPredicted ==
    /\ infer.pc = "taken"
    /\ predicted' = predicted \cup {infer.obs.step}
    /\ infer' = [infer EXCEPT !.pc = "prepare"]
    /\ UNCHANGED <<robot, queue, mustGo, ctl, rcv, obsQueue, lastProcessed, astray, mixed>>

Preprocess ==
    /\ infer.pc = "prepare"
    /\ lastProcessed' = infer.obs.pose
    /\ infer' = [infer EXCEPT !.pc = "predict"]
    /\ UNCHANGED <<robot, queue, mustGo, ctl, rcv, obsQueue, predicted, astray, mixed>>

Chunk(s) == [i \in 1..Min({ChunkSize, MaxStep - s + 1}) |-> s + i - 1]

Reply ==
    /\ infer.pc = "predict"
    /\ infer' = Idle
    /\ rcv' = [pc |-> "reading", todo |-> Chunk(infer.obs.step), kept |-> << >>]
    /\ UNCHANGED <<robot, queue, mustGo, ctl, obsQueue, predicted, lastProcessed, astray, mixed>>

(* Preparing or predicting raises, and the answer is empty; or it is lost.  *)
NoReply ==
    /\ infer.pc \in {"prepare", "predict"}
    /\ infer' = Idle
    /\ Note({c \in {"unanswered"} : ~mustGo \/ Lowering})
    /\ UNCHANGED <<robot, queue, mustGo, ctl, rcv, obsQueue, predicted, lastProcessed, mixed>>

-----------------------------------------------------------------------------
(* The client's receiver thread: _aggregate_action_queues                   *)

ReadQueue ==
    /\ rcv.pc = "reading"
    /\ rcv' = [rcv EXCEPT !.pc = "filter"]
    /\ UNCHANGED <<robot, queue, mustGo, ctl, server, astray, mixed>>

KeepOne ==
    /\ rcv.pc = "filter" /\ rcv.todo # << >>
    /\ rcv' = [rcv EXCEPT !.todo = Tail(@),
                          !.kept = IF Head(rcv.todo) <= latest THEN @
                                   ELSE Append(@, Head(rcv.todo))]
    /\ mixed' = (mixed \/ ctl.pc = "acting")
    /\ UNCHANGED <<robot, queue, mustGo, ctl, server, astray>>

SwapQueue ==
    /\ rcv.pc = "filter" /\ rcv.todo = << >>
    /\ queue' = rcv.kept
    /\ rcv' = [rcv EXCEPT !.pc = "flag", !.kept = << >>]
    /\ UNCHANGED <<robot, mustGo, ctl, server, astray, mixed>>

SetMustGo ==
    /\ rcv.pc = "flag"
    /\ mustGo' = TRUE
    /\ rcv' = Calling
    /\ astray' = {c \in {"early"} : Lowering}
    /\ UNCHANGED <<robot, queue, ctl, server, mixed>>

-----------------------------------------------------------------------------
Control ==
    \/ ActionsAvailable \/ GetNowait \/ SendAction \/ ReadyToSend \/ Capture
    \/ CaptureFails \/ ClearMustGo \/ SendObservations \/ Evict

Answer == GetActions \/ AddPredicted \/ Preprocess \/ Reply \/ NoReply

Receive == ReadQueue \/ KeepOne \/ SwapQueue \/ SetMustGo

Next == Control \/ Answer \/ Receive

(* The two threads of the client and the server's handlers keep running;    *)
(* reading the robot and inference may fail any number of times, not for    *)
(* ever.                                                                    *)
Fairness ==
    /\ WF_vars(Control) /\ WF_vars(Answer) /\ WF_vars(Receive)
    /\ SF_vars(Capture) /\ SF_vars(Preprocess) /\ SF_vars(Reply)

Spec == Init /\ [][Next]_vars /\ Fairness

-----------------------------------------------------------------------------
CtlPc   == {"act", "pop", "acting", "observe", "capture", "send", "evict", "clear", "dead"}
RcvPc   == {"calling", "reading", "filter", "flag", "dead"}
InferPc == {"idle", "taken", "prepare", "predict"}

ShortSeq == UNION {[1..n -> Steps] : n \in 0..ChunkSize}

TypeOK ==
    /\ pose \in Poses /\ latest \in Steps \cup {-1} /\ mustGo \in BOOLEAN
    /\ queue \in ShortSeq
    /\ ctl.pc \in CtlPc /\ ctl.step \in Steps /\ ctl.obs \in Observation \cup {NoObs}
    /\ rcv.pc \in RcvPc /\ rcv.todo \in ShortSeq /\ rcv.kept \in ShortSeq
    /\ obsQueue \in Observation \cup {NoObs} /\ predicted \subseteq Steps
    /\ lastProcessed \in Poses \cup {None}
    /\ infer.pc \in InferPc /\ infer.obs \in Observation \cup {NoObs}
    /\ astray \subseteq Causes /\ mixed \in BOOLEAN

(* robot_client.py:436, "must-go event will be set again after receiving    *)
(* actions": a mark that is down has a chunk on its way that raises it,     *)
(* unless since it was last raised a must-go observation met one of the     *)
(* four Causes.  A failed call or inference for any other observation, an   *)
(* observation that is filtered out, pushed out of the server's queue or    *)
(* refused there, and a chunk without new actions never lose it; and once   *)
(* a chunk raises the mark again the past does not count.                   *)
GoIsAnswered == MarkLost => astray # {}

(* robot_client.py:245, "New action is older than the latest action in the  *)
(* queue, skip it": no timestep is performed twice, or after a later one,   *)
(* as long as no action is performed while a chunk is being compared.       *)
StepsForward == ~mixed /\ ctl.pc = "acting" => ctl.step > latest

(* robot_client.py:427, "If there are no actions left in the queue, the     *)
(* observation must go through processing!": a client without actions gets  *)
(* some, whatever calls fail and whatever the robot looks like to the       *)
(* similarity test, unless its mark gets lost (GoIsAnswered says how that   *)
(* happens) or one of its threads has ended by an exception.                *)
ActionsResume ==
    queue = << >> ~> \/ queue # << >> \/ latest = MaxStep
                     \/ MarkLost \/ ctl.pc = "dead" \/ rcv.pc = "dead"
=============================================================================
