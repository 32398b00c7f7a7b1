------------------------------ MODULE RtcEngine ------------------------------
(***************************************************************************)
(* Real-time chunking: a thread infers chunks of actions from the latest   *)
(* observation and merges them into a queue the control loop takes its     *)
(* actions from (rollout/inference/rtc.py, policies/rtc/action_queue.py).  *)
(* Observations, chunks and actions are told apart by one thing only,      *)
(* whether the observation behind them is younger than the last reset.     *)
(***************************************************************************)
EXTENDS Naturals, Sequences

CONSTANTS
    Chunk,        \* actions of a chunk
    Threshold,    \* rtc_queue_threshold
    MaxErrors,    \* _RTC_MAX_CONSECUTIVE_ERRORS
    Warmups,      \* warm-up inferences, 0 without torch.compile
    RtcEnabled    \* TRUE: a chunk replaces the queue; FALSE: it is appended

ASSUME EngineAssumption ==
    /\ Chunk \in Nat \ {0} /\ MaxErrors \in Nat \ {0}
    /\ Threshold \in Nat /\ Warmups \in Nat
    /\ RtcEnabled \in BOOLEAN

VARIABLES
    active,    \* _policy_active
    obs,       \* the held observation: "none", "stale" or "fresh"
    queue,     \* the actions not yet taken, by the age of their observation
    pc,        \* the thread: "poll", "size", "infer" or "ended"
    stamp,     \* the observation the thread has in hand, "none" when it polls
    errors,    \* consecutive_errors
    warm,      \* warm-up inferences still to come; ready when 0
    failed,    \* _rtc_error, and with it the shutdown of the program
    told,      \* history: an observation was notified since the last reset
    stale      \* history: stale chunks merged since then

holder == <<active, obs, queue>>
thread == <<pc, stamp, errors, failed>>
engine == <<holder, thread, warm, told, stale>>

EngineInit ==
    /\ active = FALSE /\ obs = "none" /\ queue = <<>>
    /\ pc = "poll" /\ stamp = "none" /\ errors = 0 /\ failed = FALSE
    /\ warm = Warmups /\ told = FALSE /\ stale = 0

ready == warm = 0

-----------------------------------------------------------------------------
(* What the control loop calls.                                            *)

Aged(o) == IF o = "fresh" THEN "stale" ELSE o

Pause == active' = FALSE /\ UNCHANGED <<obs, queue, thread, warm, told, stale>>

\* reset, then resume: neither the held observation nor an inference under
\* way is given up, they are only older now
ResetAndResume ==
    /\ queue' = <<>> /\ active' = TRUE
    /\ obs' = Aged(obs) /\ stamp' = Aged(stamp)
    /\ told' = FALSE /\ stale' = 0
    /\ UNCHANGED <<pc, errors, failed, warm>>

\* an observation the thread has not used yet is kept
Notify_KeepsFirst ==
    /\ obs' = IF obs = "none" THEN "fresh" ELSE obs
    /\ told' = TRUE
    /\ UNCHANGED <<active, queue, thread, warm, stale>>

Notify ==
    /\ obs' = "fresh" /\ told' = TRUE
    /\ UNCHANGED <<active, queue, thread, warm, stale>>

GetAction ==
    /\ queue' = IF queue = <<>> THEN <<>> ELSE Tail(queue)
    /\ UNCHANGED <<active, obs, thread, warm, told, stale>>

-----------------------------------------------------------------------------
(* The inference thread.                                                   *)

Goes(from, to) == pc = from /\ pc' = to

StopSeen(stopping) ==
    /\ stopping /\ Goes("poll", "ended")
    /\ UNCHANGED <<holder, stamp, errors, failed, warm, told, stale>>

\* _policy_active, then the held observation
TakeObs ==
    /\ active /\ obs # "none" /\ Goes("poll", "size")
    /\ stamp' = obs
    /\ UNCHANGED <<holder, errors, failed, warm, told, stale>>

LookAtQueue ==
    LET low == Len(queue) <= Threshold IN
    /\ Goes("size", IF low THEN "infer" ELSE "poll")
    /\ stamp' = IF low THEN stamp ELSE "none"
    /\ UNCHANGED <<holder, errors, failed, warm, told, stale>>

Merged(chunk) == IF RtcEnabled THEN chunk ELSE queue \o chunk

\* the actions the robot took meanwhile, late in number, are skipped in RTC
\* mode; a chunk slower than its own length leaves nothing
Merge ==
    /\ Goes("infer", "poll")
    /\ \E late \in IF RtcEnabled THEN 0..Chunk ELSE {0} :
           queue' = Merged([i \in 1..Chunk - late |-> stamp])
    /\ errors' = 0 /\ stamp' = "none"
    /\ warm' = IF ready THEN 0 ELSE warm - 1
    /\ stale' = IF told /\ stamp = "stale" THEN stale + 1 ELSE stale
    /\ UNCHANGED <<active, obs, failed, told>>

\* the thread gives up without telling anybody
InferFails_Quietly ==
    /\ pc = "infer" /\ errors' = errors + 1 /\ stamp' = "none"
    /\ pc' = IF errors' < MaxErrors THEN "poll" ELSE "ended"
    /\ UNCHANGED <<holder, failed, warm, told, stale>>

\* the last error allowed ends the thread, opens the warm-up gate and asks
\* the program to shut down
InferFails ==
    /\ pc = "infer" /\ errors' = errors + 1 /\ stamp' = "none"
    /\ LET fatal == errors' >= MaxErrors IN
       /\ pc' = IF fatal THEN "ended" ELSE "poll"
       /\ failed' = fatal
       /\ warm' = IF fatal THEN 0 ELSE warm
    /\ UNCHANGED <<holder, told, stale>>

Thread(stopping) ==
    \/ StopSeen(stopping)
    \/ ~stopping /\ TakeObs
    \/ LookAtQueue \/ Merge \/ InferFails

-----------------------------------------------------------------------------
Ages == {"none", "stale", "fresh"}

EngineTypeOK ==
    /\ active \in BOOLEAN /\ obs \in Ages /\ stamp \in Ages
    /\ queue \in Seq({"stale", "fresh"}) /\ Len(queue) <= Threshold + Chunk
    /\ pc \in {"poll", "size", "infer", "ended"}
    /\ errors \in 0..MaxErrors /\ failed = (errors = MaxErrors)
    /\ warm \in 0..Warmups /\ told \in BOOLEAN /\ stale \in Nat

\* After the control loop has passed on its first observation since a reset,
\* at most one more chunk of an older one is merged: the inference that was
\* under way, never a second one (rtc.py:276-347).
StaleIsBounded == stale <= 1
=============================================================================
