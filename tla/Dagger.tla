------------------------------- MODULE Dagger --------------------------------
(***************************************************************************)
(* Human-in-the-loop data collection (rollout/strategies/dagger.py): the   *)
(* policy drives, the operator pauses it, corrects by hand and hands back. *)
(* The control loop, the input device, the inference thread of RtcEngine   *)
(* and the thread that pushes to the Hub run side by side.                 *)
(***************************************************************************)
EXTENDS RtcEngine

CONSTANTS
    NumEpisodes,   \* corrections to record in corrections-only mode
    UploadEvery,   \* upload_every_n_episodes, continuous mode
    MaxJobs        \* push jobs told apart, for model checking

ASSUME DaggerAssumption ==
    NumEpisodes \in Nat \ {0} /\ UploadEvery \in Nat \ {0} /\ MaxJobs \in Nat \ {0}

VARIABLES
    mode,         \* "continuous" (record_autonomous) or "corrections"
    phase,        \* DAggerEvents: AUTONOMOUS, PAUSED or CORRECTING,
    pending,      \* the requested transition or "none",
    stopAsked,    \* stop_recording, or a shutdown signal,
    uploadAsked,  \* and upload_requested
    main,         \* where the control loop is
    flushed,      \* _warmup_flushed, or there is no warm-up
    frames,       \* the episode buffer has frames
    recorded,     \* corrections saved
    since,        \* episodes_since_push
    needs,        \* _needs_push
    jobs,         \* pushes submitted to the executor and not yet started
    pusher,       \* its thread: "idle", or uploading (holds _episode_lock) since
                  \* before ("open") or after ("whole") the dataset was closed
    closed,       \* the dataset is finalized: footers and pending videos written
    hub,          \* the saved episodes on the Hub: "whole", "raw" (sent, but some
                  \* before finalize had written them out) or "behind"
    early         \* history: such a push has lowered the flag since it was raised

events == <<phase, pending, stopAsked, uploadAsked>>
store  == <<flushed, frames, recorded, since>>
copies == <<closed, hub, early>>
push   == <<needs, jobs, pusher, copies>>
vars   == <<engine, mode, events, main, store, push>>

Init ==
    /\ EngineInit
    /\ mode \in {"continuous", "corrections"} /\ main = "start"
    /\ phase = "AUTONOMOUS" /\ pending = "none"
    /\ stopAsked = FALSE /\ uploadAsked = FALSE
    /\ flushed = ready /\ frames = FALSE /\ recorded = 0 /\ since = 0
    /\ needs = FALSE /\ jobs = 0 /\ pusher = "idle"
    /\ closed = FALSE /\ hub = "whole" /\ early = FALSE

-----------------------------------------------------------------------------
(* The input device. It works from the end of setup on; what it asks for   *)
(* after the loop has ended is not read any more.                          *)

\* _DAGGER_TRANSITIONS
Transitions == [
    AUTONOMOUS |-> [pause_resume |-> "PAUSED"],
    PAUSED     |-> [pause_resume |-> "AUTONOMOUS", correction |-> "CORRECTING"],
    CORRECTING |-> [correction |-> "PAUSED"]]

Ending == main \in {"final", "finalflag", "closing", "teardown", "lastpush", "done", "crashed"}

Listening == ~Ending

\* a request is not checked against the phase
Request_Any(e) ==
    /\ Listening /\ pending' = e
    /\ UNCHANGED <<engine, mode, phase, stopAsked, uploadAsked, main, store, push>>

\* request_transition: one slot, a later request replaces an earlier one
Request(e) ==
    /\ Listening /\ e \in DOMAIN Transitions[phase] /\ pending' = e
    /\ UNCHANGED <<engine, mode, phase, stopAsked, uploadAsked, main, store, push>>

\* continuous mode never reads the flag
AskUpload ==
    /\ Listening /\ mode = "corrections" /\ uploadAsked' = TRUE
    /\ UNCHANGED <<engine, mode, phase, pending, stopAsked, main, store, push>>

AskStop ==
    /\ Listening /\ stopAsked' = TRUE
    /\ UNCHANGED <<engine, mode, phase, pending, uploadAsked, main, store, push>>

Operator == AskUpload \/ AskStop \/ \E e \in {"pause_resume", "correction"} : Request(e)

-----------------------------------------------------------------------------
(* The control loop.                                                       *)

At(here, next) == main = here /\ main' = next

Start ==
    /\ At("start", "top") /\ ResetAndResume
    /\ phase' = "AUTONOMOUS" /\ pending' = "none" /\ uploadAsked' = FALSE
    /\ UNCHANGED <<mode, stopAsked, store, push>>

Over == stopAsked \/ failed \/ (mode = "corrections" /\ recorded >= NumEpisodes)

\* only the operator's wish ends the loop
LeaveLoop_IgnoresFailure ==
    /\ main = "top" /\ (stopAsked \/ (mode = "corrections" /\ recorded >= NumEpisodes))
    /\ main' = "final" /\ Pause
    /\ UNCHANGED <<mode, events, store, push>>

\* the loop's condition; the engine is paused on the way out
LeaveLoop ==
    /\ Over /\ At("top", "final") /\ Pause
    /\ UNCHANGED <<mode, events, store, push>>

\* cfg.duration is over, or the robot, the teleoperator or the recording
\* raises in the middle of a tick
Interrupted ==
    /\ \/ main = "top" /\ ~Over
       \/ main \in {"act", "get"}
    /\ main' = "final" /\ Pause
    /\ UNCHANGED <<mode, events, store, push>>

Acts == IF mode = "corrections" THEN "upload" ELSE "act"

NoTransition ==
    /\ ~Over /\ pending = "none" /\ At("top", Acts)
    /\ UNCHANGED <<engine, mode, events, store, push>>

\* consume_transition and _apply_transition
Transition ==
    /\ ~Over /\ main = "top" /\ pending # "none"
    /\ pending' = "none"
    /\ IF pending \in DOMAIN Transitions[phase]
       THEN /\ phase' = Transitions[phase][pending]
            /\ CASE phase' = "AUTONOMOUS" -> ResetAndResume
                 [] phase = "AUTONOMOUS"  -> Pause
                 [] OTHER                 -> UNCHANGED engine
            /\ main' = IF phase = "CORRECTING" /\ mode = "corrections" THEN "save" ELSE Acts
       ELSE main' = Acts /\ UNCHANGED <<engine, phase>>
    /\ UNCHANGED <<mode, stopAsked, uploadAsked, store, push>>

Least(a, b) == IF a < b THEN a ELSE b

\* _background_push; equal jobs beyond MaxJobs are not told apart
Submit(wanted) ==
    jobs' = IF wanted /\ phase # "CORRECTING" THEN Least(jobs + 1, MaxJobs) ELSE jobs

Upload ==
    /\ At("upload", "act") /\ uploadAsked' = FALSE /\ Submit(uploadAsked)
    /\ UNCHANGED <<engine, mode, phase, pending, stopAsked, store>>
    /\ UNCHANGED <<needs, pusher, copies>>

AfterAct == IF mode = "corrections" THEN "top" ELSE "rotate"

ActByHand ==
    /\ phase = "CORRECTING" /\ At("act", AfterAct) /\ frames' = TRUE
    /\ UNCHANGED <<engine, mode, events, flushed, recorded, since, push>>

HoldPosition ==
    /\ phase = "PAUSED" /\ At("act", AfterAct)
    /\ UNCHANGED <<engine, mode, events, store, push>>

\* _process_observation_and_notify, with no interpolation
ActAutonomously ==
    /\ phase = "AUTONOMOUS" /\ At("act", "get") /\ Notify
    /\ UNCHANGED <<mode, events, store, push>>

WarmingUp ==
    /\ ~ready /\ At("get", "top")
    /\ UNCHANGED <<engine, mode, events, store, push>>

\* _handle_warmup, the first time the engine is ready
FlushWarmup ==
    /\ ready /\ ~flushed /\ main = "get" /\ ResetAndResume
    /\ flushed' = TRUE
    /\ UNCHANGED <<mode, events, main, frames, recorded, since, push>>

\* send_next_action; a frame is recorded when there was an action
SendNextAction ==
    /\ main = "get" /\ ready /\ flushed
    /\ main' = AfterAct
    /\ GetAction
    /\ frames' = (frames \/ (mode = "continuous" /\ queue # <<>>))
    /\ UNCHANGED <<mode, events, flushed, recorded, since, push>>

\* episode_duration_s may have passed
Rotate ==
    /\ main = "rotate"
    /\ main' \in IF phase = "CORRECTING" THEN {"top"} ELSE {"top", "save"}
    /\ UNCHANGED <<engine, mode, events, store, push>>

LockFree == pusher = "idle"

\* save_episode under the episode lock
SaveEpisode(here, next) ==
    /\ LockFree /\ frames /\ At(here, next)
    /\ frames' = FALSE /\ hub' = "behind"
    /\ UNCHANGED <<mode, events, flushed, recorded, since, needs, jobs, pusher, closed, early>>

\* an empty buffer, or the disk
SaveRaises(here, next) ==
    /\ LockFree /\ At(here, next)
    /\ UNCHANGED <<mode, events, store, push>>

Save == SaveEpisode("save", "flag") /\ UNCHANGED engine
SaveFails == SaveRaises("save", "final") /\ Pause

\* the flag is lowered by the push and raised before the save
Flag ==
    /\ At("flag", IF mode = "corrections" THEN "upload" ELSE "top")
    /\ needs' = TRUE /\ early' = FALSE
    /\ IF mode = "corrections"
       THEN recorded' = recorded + 1 /\ UNCHANGED <<since, jobs>>
       ELSE LET due == since + 1 >= UploadEvery IN
            /\ since' = IF due THEN 0 ELSE since + 1
            /\ Submit(due)
            /\ UNCHANGED recorded
    /\ UNCHANGED <<engine, mode, events, flushed, frames, pusher, closed, hub>>

FinalSave == SaveEpisode("final", "finalflag") /\ UNCHANGED engine
FinalSaveFails == SaveRaises("final", "closing") /\ UNCHANGED engine

FinalFlag ==
    /\ At("finalflag", "closing") /\ needs' = TRUE /\ early' = FALSE
    /\ UNCHANGED <<engine, mode, events, store, jobs, pusher, closed, hub>>

\* VideoEncodingManager.__exit__ finalizes, whatever the pusher is doing
Close ==
    /\ At("closing", "teardown") /\ closed' = TRUE
    /\ UNCHANGED <<engine, mode, events, store, needs, jobs, pusher, hub, early>>

\* the encoder or the disk: finalize is tried again in teardown
CloseFails ==
    /\ At("closing", "teardown")
    /\ UNCHANGED <<engine, mode, events, store, push>>

-----------------------------------------------------------------------------
(* teardown: pending pushes first, then finalize, then a last push if       *)
(* something is left.  When it raises the robot stays connected.            *)

Drained == jobs = 0 /\ pusher = "idle"

Teardown ==
    /\ Drained /\ At("teardown", IF needs THEN "lastpush" ELSE "done")
    /\ closed' = TRUE
    /\ UNCHANGED <<engine, mode, events, store, needs, jobs, pusher, hub, early>>

TeardownFails ==
    /\ Drained /\ ~closed /\ At("teardown", "crashed")
    /\ UNCHANGED <<engine, mode, events, store, push>>

LastPush ==
    /\ At("lastpush", "done") /\ hub' = "whole"
    /\ UNCHANGED <<engine, mode, events, store, needs, jobs, pusher, closed, early>>

LastPushFails ==
    /\ At("lastpush", "crashed")
    /\ UNCHANGED <<engine, mode, events, store, push>>

MainStep ==
    \/ Start \/ LeaveLoop \/ Interrupted \/ NoTransition \/ Transition
    \/ Upload \/ ActByHand \/ HoldPosition \/ ActAutonomously
    \/ WarmingUp \/ FlushWarmup \/ SendNextAction \/ Rotate
    \/ Save \/ SaveFails \/ Flag \/ FinalSave \/ FinalSaveFails \/ FinalFlag
    \/ Close \/ CloseFails \/ Teardown \/ TeardownFails \/ LastPush \/ LastPushFails

-----------------------------------------------------------------------------
(* The push thread.                                                        *)

Pusher(here, next) ==
    /\ pusher = here /\ pusher' = next
    /\ UNCHANGED <<engine, mode, events, main, store>>

\* the lock is free whenever the loop is not saving
PushBegins ==
    /\ jobs > 0 /\ Pusher("idle", IF closed THEN "whole" ELSE "open")
    /\ jobs' = jobs - 1
    /\ UNCHANGED <<needs, copies>>

Uploading == pusher # "idle" /\ Pusher(pusher, "idle")

\* the flag is lowered although the push failed
PushFails_Lowers ==
    /\ Uploading /\ needs' = FALSE
    /\ UNCHANGED <<jobs, copies>>

PushFails ==
    /\ Uploading
    /\ UNCHANGED <<needs, jobs, copies>>

\* the folder is sent as it is on the disk: what finalize has yet to write
\* is missing, unless it comes while the upload reads; with no episode saved
\* nothing is sent
Pushed ==
    /\ Uploading
    /\ hub' \in IF pusher = "whole" \/ hub = "whole" THEN {"whole"}
                ELSE IF closed THEN {"raw", "whole"} ELSE {"raw"}
    /\ early' = (early \/ pusher = "open")
    /\ needs' = FALSE
    /\ UNCHANGED <<jobs, closed>>

PushStep == PushBegins \/ PushFails \/ Pushed

-----------------------------------------------------------------------------
ThreadStep ==
    /\ Thread(main \in {"done", "crashed"})
    /\ UNCHANGED <<mode, events, main, store, push>>

Next == Operator \/ MainStep \/ ThreadStep \/ PushStep

Fairness == WF_vars(MainStep) /\ WF_vars(ThreadStep) /\ WF_vars(PushStep)

Spec == Init /\ [][Next]_vars /\ Fairness

-----------------------------------------------------------------------------
TypeOK ==
    /\ EngineTypeOK
    /\ mode \in {"continuous", "corrections"} /\ phase \in DOMAIN Transitions
    /\ pending \in {"none", "pause_resume", "correction"}
    /\ stopAsked \in BOOLEAN /\ uploadAsked \in BOOLEAN /\ flushed \in BOOLEAN
    /\ frames \in BOOLEAN /\ needs \in BOOLEAN
    /\ closed \in BOOLEAN /\ early \in BOOLEAN /\ hub \in {"whole", "raw", "behind"}
    /\ main \in {"start", "top", "upload", "act", "get", "rotate", "save", "flag",
                 "final", "finalflag", "closing", "teardown", "lastpush", "done", "crashed"}
    /\ recorded \in 0..NumEpisodes /\ since \in 0..UploadEvery - 1
    /\ jobs \in 0..MaxJobs /\ pusher \in {"idle", "open", "whole"}

\* A session that ends well has sent every saved episode to the Hub, whichever
\* pushes failed or were overtaken by a save on the way, and what it sent can be
\* read there; except that a push that began before the dataset was finalized
\* may have come through after the last save, which sends files without their
\* footers and leaves nothing for teardown to send (dagger.py:281-308, 729-736).
EverythingUploaded ==
    main = "done" => hub = "whole" \/ (early /\ hub = "raw")

\* A pause asked for while the policy drives is carried out, whatever other
\* keys are pressed before the loop looks (dagger.py:129-153).
PauseIsHonoured ==
    main # "start" /\ phase = "AUTONOMOUS" /\ pending = "pause_resume" ~>
        phase = "PAUSED" \/ Ending

\* A stop, or an inference thread that has given up, also during the warm-up,
\* ends the session (dagger.py:357, rtc.py:362-378).
ShutdownEnds == stopAsked \/ pc = "ended" ~> main \in {"done", "crashed"}
=============================================================================
