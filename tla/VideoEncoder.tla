---------------------------- MODULE VideoEncoder ----------------------------
(***************************************************************************)
(* Streaming video encoding while episodes are recorded                    *)
(* (datasets/video_utils.py): the recording loop feeds every camera's      *)
(* frame into a bounded queue and drops it when the queue is full; one     *)
(* thread per camera and episode takes frames from it and writes the       *)
(* video; save_episode sends a sentinel and joins the threads.  A thread   *)
(* that outlives its join is given up on: its file is saved as it is, and  *)
(* it goes on with what its queue holds.                                   *)
(***************************************************************************)
EXTENDS Naturals, Sequences

CONSTANTS
    NumCams,      \* video keys; the dictionaries keep their order
    QMax,         \* queue_maxsize
    MaxFrames,    \* frames fed in all, for model checking
    MaxEpisodes   \* episodes saved, for model checking

ASSUME EncoderAssumption ==
    NumCams \in Nat \ {0} /\ QMax \in Nat \ {0} /\ MaxFrames \in Nat /\ MaxEpisodes \in Nat

Cams   == 1..NumCams
Takes  == 1..MaxEpisodes     \* episodes, by their index + 1
Videos == Cams \X Takes      \* each has its own queue, thread and file
End    == 0                  \* the sentinel None; frames are numbered from 1

VARIABLES
    main,     \* where the recording thread is
    at,       \* the camera it has got to in finish_episode
    ep,       \* number of the episode being recorded, or saved last
    frame,    \* number of the last frame fed
    fed,      \* fed[e]: frames in the episode's buffer
    q,        \* q[v]: the frame queue
    hand,     \* hand[v]: what the thread has taken out, a sequence of one
    thread,   \* thread[v]: "none", "run", "ended" or "dead" (error as result)
    got,      \* got[v]: number of the last frame written
    spent,    \* spent[v]: frames written, dropped or skipped
    late      \* videos whose thread outlived its join

queues == <<q, hand, thread>>
vars   == <<main, at, ep, frame, fed, queues, got, spent, late>>

All(x) == [v \in Videos |-> x]
(* x for the videos of an episode, the others as they are.                 *)
Set(f, e, x) == [v \in Videos |-> IF v[2] = e THEN x ELSE f[v]]
Now(c) == <<c, ep>>

Init ==
    /\ main = "idle" /\ at = 1 /\ ep = 0 /\ frame = 0
    /\ fed = [e \in Takes |-> {}]
    /\ q = All(<<>>) /\ hand = All(<<>>) /\ thread = All("none")
    /\ got = All(0) /\ spent = All({}) /\ late = {}

Saved(e) == e < ep \/ (e = ep /\ main \in {"idle", "saved", "stopped"})

-----------------------------------------------------------------------------
(* The recording thread.                                                   *)

\* new queues and threads; an episode still active is cancelled first
StartEpisode ==
    /\ main \in {"idle", "saved"} /\ ep < MaxEpisodes /\ frame < MaxFrames
    /\ main' = "recording" /\ ep' = ep + 1 /\ fed' = [fed EXCEPT ![ep + 1] = {}]
    /\ q' = Set(q, ep + 1, <<>>) /\ hand' = Set(hand, ep + 1, <<>>)
    /\ thread' = Set(thread, ep + 1, "run")
    /\ spent' = Set(spent, ep + 1, {})
    /\ UNCHANGED <<at, frame, got, late>>

Full(v) == Len(q[v]) >= QMax

Recorded(v) == v[2] = ep

\* the queue has no limit
AddFrame_Unbounded ==
    /\ main = "recording" /\ frame < MaxFrames
    /\ \A c \in Cams : thread[Now(c)] = "run"
    /\ frame' = frame + 1 /\ fed' = [fed EXCEPT ![ep] = @ \cup {frame + 1}]
    /\ q' = [v \in Videos |-> IF Recorded(v) THEN Append(q[v], frame + 1) ELSE q[v]]
    /\ UNCHANGED <<main, at, ep, hand, thread, got, spent, late>>

\* a camera's thread of the episode before still gets its frames
AddFrame_OldThread ==
    /\ main = "recording" /\ frame < MaxFrames
    /\ \A c \in Cams : thread[Now(c)] = "run"
    /\ frame' = frame + 1 /\ fed' = [fed EXCEPT ![ep] = @ \cup {frame + 1}]
    /\ LET Target(v) ==
             \/ v[2] = ep - 1 /\ thread[v] = "run"
             \/ Recorded(v) /\ \A e \in Takes : e = ep - 1 => thread[<<v[1], e>>] # "run"
       IN  /\ q' = [v \in Videos |-> IF Target(v) /\ ~Full(v) THEN Append(q[v], frame + 1) ELSE q[v]]
           /\ spent' = [v \in Videos |-> IF Target(v) /\ Full(v) THEN spent[v] \cup {frame + 1}
                                                                 ELSE spent[v]]
    /\ UNCHANGED <<main, at, ep, hand, thread, got, late>>

\* one frame of every camera; the copy that finds the queue full is dropped
AddFrame ==
    /\ main = "recording" /\ frame < MaxFrames
    /\ \A c \in Cams : thread[Now(c)] = "run"
    /\ frame' = frame + 1 /\ fed' = [fed EXCEPT ![ep] = @ \cup {frame + 1}]
    /\ q' = [v \in Videos |-> IF Recorded(v) /\ ~Full(v) THEN Append(q[v], frame + 1) ELSE q[v]]
    /\ spent' = [v \in Videos |-> IF Recorded(v) /\ Full(v) THEN spent[v] \cup {frame + 1} ELSE spent[v]]
    /\ UNCHANGED <<main, at, ep, hand, thread, got, late>>

\* feed_frame finds a thread that is not alive and raises
AddFrameRaises ==
    /\ main = "recording"
    /\ \E c \in Cams : thread[Now(c)] # "run"
    /\ main' = "raised"
    /\ UNCHANGED <<at, ep, frame, fed, queues, got, spent, late>>

FinishEpisode ==
    /\ main = "recording" /\ fed[ep] # {}
    /\ main' = "sentinel" /\ at' = 1
    /\ UNCHANGED <<ep, frame, fed, queues, got, spent, late>>

NextCam(then) ==
    IF at < NumCams THEN at' = at + 1 /\ UNCHANGED main ELSE at' = 1 /\ main' = then

\* a blocking put: nobody takes anything out of a dead thread's queue
SendSentinel ==
    /\ main = "sentinel" /\ ~Full(Now(at))
    /\ q' = [q EXCEPT ![Now(at)] = Append(@, End)]
    /\ NextCam("join")
    /\ UNCHANGED <<ep, frame, fed, hand, thread, got, spent, late>>

Join ==
    /\ main = "join" /\ thread[Now(at)] # "run"
    /\ IF thread[Now(at)] = "dead" THEN main' = "raised" /\ at' = 1 ELSE NextCam("saved")
    /\ UNCHANGED <<ep, frame, fed, queues, got, spent, late>>

\* the thread is still alive after two minutes: its file is taken as it is,
\* and it goes on with its queue; the stop event, set now, would only end it
\* without the sentinel, which is in its queue
JoinTimesOut ==
    /\ main = "join" /\ thread[Now(at)] = "run"
    /\ late' = late \cup {Now(at)}
    /\ NextCam("saved")
    /\ UNCHANGED <<ep, frame, fed, queues, got, spent>>

\* the operator records the episode again, or the session ends on an error;
\* the files are deleted, so nothing of these threads is followed
Cancel ==
    /\ main \in {"recording", "raised"}
    /\ main' = IF main = "raised" THEN "stopped" ELSE "idle"
    /\ ep' = ep - 1 /\ fed' = [fed EXCEPT ![ep] = {}]
    /\ q' = Set(q, ep, <<>>) /\ hand' = Set(hand, ep, <<>>) /\ thread' = Set(thread, ep, "none")
    /\ got' = Set(got, ep, 0) /\ spent' = Set(spent, ep, {})
    /\ late' = {v \in late : v[2] # ep}
    /\ UNCHANGED <<at, frame>>

-----------------------------------------------------------------------------
(* A camera's thread.                                                      *)

Works(v) ==
    /\ thread[v] = "run"
    /\ UNCHANGED <<main, at, ep, frame, fed, late>>

\* the newest frame is taken, to catch up
Get_Newest(v) ==
    /\ Works(v) /\ hand[v] = <<>> /\ q[v] # <<>>
    /\ hand' = [hand EXCEPT ![v] = <<q[v][Len(q[v])]>>]
    /\ q' = [q EXCEPT ![v] = SubSeq(@, 1, Len(@) - 1)]
    /\ UNCHANGED <<thread, got, spent>>

Get(v) ==
    /\ Works(v) /\ hand[v] = <<>> /\ q[v] # <<>>
    /\ hand' = [hand EXCEPT ![v] = <<Head(q[v])>>]
    /\ q' = [q EXCEPT ![v] = Tail(@)]
    /\ UNCHANGED <<thread, got, spent>>

HasFrame(v) == hand[v] # <<>> /\ hand[v] # <<End>>

Encode(v) ==
    /\ Works(v) /\ HasFrame(v)
    /\ hand' = [hand EXCEPT ![v] = <<>>]
    /\ got' = [got EXCEPT ![v] = Head(hand[v])]
    /\ spent' = [spent EXCEPT ![v] = @ \cup {Head(hand[v])}]
    /\ UNCHANGED <<q, thread>>

\* break instead of continue
SkipBadJpeg_Breaks(v) ==
    /\ Works(v) /\ HasFrame(v)
    /\ hand' = [hand EXCEPT ![v] = <<>>]
    /\ spent' = [spent EXCEPT ![v] = @ \cup {Head(hand[v])}]
    /\ thread' = [thread EXCEPT ![v] = "ended"]
    /\ UNCHANGED <<q, got>>

SkipBadJpeg(v) ==
    /\ Works(v) /\ HasFrame(v)
    /\ hand' = [hand EXCEPT ![v] = <<>>]
    /\ spent' = [spent EXCEPT ![v] = @ \cup {Head(hand[v])}]
    /\ UNCHANGED <<q, thread, got>>

\* the encoder or the disk fails, on a frame or when the file is closed
Die(v) ==
    /\ Works(v) /\ hand[v] # <<>>
    /\ thread' = [thread EXCEPT ![v] = "dead"]
    /\ UNCHANGED <<q, hand, got, spent>>

Ends(v) ==
    /\ Works(v) /\ hand[v] = <<End>>
    /\ thread' = [thread EXCEPT ![v] = "ended"]
    /\ UNCHANGED <<q, hand, got, spent>>

-----------------------------------------------------------------------------
Worker(v) == Get(v) \/ Encode(v) \/ SkipBadJpeg(v) \/ Die(v) \/ Ends(v)
Finishing == SendSentinel \/ Join \/ JoinTimesOut

Next ==
    \/ StartEpisode \/ AddFrame \/ AddFrameRaises \/ FinishEpisode
    \/ Finishing \/ Cancel \/ \E v \in Videos : Worker(v)

(* The recording thread runs, and so do the others, in whatever order.       *)
Fairness == WF_vars(Finishing) /\ WF_vars(\E v \in Videos : Worker(v))

Spec == Init /\ [][Next]_vars /\ Fairness

-----------------------------------------------------------------------------
TypeOK ==
    /\ main \in {"idle", "recording", "sentinel", "join", "saved", "raised", "stopped"}
    /\ at \in Cams /\ frame \in Nat /\ ep \in 0..MaxEpisodes
    /\ fed \in [Takes -> SUBSET Nat]
    /\ q \in [Videos -> Seq(Nat)] /\ hand \in [Videos -> Seq(Nat)]
    /\ \A v \in Videos : Len(q[v]) <= QMax /\ Len(hand[v]) <= 1
    /\ thread \in [Videos -> {"none", "run", "ended", "dead"}]
    /\ late \subseteq Videos /\ got \in [Videos -> Nat]
    /\ spent \in [Videos -> SUBSET Nat]

Frames(s) == {s[i] : i \in DOMAIN s} \ {End}
(* What a thread still has to write.                                        *)
Unwritten(v) == Frames(q[v]) \cup Frames(hand[v])

\* Every frame of a saved episode, and none of another episode, is in its
\* video, was dropped or unreadable, or is still with the video's thread; and
\* only a thread that was given up on still has some, so that no other video
\* is saved shorter than what it lost, whatever dies (video_utils.py:1171-1257).
FramesAccounted ==
    \A v \in Videos : Saved(v[2]) =>
        /\ spent[v] \cup Unwritten(v) = fed[v[2]]
        /\ v \notin late => Unwritten(v) = {}

\* Each video is a lossy but ordered copy of what was recorded, written by a
\* thread that was given up on or not (video_utils.py:1207, 964).
Stream == INSTANCE LossyStream WITH Receivers <- Videos, offered <- frame, taken <- got
InOrder == Stream!Spec

\* Saving an episode comes back, unless an encoder died with a full queue,
\* where the sentinel waits for room for ever (video_utils.py:1239).
FinishReturns ==
    main \in {"sentinel", "join"} ~>
        \/ main \notin {"sentinel", "join"}
        \/ \E c \in Cams : thread[Now(c)] = "dead" /\ Full(Now(c))
=============================================================================
