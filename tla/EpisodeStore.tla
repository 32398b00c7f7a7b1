---------------------------- MODULE EpisodeStore ----------------------------
(***************************************************************************)
(* Recording with cameras that deliver JPEG: an episode is saved with its  *)
(* video still in MKV, transcoded to MP4 in the background while the arm   *)
(* is being reset, and joined to the dataset's video files by finalize     *)
(* (datasets/dataset_writer.py, dataset_metadata.py), as the recording     *)
(* script (scripts/lerobot_record.py) and the rollout strategies drive it. *)
(* One camera. An episode row gets its video span long after it was saved, *)
(* when it may still be buffered or may already be in the parquet file.    *)
(***************************************************************************)
EXTENDS Integers, SequencesExt, FiniteSets

CONSTANTS
    NumEpisodes,  \* cfg.dataset.num_episodes
    BufferSize,   \* metadata_buffer_size
    MaxTries      \* calls of finalize: __exit__, the caller's own, __del__

ASSUME StoreAssumption == {NumEpisodes, BufferSize, MaxTries} \subseteq Nat \ {0}

VARIABLES
    program,   \* "record" (the script) or "rollout" (a strategy)
    stage,     \* where its thread is
    saved,     \* info.total_episodes
    data,      \* episodes whose frames were written to the data file, in order
    buffer,    \* _metadata_buffer
    latest,    \* latest_episode; the last row of the buffer if there is one
    disk,      \* rows in the episodes parquet files
    columns,   \* the open writer's schema: "none" open, "plain" or with "video"
    deferred,  \* _deferred_videos
    jobs,      \* what the transcode thread works on, <<>> when it has ended
    failed,    \* _transcode_error
    ready,     \* _ready_mp4s
    todo,      \* the MP4s this finalize has still to join
    pending,   \* pending_disk: spans of rows that were not in the buffer
    video,     \* video[f]: the episodes in video file f
    tries,     \* calls of finalize so far
    faults     \* history: what went wrong in this session

meta == <<buffer, latest, disk, columns>>
mp4s == <<deferred, jobs, failed, ready>>
joining == <<todo, pending, video>>
storeVars == <<program, stage, saved, data, meta, mp4s, joining, tries, faults>>

Episodes == 0..NumEpisodes - 1
NoSpan   == [file |-> 0, pos |-> 0]      \* positions in a file start at 1
Row(e, s) == [ep |-> e, span |-> s]
NoRow    == Row(-1, NoSpan)

StoreInit ==
    /\ program \in {"record", "rollout"} /\ stage = "record"
    /\ saved = 0 /\ data = <<>>
    /\ buffer = <<>> /\ latest = NoRow /\ disk = {} /\ columns = "none"
    /\ deferred = <<>> /\ jobs = <<>> /\ failed = FALSE /\ ready = <<>>
    /\ todo = <<>> /\ pending = {} /\ video = [f \in Episodes |-> <<>>]
    /\ tries = 0 /\ faults = {}

Fault(f) == faults' = faults \cup {f}

\* leave the recording loop, normally or with an exception
Finish == stage' = "finish" /\ tries' = tries + 1

\* finalize raises; whoever calls it next finds it not finalized
Again ==
    IF tries < MaxTries THEN Finish ELSE stage' = "gaveup" /\ UNCHANGED tries

-----------------------------------------------------------------------------
(* Metadata rows.                                                          *)

\* a writer that is open keeps its columns and drops all others
Written(rows) ==
    {IF columns = "plain" THEN Row(r.ep, NoSpan) ELSE r : r \in ToSet(rows)}

\* the table cannot be built from rows of which only some have a span
Mixed(rows) ==
    \E r, s \in ToSet(rows) : r.span = NoSpan /\ s.span # NoSpan

Flush ==
    /\ disk' = disk \cup Written(buffer)
    /\ latest' = IF buffer = <<>> THEN latest ELSE Last(buffer)
    /\ buffer' = <<>>

\* roll: the metadata file has reached its size limit and a new one is begun
BufferRow(roll) ==
    LET kept == IF roll THEN <<>> ELSE buffer
        rows == Append(kept, Row(saved, NoSpan))
        full == Len(rows) >= BufferSize
    IN  /\ disk' = disk \cup (IF roll THEN Written(buffer) ELSE {})
                        \cup (IF full THEN ToSet(rows) ELSE {})
        /\ buffer' = IF full THEN <<>> ELSE rows
        /\ latest' = Last(rows)
        /\ columns' = IF full THEN "plain" ELSE IF roll THEN "none" ELSE columns

-----------------------------------------------------------------------------
(* Saving and transcoding.                                                 *)

SaveEpisode ==
    /\ stage = "record" /\ saved < NumEpisodes
    /\ \E roll \in BOOLEAN : (roll => columns # "none") /\ BufferRow(roll)
    /\ data' = Append(data, saved)
    /\ deferred' = Append(deferred, saved)
    /\ saved' = saved + 1
    /\ stage' = IF program = "record" THEN "start" ELSE "record"
    /\ UNCHANGED <<program, jobs, failed, ready, joining, tries, faults>>

\* save_episode raises: in the encoder, or once the video is deferred
SaveFails ==
    /\ stage = "record" /\ saved < NumEpisodes
    /\ data' = Append(data, saved)
    /\ deferred' \in {deferred, Append(deferred, saved)}
    /\ Finish /\ Fault("save")
    /\ UNCHANGED <<program, saved, meta, jobs, failed, ready, joining>>

\* wait_episode_transcode: the join, then the thread's error is raised here
Waited(next) ==
    /\ jobs = <<>>
    /\ failed' = FALSE
    /\ IF failed THEN Finish ELSE next

StartTranscode ==
    /\ stage = "start"
    /\ Waited(/\ jobs' = deferred /\ deferred' = <<>>
              /\ IF saved < NumEpisodes THEN stage' = "reset" /\ UNCHANGED tries
                                        ELSE Finish)
    /\ failed => UNCHANGED <<jobs, deferred>>
    /\ UNCHANGED <<program, saved, data, meta, ready, joining, faults>>

\* the next episode begins as soon as the minimal reset time is over
ResetEnds_NoWait ==
    /\ stage = "reset" /\ stage' = "record"
    /\ UNCHANGED <<program, saved, data, meta, mp4s, joining, tries, faults>>

ResetEnds ==
    /\ stage = "reset"
    /\ Waited(stage' = "record" /\ UNCHANGED tries)
    /\ UNCHANGED <<program, saved, data, meta, deferred, jobs, ready, joining, faults>>

\* the operator stops or interrupts; nothing waits for the thread
Stop ==
    /\ stage \in {"record", "start", "reset"}
    /\ Finish
    /\ UNCHANGED <<program, saved, data, meta, mp4s, joining, faults>>

Transcoded ==
    /\ jobs # <<>>
    /\ jobs' = <<>>
    /\ \/ ready' = ready \o jobs /\ UNCHANGED <<failed, faults>>
       \/ failed' = TRUE /\ Fault("transcode") /\ UNCHANGED ready
    /\ UNCHANGED <<program, stage, saved, data, meta, deferred, joining, tries>>

-----------------------------------------------------------------------------
(* finalize.                                                               *)

\* videos nobody has started to transcode are transcoded by this thread
TranscodeRest ==
    /\ stage = "finish" /\ stage' = "wait"
    /\ deferred' = <<>>
    /\ \/ ready' = ready \o deferred /\ UNCHANGED <<failed, faults>>
       \/ deferred # <<>> /\ failed' = TRUE /\ Fault("transcode") /\ UNCHANGED ready
    /\ UNCHANGED <<program, saved, data, meta, jobs, joining, tries>>

\* the error is raised and kept
WaitThread_KeepsError ==
    /\ stage = "wait" /\ jobs = <<>>
    /\ IF failed THEN Again /\ UNCHANGED <<ready, todo>>
       ELSE stage' = "join" /\ todo' = ready /\ ready' = <<>> /\ UNCHANGED tries
    /\ UNCHANGED <<program, saved, data, meta, deferred, jobs, failed, pending, video, faults>>

WaitThread ==
    /\ stage = "wait" /\ jobs = <<>>
    /\ failed' = FALSE
    /\ IF failed THEN Again /\ UNCHANGED <<ready, todo>>
       ELSE stage' = "join" /\ todo' = ready /\ ready' = <<>> /\ UNCHANGED tries
    /\ UNCHANGED <<program, saved, data, meta, deferred, jobs, pending, video, faults>>

\* a new file inherits the time offset of the one before
Places_KeepOffset(e) ==
    IF e = 0 \/ latest.span = NoSpan THEN {[file |-> 0, pos |-> 1]}
    ELSE {[file |-> latest.span.file, pos |-> latest.span.pos + 1],
          [file |-> latest.span.file + 1, pos |-> latest.span.pos + 1]}

\* _save_episode_video: the first file, or after the latest episode's span,
\* or a new file when that one has reached its size limit
Places(e) ==
    IF e = 0 \/ latest.span = NoSpan THEN {[file |-> 0, pos |-> 1]}
    ELSE {[file |-> latest.span.file, pos |-> latest.span.pos + 1],
          [file |-> latest.span.file + 1, pos |-> 1]}

\* concatenate, or move over whatever the new file was
Joined(e, s) ==
    IF e # 0 /\ s.file = latest.span.file /\ latest.span # NoSpan
    THEN [video EXCEPT ![s.file] = Append(@, e)]
    ELSE [video EXCEPT ![s.file] = <<e>>]

\* the span goes to its own row only
Note_OwnRow(e, s) ==
    /\ latest' = IF latest.ep = e THEN Row(e, s) ELSE latest
    /\ buffer' = [i \in DOMAIN buffer |->
                    IF buffer[i].ep = e THEN Row(e, s) ELSE buffer[i]]

\* the latest row, which is the last of the buffer, remembers every span;
\* then the episode's own row gets it, if it is still buffered
Note(e, s) ==
    /\ latest' = IF latest = NoRow THEN latest ELSE Row(latest.ep, s)
    /\ buffer' = [i \in DOMAIN buffer |->
                    IF buffer[i].ep = e \/ i = Len(buffer)
                    THEN Row(buffer[i].ep, s) ELSE buffer[i]]

JoinOne ==
    /\ stage = "join" /\ todo # <<>>
    /\ LET e == Head(todo) IN \E s \in Places(e) :
         /\ video' = Joined(e, s)
         /\ Note(e, s)
         /\ pending' = IF \E r \in ToSet(buffer) : r.ep = e THEN pending
                       ELSE pending \cup {Row(e, s)}
    /\ todo' = Tail(todo)
    /\ UNCHANGED <<program, stage, saved, data, disk, columns, mp4s, tries, faults>>

\* what was left to do is in local variables and is lost
JoinFails ==
    /\ stage = "join" /\ todo # <<>>
    /\ video' \in {video} \cup {Joined(Head(todo), s) : s \in Places(Head(todo))}
    /\ todo' = <<>> /\ pending' = {}
    /\ Again /\ Fault("join")
    /\ UNCHANGED <<program, saved, data, meta, mp4s>>

\* flush and close the writer, then put the spans of the rows that were
\* already in a file into that file
RewriteRows ==
    /\ stage = "join" /\ todo = <<>> /\ pending # {}
    /\ pending' = {}
    /\ IF Mixed(buffer) THEN Again /\ UNCHANGED meta
       ELSE /\ disk' = {IF \E p \in pending : p.ep = r.ep
                        THEN CHOOSE p \in pending : p.ep = r.ep ELSE r :
                            r \in disk \cup Written(buffer)}
            /\ latest' = IF buffer = <<>> THEN latest ELSE Last(buffer)
            /\ buffer' = <<>> /\ columns' = "none"
            /\ stage' = "close" /\ UNCHANGED tries
    /\ UNCHANGED <<program, saved, data, mp4s, todo, video, faults>>

NothingToRewrite ==
    /\ stage = "join" /\ todo = <<>> /\ pending = {}
    /\ stage' = "close"
    /\ UNCHANGED <<program, saved, data, meta, mp4s, joining, tries, faults>>

\* the metadata writer is closed without a flush
CloseWriters_NoFlush ==
    /\ stage = "close" /\ stage' = "closed"
    /\ UNCHANGED <<program, saved, data, meta, mp4s, joining, tries, faults>>

CloseWriters ==
    /\ stage = "close"
    /\ IF Mixed(buffer) THEN Again /\ UNCHANGED meta
       ELSE Flush /\ columns' = "none" /\ stage' = "closed" /\ UNCHANGED tries
    /\ UNCHANGED <<program, saved, data, mp4s, joining, faults>>

-----------------------------------------------------------------------------
Finalize ==
    \/ TranscodeRest \/ WaitThread \/ JoinOne \/ JoinFails
    \/ RewriteRows \/ NothingToRewrite \/ CloseWriters

StoreNext == SaveEpisode \/ SaveFails \/ StartTranscode \/ ResetEnds \/ Stop \/ Transcoded \/ Finalize

\* the thread ends, finalize runs to its end, and nobody records for ever
StoreFairness == WF_storeVars(Transcoded) /\ WF_storeVars(Finalize)

StoreSpec == StoreInit /\ [][StoreNext]_storeVars /\ StoreFairness

-----------------------------------------------------------------------------
Spans == [file : Episodes, pos : 0..NumEpisodes]
EpisodeRows == [ep : Episodes, span : Spans]

\* Types, and what the code takes for granted: the buffer is flushed when it
\* is full, the latest row is the last one of the buffer, and the MP4s are
\* ready in the order of the episodes. Only the wait at the end of the reset
\* keeps the background thread and finalize from transcoding at the same time
\* (lerobot_record.py:566).
StoreTypeOK ==
    /\ program \in {"record", "rollout"}
    /\ stage \in {"record", "start", "reset", "finish", "wait", "join", "close",
                 "closed", "gaveup"}
    /\ saved \in 0..NumEpisodes /\ data \in Seq(Episodes)
    /\ buffer \in Seq(EpisodeRows) /\ Len(buffer) < BufferSize
    /\ latest \in EpisodeRows \cup {NoRow} /\ (buffer # <<>> => latest = Last(buffer))
    /\ disk \subseteq EpisodeRows /\ columns \in {"none", "plain", "video"}
    /\ {deferred, jobs, ready, todo} \subseteq Seq(Episodes)
    /\ \A i, j \in DOMAIN ready : i < j => ready[i] < ready[j]
    /\ failed \in BOOLEAN /\ pending \subseteq EpisodeRows
    /\ video \in [Episodes -> Seq(Episodes)]
    /\ tries \in 0..MaxTries /\ faults \subseteq {"save", "transcode", "join"}

InPlace(r) ==
    r.span # NoSpan /\ r.span.pos \in DOMAIN video[r.span.file]
                    /\ video[r.span.file][r.span.pos] = r.ep

OneRowEach == \A e \in 0..saved - 1 : Cardinality({r \in disk : r.ep = e}) = 1

\* What finalize leaves behind agrees with info.json whatever went wrong
\* before: a row for each episode counted and no other, and the frames of
\* these episodes in order, followed by at most one that was never counted
\* (dataset_writer.py:452, dataset_metadata.py:641).
ClosedIsConsistent ==
    stage = "closed" =>
        /\ OneRowEach /\ \A r \in disk : r.ep < saved
        /\ data = [i \in 1..saved |-> i - 1] \/ "save" \in faults

\* A session without a fault that is no longer than the row buffer ends with
\* every episode's row pointing to its own video (dataset_writer.py:755).
ShortSessionKeepsVideos ==
    stage = "closed" /\ faults = {} /\ saved <= BufferSize =>
        \A r \in disk : InPlace(r)

\* The same of sessions of any length: a row buffered behind an open writer
\* that knows no video columns loses them (dataset_metadata.py:182).
EveryVideoIsListed ==
    stage = "closed" /\ faults = {} => \A r \in disk : InPlace(r)

\* Only the latest row may hold a span that is not its own: joining never
\* overwrites or shifts a video some row points to, although a new session
\* always moves its first video over file 0 and a failed transcode or join
\* leaves gaps in the sequence (dataset_writer.py:517-594).
SpansAreOwn ==
    \A r \in disk \cup ToSet(buffer) :
        r.span # NoSpan /\ r.ep # latest.ep => InPlace(r)

\* A failed transcode makes one finalize raise, not every one: unless a join
\* fails or rows with and without a span share the buffer, the files get
\* closed (dataset_writer.py:679-687).
FinalizeCloses ==
    stage = "finish" ~> (stage = "closed" \/ "join" \in faults \/ Mixed(buffer))
=============================================================================
