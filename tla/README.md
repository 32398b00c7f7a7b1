# Verification of lerobot_android

`lerobot_android` turns a phone into the controller of a small mobile robot. The phone
owns the USB serial adapter of a Feetech servo bus and one or two cameras. A PC on the
same network runs LeRobot (the tree under `lerobot/`), pushes joint and wheel goals to
the phone, pulls joint positions and camera frames back, and records datasets or runs a
policy, possibly on a third machine.

This directory holds TLA+ models of that program, the TLC configurations that check them
on small instances, and TLAPS proofs of theorems about them. Kotlin files are named
below without their directory (`android/app/src/main/java/com/leneo/ipdevices/...`),
Python files relative to `lerobot/src/lerobot/`. `PROJECT.json` maps every definition to
the source lines it stands for and lists components, runs, hazards, theorems and, for
every property, a faulty variant of the model that the property rejects.

## 1. Inventory

```
 XLerobot -- PhoneHostBus ==TCP 9101==> ArmHost reader threads --atomics--> 30 Hz loop --> servo bus
     ^            ^------- TCP 9102 <== ArmHost observation server <----------'
     |                                                             UsbSerialManager (who owns which adapter)
 MjpegCamera <== HTTP ==== HttpBridgeServer --await/publish-- FrameHub <--- camera managers
                               '-- viewer counts --> BridgeService (opens, closes cameras)
 robot_client <== gRPC ==> policy_server      rollout / rtc / datasets / rl (on the PC)
```

| Component | State it keeps | Operations | What is hard | What makes it correct | Model |
|---|---|---|---|---|---|
| Servo loop and command readers (`ArmHost.kt`) | atomics for goal, wheel speed, stamp, torque request; locals of the loop | command lines, 30 Hz iteration | readers and loop interleave at every atomic; watchdog by wall clock; a restart keeps the atomics | wheels stop when commands stop; torque-off leaves nothing behind and reaches the servos | ArmLoop |
| Life cycle of the arm host (`ArmHost.kt`) | flags, worker thread, two server sockets | attach, start, stop, cleanup of a worker | workers call `stop` on themselves, share every field with their successor; `join(800)` | one loop, with its ports; ports are released; can be started again | ArmHost |
| Frame hub and MJPEG handlers (`FrameHub.kt`, `HttpBridgeServer.kt`) | latest frame, waiters, sequence numbers | publish, awaitNext, remove | lost wake-ups, several publishers of one stream, a camera closed while it is watched | a waiting viewer is notified; a viewer is not taken back without need | FrameHub |
| Camera demand (`FrameHub.kt`, `BridgeService.kt`, `UsbUvcCameraManager.kt`) | viewer counts, posted messages, close tasks, open flag | add and remove a viewer, open, delayed close | counts are read on one thread, changed on others; two names of one camera; tasks replaced; an open passes through three threads and a library | a watched camera runs, an unwatched one closes, not before its delay | CameraDemand |
| USB serial adapters (`UsbSerialManager.kt`, `SerialTcpServer.kt`, `UsbClassifier.kt`) | adapters, host adapter, listeners, open ports, close tasks, port numbers | attach, detach, permission, scan, connect, bytes, close task, change of port | callbacks of USB, dialogs, TCP threads and timers, an unplug between any two | nothing outlives its adapter; a client is served; host and raw TCP never share an adapter | SerialPorts |
| Command path (`phone_host.py`, `xlerobot.py`, `ArmHost.kt`) | remembered wheel speed, command socket; the phone's speed and stamp | connect, action, stop, disconnect | the remembered speed decides whether a stop is sent; breaks, process deaths, phone restarts | the memory agrees with the phone; a stop stops | PhoneLink |
| Asynchronous inference (`async_inference/`) | action queue, must-go flag, latest step; observation queue, predicted steps | control loop, receiver thread, gRPC handlers | two threads of the client share a queue, a flag and a step; calls fail | the flag is lost in four ways only; steps only go up; actions resume | AsyncInference |
| Recording (`datasets/dataset_writer.py`, `dataset_metadata.py`, `scripts/lerobot_record.py`) | rows buffered and on disk, deferred and finished videos, the transcode thread | save_episode, background transcode, finalize, joining of videos | a row gets its video long after it was saved; faults at every stage; finalize is called again | counted episodes have one row and their own video; the files get closed | EpisodeStore |
| Streaming encoder (`datasets/video_utils.py`) | a queue, a thread and a file per camera and episode | start, add frame, finish, cancel | full queues, threads that die, or that outlive their join and go on beside their successors | every frame of a saved video is accounted for, in order; saving comes back | VideoEncoder |
| Real-time chunking (`rollout/inference/rtc.py`, `policies/rtc/action_queue.py`) | held observation, action queue, inference thread, error counter | notify, get, pause, resume, reset, infer and merge | an inference under way when the queue is cleared; errors during the warm-up | stale chunks are bounded; a dead engine ends the session | RtcEngine |
| DAgger (`rollout/strategies/dagger.py`, `core.py`) | phase, requested transition, episode, push flag | keys, control loop, save, background push, teardown | input, inference and push threads against the loop; pushes of a dataset still open | a pause is carried out; everything saved is uploaded; a stop ends it | Dagger |
| Other strategies (`episodic.py`, `highlight.py`, `sentry.py`) | as DAgger, without an operator | - | - | - | - |
| Servo bus protocol (`FeetechBus.kt`) | receive buffer | ping, sync read, write | late replies | - | - |
| Observation thread (`phone_host.py`), MJPEG camera (`cameras/mjpeg/`) | last sample and its age | connect, read, disconnect | a thread that outlives a reconnect | - | - |
| Camera sessions (`UsbUvcCameraManager.kt`, `BuiltinCameraManager.kt`) | sessions, retries | open, callbacks, close | asynchronous callbacks | - | - |
| Distributed RL (`rl/`) | queues of transitions and parameters | actor, learner | process boundaries | - | - |
| LeKiwi (`robots/lekiwi/`) | watchdog, sockets that keep one message | host loop, client | same kind as ArmLoop | - | - |
| App screens, settings, JPEG encoder, teleoperators, local motor buses, policies, processors, training, environments, dataset tools | - | - | sequential, or data out of a model checker's reach | - | - |

## 2. The modules and how they correspond to the code

Every module begins with the part of the code it stands for. A **step** is one access to
state that another thread also accesses, with the private work next to it; a handler of
Android's main thread is one step where nothing it reads is changed elsewhere, and
several where something is (the close tasks of CameraDemand and SerialPorts read a count
and act later). History variables record what has happened; no guard reads them, only
properties do: `adjusted` and `overlapped` (ArmLoop), `past` (ArmHost, PhoneLink),
`died` (PhoneLink), `overtaken` and a view's `again` (FrameHub), `spoilt`
(CameraDemand), `moved` (SerialPorts), `astray` and `mixed` (AsyncInference), `faults`
(EpisodeStore), `late` and `spent` (VideoEncoder), `told` and `stale` (RtcEngine),
`early` (Dagger).

**ArmLoop.** Variables `latestGoal`, `latestVel`, `age` (= now - `lastCmdMs`) and
`torqueRequested` are the four atomics; `reader[c]` is how far the thread of a command
socket is in its line; `pc`, `wantTorque`, `torqueApplied`, `goal`, `fresh` are the
loop's locals; `servo` is the servos' registers. A command line is `RecvCommand` (the
torque request comes first), `StoreGoal`, `StoreVel`, `StoreStamp`, with `BadNumber` for
an exception half-way; a torque-off is four sets. Each socket has a reader of its own
and the readers do not wait for each other; `overlapped` says that a torque-off has
begun while another socket's reader was in a line, or a line while another was in a
torque-off, and neither a line nor a torque-off has begun without since. An iteration of
the loop is `TorqueStep`, `GoalStep`, `ArmStep`, `WheelStep`, `SleepStep`. `LoopEnds`
and `LoopStarts` are an unplug and the next start, which keeps the atomics. `ClockStep`
is an adjustment of the wall clock that the watchdog reads.

**ArmHost.** `running`, `starting`, `stop`, `thread`, `field` (the two server socket
fields) and `holder` (who has the port) are shared by `attach` and `stop` on the main
thread and by workers that set up, bind, loop and clean up by calling `stop` themselves.
`Permission` is `attach` giving up without the USB permission; `Bind` fails on a port
that is taken and, when `SetupFails`, for any other reason. `past` records a `join(800)`
that returned early and an `attach` that met a worker cleaning up.

**FrameHub.** One stream: `seq`, `latest`, `waiters`, each publisher's position in
`publish` (number, store, list the locks, notify) and each viewer's in `awaitNext`
(look, enlist, look again under its lock, wait, return) and in the handler that writes
what it returns. A wait that ends without a newer frame returns the stored one, which is
written again (`again`). Several threads may publish to one stream: each UVC camera
publishes to `uvc/first` too, so a frame may be numbered before and stored after another
(`overtaken`). `Remove` is the closing of the camera.

**FrameFeed.** The abstract promise of a live stream: a client gets newer frames, the
one it has once more, or an older one if that was overtaken, until it leaves.
`FrameHub!Feed` instantiates it, with `again` and the clients still `joined` in the
mapping, so a frame sent twice is a step of its own and not a stutter.

**CameraDemand.** One attached camera, which is asked for as `uvc/<id>` and `uvc/first`:
viewer counts, the demand messages on the main thread (`mainQ`), the map `closeTasks`
and `orphans`, the tasks that were replaced in the map but still run
(`BridgeService.kt:383`). `FireTask`, `CheckName` and `ClosePreview` are the idle task,
which looks at each name's count and then closes. An open starts in `HandleOn` (the
camera is marked as connecting), calls the library on the main thread (`OpenInternal`),
is waited for by an executor (`AwaitTimesOut`) that takes the mark back at the end
(`RemoveMark`); `opener` is how far it is. `answers` is what the library still has to
call back, in time or after the executor has given up (`Answer`): `opened` changes
there, on the callback's thread, and not with the mark. `ran` says that `uvc/first`
keeps a frame, which a close does not remove, so a header can be written, and fail,
without a camera. `spoilt` records a failed open and a close that fell between `opened`
and the mark's removal.

**SerialPorts.** The state of `UsbSerialManager`: known adapters, the host's adapter,
listeners and their ports, open ports, close tasks, and the numbers kept under a key
that changes with the permission. `mainQ` is what broadcasts, dialogs and TCP threads
have posted. `ScanAndListen`, `OpenPort` and `OnChanged` (which numbers the adapters it
lists) are the helpers every handler ends with. The bytes and their queue are left out.

**PhoneLink.** `robot` is an XLerobot object and its bus, `link[k]` the lines under way
on each command connection, `phone` what the readers make of them (ArmLoop in one step
per line) with the connections they came from. Connections break with any part of their
lines lost, PC processes die (`died` keeps their connections), the phone restarts, and a
disconnect may leave the torque on.

**WheelCommands.** What ArmLoop and PhoneLink share: the command connections, the wheel
velocities a line may carry or lack, and how `readCommands` overwrites `latestVel` with
them (`Overwritten`).

**AsyncInference.** The client's control thread (`ActionsAvailable`, `GetNowait`,
`SendAction`, `ReadyToSend`, `Capture`, `SendObservations`, `ClearMustGo`), its receiver
(`ReadQueue`, `KeepOne` per action, `SwapQueue`, `SetMustGo`) and the server's handlers
(`Accepts`, `Evict`, `GetActions`, `AddPredicted`, `Preprocess`, `Reply` or `NoReply`).
An action is its timestep, an observation its step, the robot's pose and the must-go
mark. `astray` collects what has befallen must-go observations since the mark was last
raised (`Causes`: the call failed, inference or its answer failed, the answer came
before the call returned, the receiver thread died); `MarkLost` is a mark that is down
with nothing under way that raises it.

**EpisodeStore.** One camera that delivers JPEG, so its episodes are saved as MKV
(`deferred`), transcoded by a background thread while the arm is reset (`jobs`, `ready`,
`failed` for its error) and joined by finalize. `buffer`, `latest`, `disk`, `columns`
are the metadata: buffered rows, the latest row, rows in files, and the columns of the
writer that is open. A row is an episode and its video span; `video[f]` is what a video
file holds. `SaveEpisode`, `StartTranscode`, `ResetEnds` and `Stop` are the recording
script, `TranscodeRest` to `CloseWriters` the stages of one finalize, and `Again` its
next call (`__exit__`, the caller's own, `__del__`). `SaveFails`, `JoinFails` and a
failed `Transcoded` are the faults.

**VideoEncoder.** A video is a camera and an episode; `q[v]`, `hand[v]`, `thread[v]` are
its frame queue, the frame its thread holds, and the thread's life; `got` and `spent`
are the last frame it wrote and all it wrote, dropped or found unreadable. `AddFrame`
feeds one frame of every camera, `SendSentinel` and `Join` go through the cameras one by
one. `JoinTimesOut` gives a thread up (`late`): the episode is saved with its file as it
is, and the thread goes on, also beside the threads of the next episode. `Cancel`
deletes the files of an episode and its threads are followed no further.

**LossyStream.** The abstract promise of the encoder: numbered frames, receivers that
get some of them, each at most once and in order, and that may be discarded.
`VideoEncoder!Stream` instantiates it with the frames fed and written, and `InOrder` is
its specification.

**RtcEngine, Dagger.** RtcEngine is the engine: what the control loop calls (`Pause`,
`ResetAndResume`, `Notify`, `GetAction`) and the inference thread (`TakeObs`,
`LookAtQueue`, `Merge`, `InferFails`). Observations, chunks and actions carry one mark,
whether the observation behind them is younger than the last reset. Dagger EXTENDS it
with the operator (`Request`, `AskUpload`, `AskStop`), the control loop of both modes
(one tick is `NoTransition` or `Transition`, then the acting and saving steps) and the
thread that pushes to the Hub (`PushBegins`, `Pushed`, `PushFails`). `closed` says that
finalize has written the footers and pending videos: `Close` when the strategy's run
ends, which may fail (`CloseFails`), and once more in `Teardown`. A push that began
before sends the folder as it is, so `hub`, what the Hub has of the saved episodes,
becomes "raw" instead of "whole"; `early` says that such a push has lowered the flag
since it was last raised.

The components meet at narrow interfaces, which each module takes as its environment:
ArmLoop's restarts are ArmHost's workers; ArmHost's attach is SerialPorts' host adapter;
PhoneLink's phone is ArmLoop seen line by line; CameraDemand's open flag decides
FrameHub's `Remove`; Dagger's and the script's `save_episode` is EpisodeStore's, which
ends an episode of VideoEncoder.

## 3. The runs

| Run | Instance | Shows |
|---|---|---|
| `arm` | two command sockets, one goal, one speed, Watchdog 1, MaxLag 1, lossless bus | the wheels of a running loop stop within the watchdog and two iterations (`WatchdogStopsWheels`); a torque-off that no line of the other socket overlapped leaves no goal, speed or stamp (`OffLeavesNothing`); one that stands reaches the servos (`OffReachesServos`) |
| `host` | two workers; setups and binds that fail | `OneLoop`, `LoopServes`, `HostIsUsable` as long as every join waited and attach met no cleanup |
| `hub` | two viewers, two publishers, three frames | `NoLostWakeup`; `FramesInOrder`: the hub implements FrameFeed, also across a close |
| `demand` | two names, two clients, delays of one and no tick, two messages, answers or replaced tasks pending | `WantedIsServed`, unless the last open failed or a close fell before its mark was taken back; `IdleCameraCloses` |
| `serial` | adapters h and a, one connection, two ports | `DetachLeavesNothing`, `ClientIsServed`, and `HostKeepsAdapter` until the host's adapter is moved |
| `link` | two connections, one speed, two lines under way | `OwnSpeedIsRight` whatever breaks, dies or comes late; `NoRevival`: the speed of a session that disconnected never comes back, that of a connection that was cut off may; `SpeedArrives` over connections that neither break nor overlap |
| `async` | two poses, chunks of two actions, four timesteps | `GoIsAnswered`: the must-go mark is lost in four ways and no other; `ActionsResume` unless it is lost or a thread died; `StepsForward` until an action is performed while a chunk is compared |
| `store` | five episodes, a row buffer of three, three calls of finalize | `ClosedIsConsistent` and, but for the latest row, `SpansAreOwn` whatever goes wrong; `ShortSessionKeepsVideos`; `FinalizeCloses` |
| `encoder` | two cameras, queues of two, three frames, two episodes | `FramesAccounted`: only a video whose thread was given up on lacks frames that were not lost, and those are still with the thread; `InOrder`: it implements LossyStream; `FinishReturns` |
| `dagger` | chunks of one, one warm-up, two errors, one correction or an upload every two episodes | `StaleIsBounded`, `EverythingUploaded` unless a push begun before finalize lowered the flag, `PauseIsHonoured`, `ShutdownEnds` |
| `store_rows` | as `store`, with a row buffer of two | **violated**: `EveryVideoIsListed` |
| `link_stop` | as `link` | **violated**: `StopMeansStop` |

### Findings

- `store_rows` (`dataset_metadata.py:182`): finalize patches video spans into rows that
  are still buffered, and a flush behind a writer that was opened without video columns
  drops them. A session of more than ten episodes whose number is not a multiple of ten
  ends with episodes whose rows name no video.
- `link_stop` (`xlerobot.py:336`): the remembered wheel speed survives a reconnect of
  the same object. When the stop line of a disconnect was lost, an arm-only action
  afterwards keeps the old speed alive instead of stopping the wheels.

### Known disagreements without a run

The runs contain most of these histories; the properties name them as exceptions (the
table of conditions below). The others are in what the models leave out.

- `ArmHost.kt:169,186`: every command socket has a reader and none is retired. One that
  has requested torque may store its goal after the torque-off of another socket has
  cleared it and switched the request off; a later velocity-only line brings the goal
  back (`overlapped`).
- `ArmHost.kt:220`: `torqueApplied` is set although the write of the torque, inside
  `runCatching`, may have failed; it is not tried again.
- `ArmHost.kt:71`: a worker whose setup outlasts `join(800)` goes on when the next start
  lowers the flag, and two loops drive the servos.
- `ArmHost.kt:124`: a worker that fails cleans up through `stop`, which clears
  `starting` before it works on the shared fields. An `attach` in between starts a
  second worker whose ports the first one's cleanup closes; its loop goes on without
  them and no later `attach` gets in.
- `UsbUvcCameraManager.kt:294-297`: every UVC camera publishes to `uvc/first` as well.
  With two of them open a viewer of that name may be given an older frame after a newer
  one, and it stays until the next publish.
- `UsbUvcCameraManager.kt:191,215,247`: the callback marks the camera opened, the
  executor takes the connecting mark back later. A close in between leaves the mark on a
  closed camera, and a viewer that comes then finds an open under way and gets none.
- `BridgeService.kt:380`: the idle delay belongs to a stream name and a replaced task
  still runs, so a camera may close right after its last viewer left, although the code
  means to keep it warm for 60 s (line 478).
- `UsbSerialManager.kt:206`: giving the host's adapter a TCP port, or replugging it next
  to an adapter that already listens, lets the 30 Hz loop and raw TCP clients write to
  one servo bus.
- `UsbSerialManager.kt:385`: ports are compared by what is kept under the adapters'
  keys, not by what is listened on; a key changes when the permission is given.
- `SerialTcpServer.kt:34,83`: two threads may post client counts in the other order than
  they read them, and the port of an adapter nobody uses stays open.
- `xlerobot.py:335` with `ArmHost.kt:202`: a goal refreshes the one stamp of goal and
  speed. After a process that was driving has died, or a connection broke, the first
  goal of the next connection wakes the old speed up until its own speed line is
  handled.
- `robot_client.py:436` says that the must-go event "will be set again after receiving
  actions", and line 427 that an observation without actions left "must go through
  processing". Neither holds when the call with it fails (its result is thrown away,
  432), when inference for it raises or its answer is lost (`policy_server.py:263`),
  when the answer is handled before the call has returned (437), or when the receiver
  thread has died. The same pose and step are then filtered out by the server for ever.
- `robot_client.py:239`: the queue's deque is iterated without its lock; an action
  popped meanwhile raises in the receiver thread, which catches gRPC errors only. A
  chunk without new actions empties the queue between the control loop's look and its
  `get_nowait` (378).
- `robot_client.py:267`: an action popped while a chunk is compared is not yet in
  `latest_action`, so the new queue has it again.
- `video_utils.py:1245-1250`: the file of a thread that outlived its join is saved as it
  is, without the frames the thread still holds; the error is logged and nothing else.
- `dataset_writer.py:766`: the span of every joined video is noted in the latest row,
  and stays there when that episode's own video is never joined.
- `lerobot_dataset.py:477`, `dagger.py:735`: only finalize writes the footers of parquet
  files and the pending videos, and a push in the background does not wait for it (the
  comment at `sentry.py:127` says of the same kind of push that it "only ever touches
  *finalised* episode artifacts"). When it comes through after the last save it lowers
  the flag, and teardown, which does finalize, does not push again: the session ends
  well and its episodes cannot be read on the Hub.
- `dagger.py:439`: an operator who pauses a continuous session for longer than an
  episode ends it, because `save_episode` raises on an empty buffer; `dagger.py:302`: an
  exception of the last push skips the disconnecting of the hardware.
- `dagger.py:720`: an upload asked for during a correction is dropped, not delayed.

### Bounds, and why they are enough

- ArmLoop: two sockets are a reader in a line and another in a torque-off, or one that
  finishes what the other began; more of them add no new order of two sets of one
  atomic. One goal and one speed are enough since values are only copied; Watchdog 1 and
  MaxLag 1 make every comparison come out both ways, and the theorems cover every other
  value and number of sockets.
- ArmHost: two workers are one and its successor, which is where the shared fields
  change hands. Each worker is started once; the theorems cover any number of them.
- FrameHub: two publishers can store in the other order than they numbered, with a third
  frame to come after; two viewers are one that a publisher has listed and one it has
  not. `MaxSeq` bounds the frames only.
- CameraDemand: the two names are all a camera has. `MaxPending` keeps clients from
  connecting while messages, answers and replaced tasks wait; posts already begun are
  not bounded by it. A tick of the idle delay (60 s) is long against the handling of
  messages, so it waits for those (`Settled`). The executor's wait (8 s) and the
  library's answer are shorter than the delay and last no tick in the run (`AwaitTicks`,
  `AnswerTicks` 0), so either may come first.
- SerialPorts: two adapters are the host's and another. `OpenFails` is FALSE in the run,
  because a port that fails to open leaves its client unserved by design.
- PhoneLink: two connections are a session and the next one, of the same process or of
  another. Two lines under way are the two lines of one action.
- AsyncInference: four timesteps are two chunks of two. `ChunkSize` is at least two: the
  first action of a chunk is the one just performed (`robot_client.py:246`), so with one
  a client never gets on (`robot_client.py:246` accepts it all the same). One client,
  started once.
- EpisodeStore: five episodes and a buffer of three (ten in the code) give rows on disk
  behind a closed and behind an open writer, and rows still buffered; three calls of
  finalize are all the callers there are (`MaxTries`).
- VideoEncoder: three frames fill a queue of two behind a frame in hand, or overflow it,
  and leave one for a second episode while the thread of the first is still at work.
  `MaxFrames` and `MaxEpisodes` bound what is fed and saved, and the theorems have no
  use for them.
- Dagger: with chunks of one every action taken empties the queue; two errors are one
  that is retried and the last one; `MaxJobs` does not tell equal queued pushes apart.

### Fairness, and why the code justifies it

Threads that can run are scheduled, so every thread has weak fairness of its steps:

- ArmLoop: the loop, the clock's ticks, and a reader that has begun a line (it has the
  whole line by then). ArmHost: attach's remaining steps, every step of `stop` and of a
  worker.
- FrameHub: a publisher that has begun a frame, and a viewer unless it waits: no wait
  has to time out.
- CameraDemand: the main thread, the executor, a handler that has a message to post, the
  ticks, and `Answer`, one of whose outcomes is that the library never answers.
  SerialPorts has no liveness property.
- PhoneLink: a reader thread that has a line. What was sent on a connection that does
  not break is delivered.
- AsyncInference: the control thread, the server's handlers and the receiver. Strong
  fairness of `Capture`, `Preprocess` and `Reply` says that reading the robot and
  inference may fail any number of times but not for ever; a call that sends an
  observation may always fail.
- EpisodeStore: the transcode thread and the stages of a finalize once it has begun.
- VideoEncoder: the recording thread while it finishes an episode, and the encoder
  threads together, none of them favoured.
- Dagger: the control loop, the inference thread and the push thread.

Nothing makes a client connect, a command or a frame arrive, an adapter be plugged in,
an operator press a key, or a push or a save succeed. `ActionsResume`, `HostIsUsable`,
`SpeedArrives`, `FinalizeCloses` and `FinishReturns` therefore name what stops them in
their conclusion.

### Where a property stands only under a condition

These conditions are stated in the properties and not built into the models; the
transitions that break them are all in the runs.

| Condition | Used by | What happens without it |
|---|---|---|
| no bus write was lost, clock not adjusted | WatchdogStopsWheels | a lost stop is written again in the next iteration, a lost torque-off is not; an adjusted clock moves the watchdog |
| a bus that loses nothing (the run) | OffReachesServos | the failed write is swallowed and not tried again (`ArmHost.kt:220`) |
| `~overlapped` | OffLeavesNothing | the goal, speed or stamp of a line that was under way on another socket may be left (`ArmHost.kt:169,186`) |
| `past = {}` (ArmHost) | OneLoop, LoopServes, HostIsUsable | a worker that outlives its join is revived by the next start's `stop = false` (`ArmHost.kt:59,71`); an attach during a cleanup loses its ports |
| the frame was `overtaken` | FramesInOrder | two cameras publish to `uvc/first`: only such a frame may come after a newer one |
| `~spoilt` | WantedIsServed | a failed open is not tried again until the next first viewer; a close before the connecting mark is taken back makes the next viewer's open be ignored (`UsbUvcCameraManager.kt:191`) |
| no client that `leaked` | IdleCameraCloses | an exception while the header is written leaves the viewer counted (`HttpBridgeServer.kt:111`) and the camera on |
| `~moved` | HostKeepsAdapter | the host's adapter is opened for TCP, see above |
| serial ports open (`OpenFails` FALSE) | ClientIsServed | nobody opens the port of a connected client again |
| the connection broke or its process `died` | NoRevival | the first goal of another connection wakes its speed up (`xlerobot.py:335`) |
| `Reliable` | SpeedArrives | a broken connection loses lines without telling (`link_stop`); a late line of another connection overwrites the speed |
| `astray # {}` | GoIsAnswered | one of the four `Causes` has struck since the mark was last raised, and each of them can lose it |
| `MarkLost`, a dead thread | ActionsResume | the standing robot is filtered out by the server from then on |
| `~mixed` | StepsForward | an action popped while a chunk is compared is performed again |
| no failed save | ClosedIsConsistent, its clause on frames | the frames of an episode whose save failed stay in the data file |
| `faults = {}`, `saved <= BufferSize` | ShortSessionKeepsVideos | `store_rows`; an episode whose transcode failed has no video |
| the latest row | SpansAreOwn | it keeps another episode's span when its own video was never joined |
| no join failed, `~Mixed(buffer)` | FinalizeCloses | `pa.Table.from_pydict` raises on rows of which only some have a span, on every call |
| `v \in late` | FramesAccounted, its second clause | the file of a thread that was given up on is saved without the frames it still holds (`video_utils.py:1245-1250`) |
| no thread dead behind a full queue | FinishReturns | the sentinel's `put` waits for ever (`video_utils.py:1239`) |
| a merge before the first notify is not counted | StaleIsBounded | until then the thread may go on with the observation of before the reset |
| `main = "done"` | EverythingUploaded | teardown did not raise; the dataset is one that is pushed (`push_to_hub`) |
| `early` with `hub = "raw"` | EverythingUploaded | a push begun before finalize sent files without footers and lowered the flag (`dagger.py:735`) |

## 4. The proofs

All of them hold for every value of the constants within the named assumptions.

| Theorem | States | Inductive invariant and why it is needed |
|---|---|---|
| `CommandProofs!TypeCorrect` | TypeOK | inductive as it stands |
| `CommandProofs!WatchdogHolds` | WatchdogStopsWheels | `WatchdogInv`: between the sampling of the stamp and the write of the wheels the age may grow by at most `lag`, so the bound is tied to `pc` and `lag` |
| `CommandProofs!AppliedHolds` | AppliedIsReal: the torque cache is right in every running loop (not checked by a run) | inductive with TypeOK |
| `CommandProofs!OffHolds` | OffLeavesNothing, any number of sockets | `OffInv`: while a torque-off that no line overlapped is under way or stands, no reader is in a line, and whatever is not cleared yet still has a torque-off before the step that clears it |
| `CommandProofs!LinkTypeCorrect` | LinkTypeOK | inductive as it stands |
| `CommandProofs!OwnSpeedHolds` | OwnSpeedIsRight | `OwnInv`: `_wheel_cmd` is the last speed under way on the robot's connection, or else the speed that connection has left on the phone, and no torque-off is among its lines; `FreshInv`: a connection not made yet has left no trace |
| `CommandProofs!NoRevivalHolds` | NoRevival, whatever breaks, dies or comes late on other connections | `RestInv`: of each connection that was not cut off and that the robot does not drive by, every speed under way is followed by a stop, and so is the one it has left on the phone (`Rested`) |
| `ArmHostProofs!TypeCorrect` | TypeOK | inductive as it stands, for any number of workers |
| `ArmHostProofs!OneLoopEver`, `LoopHasPorts` | OneLoop, LoopServes | `Order`, under `Orderly`: at most one worker is alive or it has been told to stop and is waited for (`Alone`, `Watched`, `Stored`), a new one finds the flag down (`Fresh`), and only a worker's own stop or the main thread's touches its ports (`MainSane`, `OwnStop`, `HasPorts`) |
| `FrameHubProofs!TypeCorrect`, `LocksHold` | TypeOK, LocksMatchWaits: a lock in the list for each wait under way and no other (the latter not checked by a run) | inductive as they stand |
| `FrameHubProofs!WakeupHolds` | NoLostWakeup, any number of publishers | needs LocksMatchWaits: the publisher's list has every lock enlisted before |
| `FrameHubProofs!InOrder` | FramesInOrder (implements FrameFeed), any numbers of publishers and viewers | `OrderInv`: a frame about to be stored is the newest or overtaken, and no viewer is ahead of a stored frame that was not; then every step maps to a step of FrameFeed or a stutter that delivers nothing |
| `CameraDemandProofs!ServedHolds` | WantedIsServed | `LateViewersAsk`: a viewer on a name the closing task has already looked at has a message on its way; `MarkMeansOpening`: an open that has reached the library and is still marked has opened the camera or has an answer to come, unless it is spoilt |
| `CameraDemandProofs!TypeCorrect` | TypeOK, finitely many clients | `Counts`: a counter is the number of the handlers between addViewer and removeViewer, so it never goes below zero |
| `SerialPortsProofs!OwnerHolds` | HostKeepsAdapter | `Apart`: the host's adapter is plugged in and has no listener, what is open has one, a detach message names an adapter that is gone |
| `SerialPortsProofs!DetachHolds` | DetachLeavesNothing, whatever the user does | `Tidy`: a permission answered before the adapter went is queued ahead of its detach message (`DetachFollows`), so a late answer is cleaned up behind |
| `SerialPortsProofs!ClientsAreServed` | ClientIsServed, when serial ports open (`~OpenFails`) | `Serve`, `Live`: a port about to be closed counts as closed already, and a client that came since has its message in the queue or is still to post it |
| `SerialPortsProofs!TypeCorrect` | TypeOK with the bound of a client count | `Adapters`: finitely many adapters are known, so what `infos()` folds is a list; `Counted`: a connection that is not made is in no list, so one more client still fits |
| `AsyncInferenceProofs!GoHolds` | GoIsAnswered | `SentIsPending`: as long as none of the `Causes` has struck, a must-go observation that was sent, noted or not, is still to be answered |
| `AsyncInferenceProofs!TypeCorrect` | TypeOK with the bound of the client's queue | `Sizes`: what is kept of a chunk and the rest of it are no more than a chunk; with the invariant of ForwardHolds |
| `AsyncInferenceProofs!ForwardHolds` | StepsForward | `QueueAhead`, `ChunkAhead`: queue and kept actions ascend and lie beyond the last action, and the rest of a chunk beyond those |
| `RecordingProofs!TypeCorrect` | TypeOK with the bound of every queue, any cameras and episodes | inductive once an episode that is being recorded is known to be one (`Types`) |
| `RecordingProofs!OrderKeeps` | InOrder (implements LossyStream) | `Order`: what waits in a queue ascends (`Waiting`), lies beyond the frame in hand, and that one beyond the last one written (`Held`), for threads given up on too |
| `RecordingProofs!NothingGetsLost` | FramesAccounted | `Ledger`: of every episode that still counts, the frames written, lost, queued and in hand are the frames fed (`Kept`); the sentinel is the last thing in a queue, a thread ends on it only, and one that was joined in time has ended |
| `RecordingProofs!StoreTypeCorrect` | StoreTypeOK | `ListInv`: episodes pass in the order of recording from `deferred` over `jobs`, `ready` and `todo`, only counted ones do (`Counted`), and which lists may be filled depends on the phase (`PhaseInv`); `TableInv`: the buffer has room for a row (`RoomInv`); `RowInv` |
| `RecordingProofs!ClosedHolds` | ClosedIsConsistent | `RowInv`: rows on disk and in the buffer are one for each counted episode, and the latest row is the last one's; finalize leaves no row in the buffer |
| `RecordingProofs!SpansHeld` | SpansAreOwn | `SpanInv`: every span but the latest row's names its own video in a file not after the latest span's (`Known`), the spans noted for rows on disk too, and the latest span names the end of its file while videos wait to be joined, so that the next one is appended behind it |
| `RecordingProofs!ShortSessionsHold` | ShortSessionKeepsVideos | `ShortInv`, while nothing has failed and the session fits into the buffer: no row is written before finalize or all are written together (`Layout`), every episode's video is on its way (`OnTheWay`), a row whose video was joined has a span, and the last video joined is the latest row's (`Remembered`), so its borrowed span is its own in the end |
| `DaggerProofs!TypeCorrect` | TypeOK | `SessionInv` and `EngineInv`: the queue is at most `Threshold` long when an inference begins, and the thread has not used up its errors before it ends |
| `DaggerProofs!OldChunksEnd` | StaleIsBounded | `StaleInv`: once the loop has notified, the held observation is fresh, so after a stale chunk the thread has no second one in hand |
| `DaggerProofs!NothingStaysBehind` | EverythingUploaded | `FlagInv`: when the Hub lacks a saved episode, or has it in part, the flag is up, or about to be raised by the thread that saved it, or a push begun before finalize has lowered it since |

The ports `infos()` gives out are folded over a list of adapters (`Numbered`). The
induction theorems of the library take an operator as a parameter, which the installed
provers cannot instantiate, so the two inductions on the length of the list
(`IteratesExists`: the function a fold is taken from exists; `FoldType`: it returns
ports) are argued from a smallest counterexample (`LeastNat`, which rests on the
well-foundedness of < on Nat). The fold is over a list only when finitely many adapters
are listed, so `Adapters` carries that `attached` and `usb.plugged` are finite;
`Devices` itself may be infinite, since an adapter plugged in again has a new id.

A module of proofs belongs to a subject: `CommandProofs` EXTENDS both ends of the
command path, ArmLoop and PhoneLink, and `RecordingProofs` both layers of a recording,
VideoEncoder and EpisodeStore. PhoneLink and EpisodeStore therefore name what every
specification has with a prefix (`LinkSpec`, `LinkTypeOK`, `StoreSpec`, `StoreTypeOK`),
and what ArmLoop and PhoneLink share is in `WheelCommands`.

Only model-checked: all liveness properties (temporal logic with fairness is outside
what the provers do). Every invariant a run checks is the subject of a theorem.

## 5. Not modelled

Joint values, calibration, images, JPEG encoding, HTTP and gRPC framing, the wording of
messages, user interface and preferences; policies, processors, training, environments
and dataset tools, which are sequential numerical code and most of the tree's lines. In
the files that are modelled: the servo protocol below `FeetechBus`'s calls, the byte
queue of `UsbSerialManager` (`enqueueWrite`, `flushPending`), the observation threads on
both ends of port 9102, `Ready` and `SendPolicyInstructions` of the policy server,
camera sessions below open and close, batched encoding and image datasets in
`dataset_writer.py`, the blending of chunks by the policy, and the files a push sends, one by one.

## 6. Plan

1. Done: ArmLoop, ArmHost, FrameHub, CameraDemand, SerialPorts, PhoneLink,
   AsyncInference, EpisodeStore, VideoEncoder, RtcEngine and Dagger, with FrameFeed as
   the abstract specification of a live stream and LossyStream of a recorded one.
2. Observation thread, reconnect and age of samples, with the MJPEG camera, which has
   the same shape.
3. The byte queue of a serial adapter, against an abstract queue that delivers in order
   (a failed chunk is put back at the tail, `UsbSerialManager.kt:274`).
4. Actor and learner of distributed RL.
5. Proofs: the bound on the bytes of item 3.
