------------------------------- MODULE ArmLoop -------------------------------
(***************************************************************************)
(* The servo loop of the phone's arm host and the threads that feed it     *)
(* (android .../serial/ArmHost.kt).  Every command socket has a reader     *)
(* thread that writes four shared atomics one after the other; the 30 Hz   *)
(* loop thread reads the same atomics one after the other and writes the   *)
(* servos.  A step below is one access to a shared atomic, together with   *)
(* the private work (parsing, bus traffic) next to it.                     *)
(***************************************************************************)
EXTENDS WheelCommands, Integers, FiniteSets

CONSTANTS
    Goals,      \* position goals (arrays of six ticks)
    NoGoal,     \* latestGoal = null, or a message without "pos"
    Watchdog,   \* WATCHDOG_MS in clock ticks
    MaxLag,     \* clock ticks one iteration of the loop can take
    BusLoses    \* TRUE when a write to the servos may fail (runCatching)

ASSUME TimingAssumption == Watchdog \in Nat /\ MaxLag \in Nat
ASSUME FlagAssumption == BusLoses \in BOOLEAN
ASSUME NullAssumption == NoGoal \notin Goals

(***************************************************************************)
(* currentTimeMillis() - lastCmdMs, in ticks.  Beyond AgeCap the exact     *)
(* value no longer matters; Never is the age of lastCmdMs = 0 (1970), and  *)
(* -1 the age of a stamp the adjusted clock has not reached again.         *)
(***************************************************************************)
AgeCap == Watchdog + 2 * MaxLag + 1
Never  == AgeCap + 1

VARIABLES
    latestGoal, latestVel, age, torqueRequested,    \* the shared atomics
    reader,             \* reader[c]: how far it is in the line it handles
    pc,                 \* where the loop thread is in its iteration
    wantTorque, torqueApplied, goal, fresh,         \* locals of the loop
    lag,                \* clock ticks since this iteration began
    wheels,             \* motors 7 and 8 answered the ping at start
    driven,             \* this loop has written the wheels at least once
    servo,              \* registers of the servos: torque, position, speed
    adjusted,           \* history: the wall clock has been adjusted
    overlapped          \* history: see OffBegins

shared == <<latestGoal, latestVel, age, torqueRequested>>
feed   == <<shared, reader, overlapped>>
locals == <<wantTorque, torqueApplied, goal, fresh>>
loop   == <<pc, locals, lag, wheels, driven, servo, adjusted>>
vars   == <<feed, loop>>

ReaderPc == {"recv", "goal", "vel", "stamp", "offVel", "offStamp", "offTorque"}
LoopPc   == {"off", "torque", "goal", "arm", "wheels", "sleep"}

Init ==
    /\ latestGoal = NoGoal /\ latestVel = Stop
    /\ age = Never /\ torqueRequested = TRUE
    /\ reader = [c \in Conns |-> "recv"]
    /\ pc = "torque"
    /\ wantTorque = TRUE /\ torqueApplied = TRUE
    /\ goal = NoGoal /\ fresh = FALSE
    /\ lag = 0
    /\ wheels \in BOOLEAN /\ driven = FALSE
    /\ servo = [torque |-> TRUE, pos |-> NoGoal, speed |-> Stop]
    /\ adjusted = FALSE /\ overlapped = FALSE

To(c, where) == reader' = [reader EXCEPT ![c] = where]

InLine(c) == reader[c] \in {"goal", "vel", "stamp"}
InOff(c)  == reader[c] \in {"offVel", "offStamp", "offTorque"}

(* overlapped: the torque-off (or line) that began last did so while the    *)
(* reader of another socket was in a line (or in a torque-off).             *)
OffBegins  == overlapped' = (\E d \in Conns : InLine(d))
LineBegins == overlapped' = (\E d \in Conns : InOff(d))

(* A write either reaches the servo or is lost; runCatching hides which.    *)
Write(field, value) ==
    \E written \in IF BusLoses THEN BOOLEAN ELSE {TRUE} :
      servo' = IF written THEN [servo EXCEPT ![field] = value] ELSE servo

-----------------------------------------------------------------------------
(* Faulty variants of the actions below, one plausible slip each.            *)

\* the wrong field of the line
StoreGoal_FromVel(c) ==
    /\ reader[c] = "goal"
    /\ latestGoal' \in {latestGoal} \cup Speeds
    /\ To(c, "vel")
    /\ UNCHANGED <<latestVel, age, torqueRequested, overlapped, loop>>

\* torque-off without latestGoal.set(null)
RecvTorqueOff_KeepsGoal(c) ==
    /\ reader[c] = "recv"
    /\ To(c, "offVel")
    /\ OffBegins
    /\ UNCHANGED <<latestGoal, latestVel, age, torqueRequested, loop>>

\* only switching on is written
TorqueStep_OnlyOn ==
    /\ pc = "torque" /\ pc' = "goal"
    /\ wantTorque' = torqueRequested
    /\ torqueApplied' = torqueRequested
    /\ IF torqueRequested = torqueApplied \/ ~torqueRequested
       THEN UNCHANGED servo
       ELSE Write("torque", TRUE)
    /\ UNCHANGED <<feed, goal, fresh, lag, wheels, driven, adjusted>>

\* no stop is written once the commands are stale
WheelStep_StaleSpeed ==
    /\ pc = "wheels" /\ pc' = "sleep"
    /\ IF wheels /\ fresh
       THEN Write("speed", latestVel)
       ELSE UNCHANGED servo
    /\ fresh' = FALSE /\ driven' = wheels
    /\ UNCHANGED <<feed, wantTorque, torqueApplied, goal, lag, wheels, adjusted>>

-----------------------------------------------------------------------------
(* readCommands: one reader thread per command socket.                      *)

(* A line with pos or vel: torqueRequested.set(true) comes first.  What the *)
(* line holds is private to its reader, so it is chosen where it is stored. *)
RecvCommand(c) ==
    /\ reader[c] = "recv"
    /\ To(c, "goal")
    /\ torqueRequested' = TRUE
    /\ LineBegins
    /\ UNCHANGED <<latestGoal, latestVel, age, loop>>

(* A line without pos, or with an array too short, leaves latestGoal alone. *)
StoreGoal(c) ==
    /\ reader[c] = "goal"
    /\ latestGoal' \in {latestGoal} \cup Goals
    /\ To(c, "vel")
    /\ UNCHANGED <<latestVel, age, torqueRequested, overlapped, loop>>

StoreVel(c) ==
    /\ reader[c] = "vel"
    /\ \E vel \in VelFields : latestVel' = Overwritten(latestVel, vel)
    /\ To(c, "stamp")
    /\ UNCHANGED <<latestGoal, age, torqueRequested, overlapped, loop>>

StoreStamp(c) ==
    /\ reader[c] = "stamp"
    /\ age' = 0
    /\ To(c, "recv")
    /\ UNCHANGED <<latestGoal, latestVel, torqueRequested, overlapped, loop>>

(* getInt throws on a malformed number after torqueRequested was set: the   *)
(* socket is closed, and a later connection takes over the slot.            *)
BadNumber(c) ==
    /\ reader[c] \in {"goal", "vel"}
    /\ To(c, "recv")
    /\ UNCHANGED <<shared, overlapped, loop>>

(* {"torque":0}: four separate sets, torqueRequested last.                  *)
RecvTorqueOff(c) ==
    /\ reader[c] = "recv"
    /\ latestGoal' = NoGoal
    /\ To(c, "offVel")
    /\ OffBegins
    /\ UNCHANGED <<latestVel, age, torqueRequested, loop>>

OffVel(c) ==
    /\ reader[c] = "offVel"
    /\ latestVel' = Stop
    /\ To(c, "offStamp")
    /\ UNCHANGED <<latestGoal, age, torqueRequested, overlapped, loop>>

OffStamp(c) ==
    /\ reader[c] = "offStamp"
    /\ age' = Never
    /\ To(c, "offTorque")
    /\ UNCHANGED <<latestGoal, latestVel, torqueRequested, overlapped, loop>>

OffTorque(c) ==
    /\ reader[c] = "offTorque"
    /\ torqueRequested' = FALSE
    /\ To(c, "recv")
    /\ UNCHANGED <<latestGoal, latestVel, age, overlapped, loop>>

Reader(c) ==
    \/ RecvCommand(c) \/ StoreGoal(c) \/ StoreVel(c) \/ StoreStamp(c) \/ BadNumber(c)
    \/ RecvTorqueOff(c) \/ OffVel(c) \/ OffStamp(c) \/ OffTorque(c)

-----------------------------------------------------------------------------
(* loop: one iteration is TorqueStep ... SleepStep.  The locals goal and    *)
(* fresh are reset by the step that reads them last.                        *)

(* torqueApplied follows the request even when the writes failed.           *)
TorqueStep ==
    /\ pc = "torque" /\ pc' = "goal"
    /\ wantTorque' = torqueRequested
    /\ torqueApplied' = torqueRequested
    /\ IF torqueRequested = torqueApplied
       THEN UNCHANGED servo
       ELSE Write("torque", torqueRequested)
    /\ UNCHANGED <<feed, goal, fresh, lag, wheels, driven, adjusted>>

GoalStep ==
    /\ pc = "goal" /\ pc' = "arm"
    /\ goal' = latestGoal
    /\ UNCHANGED <<feed, wantTorque, torqueApplied, fresh, lag, wheels, driven, servo,
                   adjusted>>

ArmStep ==
    /\ pc = "arm" /\ pc' = "wheels"
    /\ fresh' = (wantTorque /\ age \in 0..Watchdog)
    /\ IF fresh' /\ goal # NoGoal
       THEN Write("pos", goal)
       ELSE UNCHANGED servo
    /\ goal' = NoGoal
    /\ UNCHANGED <<feed, wantTorque, torqueApplied, lag, wheels, driven, adjusted>>

WheelStep ==
    /\ pc = "wheels" /\ pc' = "sleep"
    /\ IF wheels
       THEN Write("speed", IF fresh THEN latestVel ELSE Stop)
       ELSE UNCHANGED servo
    /\ fresh' = FALSE /\ driven' = wheels
    /\ UNCHANGED <<feed, wantTorque, torqueApplied, goal, lag, wheels, adjusted>>

(* Reading the servos touches none of this state; after the sleep the next  *)
(* iteration begins.                                                        *)
SleepStep ==
    /\ pc = "sleep" /\ pc' = "torque"
    /\ lag' = 0
    /\ UNCHANGED <<feed, locals, wheels, driven, servo, adjusted>>

Loop == TorqueStep \/ GoalStep \/ ArmStep \/ WheelStep \/ SleepStep

(* The adapter is unplugged or the service stopped: the loop ends without a *)
(* last write, so the servos keep turning at the speed they were given.     *)
(* Its locals end with it.                                                  *)
LoopEnds ==
    /\ pc # "off" /\ pc' = "off"
    /\ wantTorque' = TRUE /\ torqueApplied' = TRUE /\ goal' = NoGoal /\ fresh' = FALSE
    /\ lag' = 0 /\ wheels' = FALSE /\ driven' = FALSE
    /\ UNCHANGED <<feed, servo, adjusted>>

(* The worker's start: configure() turns the torque on whatever             *)
(* torqueRequested says, the wheels are pinged again (an unanswered ping    *)
(* leaves them out), and the loop runs over the same atomics as before.     *)
LoopStarts ==
    /\ pc = "off" /\ pc' = "torque"
    /\ torqueApplied' = TRUE
    /\ wheels' \in BOOLEAN
    /\ Write("torque", TRUE)
    /\ UNCHANGED <<feed, wantTorque, goal, fresh, lag, driven, adjusted>>

-----------------------------------------------------------------------------
(* Time.  MaxLag bounds how long an iteration takes: the bus calls have     *)
(* timeouts and the sleep is at most PERIOD_MS.                             *)
Tick ==
    /\ pc = "off" \/ lag < MaxLag
    /\ lag' = IF pc = "off" THEN 0 ELSE lag + 1
    /\ age' = IF age >= AgeCap THEN age ELSE age + 1
    /\ UNCHANGED <<latestGoal, latestVel, torqueRequested, reader, overlapped, pc, locals, wheels,
                   driven, servo, adjusted>>

(* System.currentTimeMillis() is the wall clock, which the network adjusts: *)
(* the stamp lies in the future or is old; ticks lead to the ages between.  *)
ClockStep ==
    /\ age # Never
    /\ age' \in {-1, AgeCap}
    /\ adjusted' = TRUE
    /\ UNCHANGED <<latestGoal, latestVel, torqueRequested, reader, overlapped, pc, locals, lag,
                   wheels, driven, servo>>

Next == (\E c \in Conns : Reader(c)) \/ Loop \/ LoopEnds \/ LoopStarts \/ Tick \/ ClockStep

(* The running loop and the clock go on, and a reader finishes the line it  *)
(* has begun.  Nothing makes a command arrive or the loop restart.          *)
Fairness ==
    /\ WF_vars(Loop)
    /\ WF_vars(Tick)
    /\ \A c \in Conns : WF_vars(reader[c] # "recv" /\ Reader(c))

Spec == Init /\ [][Next]_vars /\ Fairness

-----------------------------------------------------------------------------
TypeOK ==
    /\ latestGoal \in Goals \cup {NoGoal}
    /\ latestVel \in Velocities
    /\ age \in -1..Never
    /\ torqueRequested \in BOOLEAN
    /\ reader \in [Conns -> ReaderPc]
    /\ pc \in LoopPc
    /\ wantTorque \in BOOLEAN /\ torqueApplied \in BOOLEAN /\ fresh \in BOOLEAN
    /\ goal \in Goals \cup {NoGoal}
    /\ lag \in 0..MaxLag
    /\ wheels \in BOOLEAN /\ driven \in BOOLEAN
    /\ adjusted \in BOOLEAN /\ overlapped \in BOOLEAN
    /\ servo \in [torque : BOOLEAN, pos : Goals \cup {NoGoal}, speed : Velocities]

Idle(c) == reader[c] = "recv"

(* The watchdog, end to end (ArmHost.loop): once this loop has driven the   *)
(* wheels, they turn only while the last command is younger than the        *)
(* watchdog plus two iterations of the loop: the one that sampled it and    *)
(* the one that has yet to write the stop.  After a torque-off (age Never)  *)
(* they turn only until the next write of the wheels.                       *)
WatchdogStopsWheels ==
    ~BusLoses /\ ~adjusted /\ driven /\ servo.speed # Stop =>
      age <= Watchdog + 2 * MaxLag \/ age = Never

(* A torque-off that no other socket's line overlapped leaves nothing a     *)
(* later command could bring back (ArmHost.readCommands): whatever the      *)
(* readers of all sockets did before, and whatever part of a line a bad     *)
(* number cut off, no goal, speed or stamp is left while torque is off.     *)
(* With an overlap there may be: readers are not synchronised, and a line   *)
(* that has requested torque stores its goal after the torque-off of the    *)
(* other socket has cleared it and switched the request off.                *)
OffLeavesNothing ==
    (\A c \in Conns : Idle(c)) /\ ~torqueRequested /\ ~overlapped
        => latestGoal = NoGoal /\ latestVel = Stop /\ age = Never

(* torqueApplied is the loop's only record of the servos' torque, and it is *)
(* what decides whether the torque is written at all: on a bus that loses   *)
(* nothing it agrees with the registers, across restarts too.               *)
AppliedIsReal ==
    ~BusLoses /\ pc # "off" => torqueApplied = servo.torque

(* A torque-off that stands reaches the servos of a loop that keeps running *)
(* (ArmHost.loop), even one that configure() has just switched on again.    *)
OffReachesServos ==
    <>[](~torqueRequested /\ pc # "off") => <>[](~servo.torque)

=============================================================================
