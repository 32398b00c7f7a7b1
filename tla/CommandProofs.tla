---------------------------- MODULE CommandProofs ----------------------------
(***************************************************************************)
(* Theorems about the command path: the phone's end (ArmLoop), for any     *)
(* number of sockets, goals and speeds and any watchdog and iteration      *)
(* length, and the PC's end with the connections in between (PhoneLink),   *)
(* for any number of connections and speeds and lines under way.           *)
(***************************************************************************)
EXTENDS ArmLoop, PhoneLink, SequenceTheorems, TLAPS

(* Every variable keeps its type (the readers and the loop of ArmHost).     *)
THEOREM TypeCorrect == Spec => []TypeOK
<1>1. Init => TypeOK
  <2> SUFFICES ASSUME Init
               PROVE  TypeOK
    OBVIOUS
  <2>1. age \in -1..Never
    BY TimingAssumption DEF Init, Never, AgeCap
  <2>2. reader \in [Conns -> ReaderPc]
    BY DEF Init, ReaderPc
  <2>3. lag \in 0..MaxLag
    BY TimingAssumption DEF Init
  <2> QED BY <2>1, <2>2, <2>3 DEF Init, TypeOK, LoopPc, Velocities
<1>2. TypeOK /\ [Next]_vars => TypeOK'
  <2> SUFFICES ASSUME TypeOK, [Next]_vars
               PROVE  TypeOK'
    OBVIOUS
  <2> USE TimingAssumption DEF TypeOK, shared, feed, locals, loop
  <2>1. ASSUME NEW c \in Conns, Reader(c)
        PROVE  TypeOK'
    <3>1. CASE RecvCommand(c)
      <4>1. overlapped' \in BOOLEAN
        BY <3>1, Zenon DEF RecvCommand, LineBegins
      <4> QED BY <3>1, <4>1 DEF RecvCommand, To, ReaderPc
    <3>2. CASE StoreGoal(c)
      BY <3>2 DEF StoreGoal, To, ReaderPc
    <3>3. CASE StoreVel(c)
      BY <3>3 DEF StoreVel, Overwritten, To, ReaderPc, VelFields
    <3>4. CASE StoreStamp(c)
      BY <3>4 DEF StoreStamp, To, ReaderPc, Never, AgeCap
    <3>5. CASE BadNumber(c)
      BY <3>5 DEF BadNumber, To, ReaderPc
    <3>6. CASE RecvTorqueOff(c)
      <4>1. overlapped' \in BOOLEAN
        BY <3>6, Zenon DEF RecvTorqueOff, OffBegins
      <4> QED BY <3>6, <4>1 DEF RecvTorqueOff, To, ReaderPc
    <3>7. CASE OffVel(c)
      BY <3>7 DEF OffVel, Velocities, To, ReaderPc
    <3>8. CASE OffStamp(c)
      BY <3>8 DEF OffStamp, To, ReaderPc, Never, AgeCap
    <3>9. CASE OffTorque(c)
      <4>1. reader' \in [Conns -> ReaderPc]
        BY <3>9 DEF OffTorque, To, ReaderPc
      <4>2. torqueRequested' \in BOOLEAN
        BY <3>9, Zenon DEF OffTorque
      <4>3. UNCHANGED <<latestGoal, latestVel, age, overlapped, loop>>
        BY <3>9 DEF OffTorque
      <4> QED BY <4>1, <4>2, <4>3
    <3> QED BY <2>1, <3>1, <3>2, <3>3, <3>4, <3>5, <3>6, <3>7, <3>8, <3>9 DEF Reader
  <2>2. CASE TorqueStep
    BY <2>2 DEF TorqueStep, Write, LoopPc
  <2>3. CASE GoalStep
    BY <2>3 DEF GoalStep, LoopPc
  <2>4. CASE ArmStep
    BY <2>4 DEF ArmStep, Write, LoopPc
  <2>5. CASE WheelStep
    BY <2>5 DEF WheelStep, Write, LoopPc, Velocities
  <2>6. CASE SleepStep
    BY <2>6 DEF SleepStep, LoopPc
  <2>7. CASE LoopEnds
    <3>1. lag' \in 0..MaxLag
      BY <2>7 DEF LoopEnds
    <3>2. /\ fresh' \in BOOLEAN /\ driven' \in BOOLEAN /\ wheels' \in BOOLEAN
          /\ wantTorque' \in BOOLEAN /\ torqueApplied' \in BOOLEAN
      BY <2>7, Zenon DEF LoopEnds
    <3> QED BY <2>7, <3>1, <3>2 DEF LoopEnds, LoopPc
  <2>8. CASE LoopStarts
    BY <2>8 DEF LoopStarts, Write, LoopPc
  <2>9. CASE Tick
    BY <2>9 DEF Tick, Never, AgeCap
  <2>10. CASE ClockStep
    BY <2>10 DEF ClockStep, Never, AgeCap
  <2>11. CASE UNCHANGED vars
    BY <2>11 DEF vars
  <2> QED BY <2>1, <2>2, <2>3, <2>4, <2>5, <2>6, <2>7, <2>8, <2>9, <2>10, <2>11
          DEF Next, Loop
<1> QED BY <1>1, <1>2, PTL DEF Spec

-----------------------------------------------------------------------------
(* Time that may have passed since the last command while the wheels turn:  *)
(* an iteration that has written the wheels saw the command at most a       *)
(* watchdog old; one that has not yet may be the next one.                  *)
WithinLag(bound) == age = Never \/ age <= Watchdog + bound + lag

WatchdogInv ==
    /\ pc = "off" => ~driven
    /\ ~adjusted /\ pc = "wheels" /\ fresh => WithinLag(0)
    /\ ~BusLoses /\ ~adjusted /\ driven /\ servo.speed # Stop =>
         WithinLag(IF pc = "sleep" THEN 0 ELSE MaxLag)

(* On a bus that loses nothing and until the clock is adjusted, the wheels  *)
(* of a running loop stop at most two iterations after the watchdog         *)
(* (ArmHost).                                                               *)
THEOREM WatchdogHolds == Spec => []WatchdogStopsWheels
<1>1. Init => WatchdogInv
  BY DEF Init, WatchdogInv
<1>2. TypeOK /\ WatchdogInv /\ [Next]_vars => WatchdogInv'
  <2> SUFFICES ASSUME TypeOK, WatchdogInv, [Next]_vars
               PROVE  WatchdogInv'
    OBVIOUS
  <2> USE TimingAssumption DEF TypeOK, WatchdogInv, WithinLag, Never, AgeCap, shared, feed, locals, loop
  <2>1. ASSUME NEW c \in Conns, Reader(c)
        PROVE  WatchdogInv'
    <3>1. UNCHANGED loop
      BY <2>1 DEF Reader, RecvCommand, StoreGoal, StoreVel, StoreStamp, BadNumber,
                  RecvTorqueOff, OffVel, OffStamp, OffTorque
    <3>2. age' \in {age, 0, Never}
      BY <2>1 DEF Reader, RecvCommand, StoreGoal, StoreVel, StoreStamp, BadNumber,
                  RecvTorqueOff, OffVel, OffStamp, OffTorque
    <3> QED BY <3>1, <3>2
  <2>2. CASE TorqueStep
    BY <2>2 DEF TorqueStep, Write
  <2>3. CASE GoalStep
    BY <2>3 DEF GoalStep
  <2>4. CASE ArmStep
    <3>1. pc' = "wheels" /\ UNCHANGED <<age, lag, wheels, driven, adjusted>>
      BY <2>4 DEF ArmStep
    <3>2. servo'.speed = servo.speed
      BY <2>4 DEF ArmStep, Write
    <3>3. fresh' => age <= Watchdog
      <4>1. fresh' = (wantTorque /\ age \in 0..Watchdog)
        BY <2>4 DEF ArmStep
      <4>2. age \in 0..Watchdog => age <= Watchdog
        OBVIOUS
      <4> QED BY <4>1, <4>2, Zenon
    <3>5. age <= Watchdog => WithinLag(0)'
      BY <3>1
    <3>4. ~BusLoses /\ ~adjusted' /\ driven' /\ servo'.speed # Stop => WithinLag(MaxLag)'
      BY <2>4, <3>1, <3>2 DEF ArmStep
    <3> QED BY <3>1, <3>3, <3>4, <3>5, Zenon
  <2>5. CASE WheelStep
    BY <2>5 DEF WheelStep, Write
  <2>6. CASE SleepStep
    BY <2>6 DEF SleepStep
  <2>7. CASE LoopEnds
    BY <2>7 DEF LoopEnds
  <2>8. CASE LoopStarts
    BY <2>8 DEF LoopStarts, Write
  <2>9. CASE Tick
    BY <2>9 DEF Tick
  <2>10. CASE ClockStep
    BY <2>10 DEF ClockStep
  <2>11. CASE UNCHANGED vars
    BY <2>11 DEF vars
  <2> QED BY <2>1, <2>2, <2>3, <2>4, <2>5, <2>6, <2>7, <2>8, <2>9, <2>10, <2>11
          DEF Next, Loop
<1>3. TypeOK /\ WatchdogInv => WatchdogStopsWheels
  BY TimingAssumption
  DEF TypeOK, WatchdogInv, WithinLag, WatchdogStopsWheels, Never, AgeCap
<1> QED BY <1>1, <1>2, <1>3, TypeCorrect, PTL DEF Spec

-----------------------------------------------------------------------------
(* torqueApplied agrees with the servos of a running loop (ArmHost.loop,    *)
(* configure), however often the loop is restarted.                         *)
THEOREM AppliedHolds == Spec => []AppliedIsReal
<1>1. Init => AppliedIsReal
  BY DEF Init, AppliedIsReal
<1>2. TypeOK /\ AppliedIsReal /\ [Next]_vars => AppliedIsReal'
  <2> SUFFICES ASSUME TypeOK, AppliedIsReal, [Next]_vars, ~BusLoses, pc' # "off"
               PROVE  torqueApplied' = servo'.torque
    BY DEF AppliedIsReal
  <2> USE DEF TypeOK, AppliedIsReal, shared, feed, locals, loop
  <2>1. ASSUME NEW c \in Conns, Reader(c)
        PROVE  torqueApplied' = servo'.torque
    BY <2>1 DEF Reader, RecvCommand, StoreGoal, StoreVel, StoreStamp, BadNumber,
                RecvTorqueOff, OffVel, OffStamp, OffTorque
  <2>2. CASE TorqueStep
    BY <2>2 DEF TorqueStep, Write
  <2>3. CASE GoalStep \/ SleepStep \/ Tick \/ ClockStep
    BY <2>3 DEF GoalStep, SleepStep, Tick, ClockStep
  <2>4. CASE ArmStep \/ WheelStep
    BY <2>4 DEF ArmStep, WheelStep, Write
  <2>5. CASE LoopEnds \/ LoopStarts
    <3>1. LoopStarts /\ torqueApplied' = TRUE
      BY <2>5 DEF LoopEnds, LoopStarts
    <3> QED BY <3>1 DEF LoopStarts, Write
  <2>6. CASE UNCHANGED vars
    BY <2>6 DEF vars
  <2> QED BY <2>1, <2>2, <2>3, <2>4, <2>5, <2>6 DEF Next, Loop
<1> QED BY <1>1, <1>2, TypeCorrect, PTL DEF Spec

-----------------------------------------------------------------------------
(* A torque-off is under way or stands, and no line overlapped it: no       *)
(* reader is in a line, and what is not cleared yet has a torque-off before *)
(* the step that clears it.                                                 *)
OffUnderWay == \E c \in Conns : InOff(c)

OffInv ==
    ~overlapped /\ (OffUnderWay \/ ~torqueRequested) =>
      /\ \A c \in Conns : ~InLine(c)
      /\ latestGoal = NoGoal
      /\ latestVel = Stop \/ \E c \in Conns : reader[c] = "offVel"
      /\ age = Never \/ \E c \in Conns : reader[c] \in {"offVel", "offStamp"}

(* Whatever the readers of any number of sockets did before, a torque-off   *)
(* that no line overlapped leaves neither goal nor speed nor stamp behind   *)
(* (ArmHost.readCommands).                                                  *)
THEOREM OffHolds == Spec => []OffLeavesNothing
<1>1. Init => OffInv
  BY DEF Init, OffInv, OffUnderWay, InOff
<1>2. TypeOK /\ OffInv /\ [Next]_vars => OffInv'
  <2> SUFFICES ASSUME TypeOK, OffInv, [Next]_vars
               PROVE  OffInv'
    OBVIOUS
  <2> USE TimingAssumption DEF TypeOK, shared, feed, locals, loop, InLine, InOff, OffUnderWay
  <2>1. ASSUME NEW c \in Conns, Reader(c)
        PROVE  OffInv'
    <3>1. CASE RecvCommand(c)
      <4>1. reader' = [reader EXCEPT ![c] = "goal"] /\ torqueRequested'
        BY <3>1 DEF RecvCommand, To
      <4>2. overlapped' = OffUnderWay
        BY <3>1 DEF RecvCommand, LineBegins
      <4>3. OffUnderWay' => OffUnderWay
        BY <4>1
      <4> QED BY <4>1, <4>2, <4>3 DEF OffInv
    <3>2. CASE StoreGoal(c)
      <4>1. reader' = [reader EXCEPT ![c] = "vel"] /\ reader[c] = "goal"
        BY <3>2 DEF StoreGoal, To
      <4>2. UNCHANGED <<overlapped, torqueRequested>>
        BY <3>2 DEF StoreGoal
      <4> QED BY <4>1, <4>2 DEF OffInv
    <3>3. CASE StoreVel(c)
      <4>1. reader' = [reader EXCEPT ![c] = "stamp"] /\ reader[c] = "vel"
        BY <3>3 DEF StoreVel, To
      <4>2. UNCHANGED <<overlapped, torqueRequested>>
        BY <3>3 DEF StoreVel
      <4> QED BY <4>1, <4>2 DEF OffInv
    <3>4. CASE StoreStamp(c) \/ BadNumber(c)
      <4>1. reader' = [reader EXCEPT ![c] = "recv"] /\ InLine(c)
        BY <3>4 DEF StoreStamp, BadNumber, To
      <4>2. UNCHANGED <<overlapped, torqueRequested>>
        BY <3>4 DEF StoreStamp, BadNumber
      <4> QED BY <4>1, <4>2 DEF OffInv
    <3>5. CASE RecvTorqueOff(c)
      <4>1. /\ reader' = [reader EXCEPT ![c] = "offVel"] /\ reader[c] = "recv"
            /\ latestGoal' = NoGoal
        BY <3>5 DEF RecvTorqueOff, To
      <4>2. overlapped' = \E d \in Conns : InLine(d)
        BY <3>5 DEF RecvTorqueOff, OffBegins
      <4>3. reader'[c] = "offVel" /\ \A d \in Conns : InLine(d)' => InLine(d)
        BY <4>1
      <4> QED BY <4>1, <4>2, <4>3 DEF OffInv
    <3>6. CASE OffVel(c)
      <4>1. /\ reader' = [reader EXCEPT ![c] = "offStamp"] /\ reader[c] = "offVel"
            /\ latestVel' = Stop
            /\ UNCHANGED <<latestGoal, age, torqueRequested, overlapped>>
        BY <3>6 DEF OffVel, To
      <4>2. reader'[c] = "offStamp" /\ \A d \in Conns : InLine(d)' => InLine(d)
        BY <4>1
      <4> QED BY <4>1, <4>2 DEF OffInv
    <3>7. CASE OffStamp(c)
      <4>1. /\ reader' = [reader EXCEPT ![c] = "offTorque"] /\ reader[c] = "offStamp"
            /\ age' = Never
            /\ UNCHANGED <<latestGoal, latestVel, torqueRequested, overlapped>>
        BY <3>7 DEF OffStamp, To
      <4>2. \A d \in Conns : /\ InLine(d)' => InLine(d)
                             /\ reader[d] = "offVel" => reader'[d] = "offVel"
        BY <4>1
      <4> QED BY <4>1, <4>2 DEF OffInv
    <3>8. CASE OffTorque(c)
      <4>1. /\ reader' = [reader EXCEPT ![c] = "recv"] /\ InOff(c)
            /\ reader[c] = "offTorque"
            /\ UNCHANGED <<latestGoal, latestVel, age, overlapped>>
        BY <3>8 DEF OffTorque, To
      <4>2. \A d \in Conns : /\ InLine(d)' => InLine(d)
                             /\ reader[d] \in {"offVel", "offStamp"} => reader'[d] = reader[d]
        BY <4>1
      <4>3. ~overlapped =>
              /\ \A d \in Conns : ~InLine(d)
              /\ latestGoal = NoGoal
              /\ latestVel = Stop \/ \E d \in Conns : reader[d] = "offVel"
              /\ age = Never \/ \E d \in Conns : reader[d] \in {"offVel", "offStamp"}
        BY <4>1 DEF OffInv
      <4> QED BY <4>1, <4>2, <4>3 DEF OffInv
    <3> QED BY <2>1, <3>1, <3>2, <3>3, <3>4, <3>5, <3>6, <3>7, <3>8 DEF Reader
  <2>2. ASSUME Loop \/ LoopEnds \/ LoopStarts \/ UNCHANGED vars
        PROVE  OffInv'
    <3>1. UNCHANGED <<shared, reader, overlapped>>
      BY <2>2 DEF Loop, TorqueStep, GoalStep, ArmStep, WheelStep, SleepStep,
                  LoopEnds, LoopStarts, vars
    <3> QED BY <3>1 DEF OffInv
  <2>3. ASSUME Tick \/ ClockStep
        PROVE  OffInv'
    <3>1. UNCHANGED <<latestGoal, latestVel, torqueRequested, reader, overlapped>>
      BY <2>3 DEF Tick, ClockStep
    <3>2. age = Never => age' = Never
      BY <2>3 DEF Tick, ClockStep, Never, AgeCap
    <3> QED BY <3>1, <3>2 DEF OffInv
  <2> QED BY <2>1, <2>2, <2>3 DEF Next
<1>3. TypeOK /\ OffInv => OffLeavesNothing
  BY DEF TypeOK, OffInv, OffLeavesNothing, Idle, InLine, InOff
<1> QED BY <1>1, <1>2, <1>3, TypeCorrect, PTL DEF Spec

-----------------------------------------------------------------------------
(* The other end of the command path: PhoneLink.                            *)
Links == [Conns -> [state : {"new", "open", "broken"}, lines : Seq(Lines)]]

(* LinkTypeOK, that link is a function, and which fields of robot belong    *)
(* together: without a bus it has no connection and is not in an action.    *)
LinkType ==
    /\ LinkTypeOK
    /\ link \in Links
    /\ robot.bus => robot.conn \in Conns
    /\ ~robot.bus => robot.conn = None
    /\ robot.step # "idle" => Connected

LEMMA LineTypes ==
    /\ ArmLine \in Lines
    /\ TorqueOff \in Lines
    /\ \A v \in Velocities : VelLine(v) \in Lines
BY DEF ArmLine, TorqueOff, VelLine, Lines, VelFields

(* What one sendall may do keeps the type of link.                          *)
LEMMA SendType ==
    ASSUME link \in Links, robot.conn \in Conns, NEW line \in Lines,
           Sent(line) \/ Raises \/ UNCHANGED link
    PROVE  link' \in Links
<1>1. /\ link[robot.conn].lines \in Seq(Lines)
      /\ DOMAIN link = Conns
  BY DEF Links
<1>2. Append(link[robot.conn].lines, line) \in Seq(Lines)
  BY <1>1
<1>3. [link EXCEPT ![robot.conn].lines = Append(@, line)] \in Links
  BY <1>2 DEF Links
<1> QED BY <1>3 DEF Sent, Raises

LEMMA LinkTypeHolds == LinkSpec => []LinkType
<1>1. LinkInit => LinkType
  <2> SUFFICES ASSUME LinkInit
               PROVE  LinkType
    OBVIOUS
  <2>1. link \in Links
    <3>1. << >> \in Seq(Lines)
      OBVIOUS
    <3> QED BY <3>1 DEF LinkInit, Links
  <2>2. \A k \in Conns : /\ link[k].state \in {"new", "open", "broken"}
                         /\ link[k].lines \in Seq(Lines)
    BY <2>1 DEF Links
  <2> QED BY <2>1, <2>2 DEF LinkInit, NewRobot, NewPhone, LinkType, LinkTypeOK,
                            Velocities
<1>2. LinkType /\ [LinkNext]_linkVars => LinkType'
  <2> SUFFICES ASSUME LinkType, [LinkNext]_linkVars
               PROVE  LinkType'
    OBVIOUS
  <2> USE DEF LinkType, Connected
  <2>0. /\ link \in Links => \A k \in Conns : /\ link[k].state \in {"new", "open", "broken"}
                                              /\ link[k].lines \in Seq(Lines)
        /\ link' \in Links => \A k \in Conns : /\ link'[k].state \in {"new", "open", "broken"}
                                               /\ link'[k].lines \in Seq(Lines)
    BY DEF Links
  <2> USE <2>0 DEF LinkTypeOK, histories
  <2>1. CASE SendArm
    <3>1. link' \in Links
      BY <2>1, LineTypes, SendType DEF SendArm
    <3>2. robot' = robot \/ \E v \in Velocities : robot' = [robot EXCEPT !.step = "wheels", !.want = v]
      BY <2>1 DEF SendArm
    <3> QED BY <2>1, <3>1, <3>2 DEF SendArm
  <2>2. CASE SendWheels
    <3>1. link' \in Links
      BY <2>2, LineTypes, SendType DEF SendWheels
    <3> QED BY <2>2, <3>1 DEF SendWheels, Velocities
  <2>3. CASE StopBase
    <3>1. link' \in Links
      BY <2>3, LineTypes, SendType DEF StopBase, Velocities
    <3> QED BY <2>3, <3>1 DEF StopBase, Velocities
  <2>4. CASE Disconnect
    <3>1. link' \in Links
      BY <2>4, LineTypes, SendType DEF Disconnect
    <3> QED BY <2>4, <3>1 DEF Disconnect
  <2>5. CASE ProcessDies
    BY <2>5 DEF ProcessDies, NewRobot, Velocities
  <2>6. CASE PhoneRestarts
    <3>1. link' \in Links
      BY <2>6 DEF PhoneRestarts, Links
    <3> QED BY <2>6, <3>1 DEF PhoneRestarts, NewPhone, Velocities
  <2>7. CASE WatchdogRunsOut
    BY <2>7 DEF WatchdogRunsOut
  <2>8. ASSUME NEW k \in Conns, Connect(k)
        PROVE  LinkType'
    <3>1. link' \in Links
      BY <2>8 DEF Connect, Links
    <3>2. past' \subseteq {"break", "late"}
      BY <2>8 DEF Connect
    <3> QED BY <2>8, <3>1, <3>2 DEF Connect
  <2>9. ASSUME NEW k \in Conns, Break(k)
        PROVE  LinkType'
    <3>1. link' \in Links
      BY <2>9 DEF Break, Links
    <3> QED BY <2>9, <3>1 DEF Break
  <2>10. ASSUME NEW k \in Conns, ReadCommand(k)
         PROVE  LinkType'
    <3>0. link[k].lines \in Seq(Lines) /\ link[k].lines # << >>
      BY <2>10 DEF ReadCommand, Links
    <3>1. link' \in Links
      <4> DEFINE Ends == [state : {"new", "open", "broken"}, lines : Seq(Lines)]
      <4>1. link \in [Conns -> Ends] /\ link[k] \in Ends
        BY DEF Links
      <4>2. Tail(link[k].lines) \in Seq(Lines)
        BY <3>0
      <4>3. [link[k] EXCEPT !.lines = Tail(@)] \in Ends
        BY <4>1, <4>2
      <4>4. link' = [link EXCEPT ![k] = [link[k] EXCEPT !.lines = Tail(@)]]
        BY <2>10, <4>1 DEF ReadCommand
      <4> HIDE DEF Ends
      <4>5. link' \in [Conns -> Ends]
        BY <4>1, <4>3, <4>4
      <4> QED BY <4>5 DEF Links, Ends
    <3>2. Head(link[k].lines) \in Lines
      BY <3>0
    <3>3. phone' \in [vel : Velocities, fresh : BOOLEAN,
                      velBy : Conns \cup {None}, freshBy : Conns \cup {None}]
      BY <2>10, <3>2 DEF ReadCommand, Overwritten, Lines, VelFields, Velocities
    <3> QED BY <2>10, <3>1, <3>3 DEF ReadCommand
  <2>11. CASE UNCHANGED linkVars
    BY <2>11 DEF linkVars, histories
  <2> QED BY <2>1, <2>2, <2>3, <2>4, <2>5, <2>6, <2>7, <2>8, <2>9, <2>10, <2>11 DEF LinkNext
<1> QED BY <1>1, <1>2, PTL DEF LinkSpec

(* Every variable of the link keeps its type (xlerobot.py, phone_host.py,   *)
(* ArmHost.readCommands).                                                   *)
THEOREM LinkTypeCorrect == LinkSpec => []LinkTypeOK
BY LinkTypeHolds, PTL DEF LinkType

-----------------------------------------------------------------------------
(* A connection that was not made yet has left no trace.                    *)
FreshInv ==
    \A k \in Conns : link[k].state = "new" =>
      link[k].lines = << >> /\ phone.velBy # k /\ phone.freshBy # k /\ robot.conn # k

(* Line i is the last one under way on connection k that has a speed.       *)
LastSpeed(k, i) ==
    /\ link[k].lines[i].vel # NoVel
    /\ \A j \in i + 1..Len(link[k].lines) : link[k].lines[j].vel = NoVel

NoSpeed(k) == \A i \in 1..Len(link[k].lines) : link[k].lines[i].vel = NoVel

(* Connection k carries no torque-off, and _wheel_cmd is the last speed     *)
(* under way on it or else the speed that it has left on the phone.         *)
Own(k) ==
    /\ \A i \in 1..Len(link[k].lines) : link[k].lines[i] # TorqueOff
    /\ \A i \in 1..Len(link[k].lines) :
         LastSpeed(k, i) => link[k].lines[i].vel = robot.wheelCmd
    /\ NoSpeed(k) /\ phone.velBy = k => phone.vel = robot.wheelCmd

OwnInv == \A k \in Conns : robot.conn = k /\ link[k].state = "open" => Own(k)

(* A socket write appends one line to the robot's connection or none.       *)
LEMMA SendEffect ==
    ASSUME link \in Links, robot.conn \in Conns, NEW line \in Lines,
           Sent(line) \/ Raises \/ UNCHANGED link
    PROVE  /\ \A k \in Conns : link'[k].state = link[k].state
           /\ \A k \in Conns : k # robot.conn => link'[k].lines = link[k].lines
           /\ \/ link'[robot.conn].lines = link[robot.conn].lines
              \/ /\ link[robot.conn].state = "open"
                 /\ link'[robot.conn].lines = Append(link[robot.conn].lines, line)
BY DEF Links, Sent, Raises

LEMMA FreshHolds == LinkSpec => []FreshInv
<1> None \notin Conns
  BY LinkAssumption
<1>1. LinkInit => FreshInv
  BY DEF LinkInit, FreshInv, NewRobot, NewPhone
<1>2. LinkType /\ FreshInv /\ [LinkNext]_linkVars => FreshInv'
  <2> SUFFICES ASSUME LinkType, FreshInv, [LinkNext]_linkVars
               PROVE  FreshInv'
    OBVIOUS
  <2> USE DEF LinkType, FreshInv, Connected
  <2>1. CASE SendArm \/ SendWheels \/ StopBase \/ Disconnect
    <3>1. robot.conn \in Conns
      BY <2>1 DEF SendArm, SendWheels, StopBase, Disconnect
    <3>2. phone' = phone /\ robot'.conn \in {robot.conn, None}
      BY <2>1 DEF SendArm, SendWheels, StopBase, Disconnect, LinkTypeOK
    <3>3. \E line \in Lines : Sent(line) \/ Raises \/ UNCHANGED link
      BY <2>1, LineTypes DEF SendArm, SendWheels, StopBase, Disconnect,
                             LinkTypeOK, Velocities
    <3> QED BY <3>1, <3>2, <3>3, SendEffect
  <2>2. CASE ProcessDies
    BY <2>2 DEF ProcessDies, NewRobot
  <2>3. CASE PhoneRestarts
    BY <2>3 DEF PhoneRestarts, NewPhone, Links
  <2>4. CASE WatchdogRunsOut
    BY <2>4 DEF WatchdogRunsOut, LinkTypeOK
  <2>5. ASSUME NEW k \in Conns, Connect(k)
        PROVE  FreshInv'
    <3>1. robot'.conn = k /\ phone' = phone
      BY <2>5 DEF Connect, LinkTypeOK
    <3>2. link'[k].state = "open" /\ \A j \in Conns : j # k => link'[j] = link[j]
      BY <2>5 DEF Connect, Links
    <3> QED BY <3>1, <3>2
  <2>6. ASSUME NEW k \in Conns, Break(k)
        PROVE  FreshInv'
    <3>1. link'[k].state = "broken" /\ \A j \in Conns : j # k => link'[j] = link[j]
      BY <2>6 DEF Break, Links
    <3> QED BY <2>6, <3>1 DEF Break
  <2>7. ASSUME NEW k \in Conns, ReadCommand(k)
        PROVE  FreshInv'
    <3>1. link[k].state # "new" /\ robot' = robot
      BY <2>7 DEF ReadCommand
    <3>2. link'[k].state = link[k].state /\ \A j \in Conns : j # k => link'[j] = link[j]
      BY <2>7 DEF ReadCommand, Links
    <3>3. phone'.velBy \in {phone.velBy, k} /\ phone'.freshBy = k
      BY <2>7 DEF ReadCommand
    <3> QED BY <3>1, <3>2, <3>3
  <2>8. CASE UNCHANGED linkVars
    BY <2>8 DEF linkVars, histories
  <2> QED BY <2>1, <2>2, <2>3, <2>4, <2>5, <2>6, <2>7, <2>8 DEF LinkNext
<1> QED BY <1>1, <1>2, LinkTypeHolds, PTL DEF LinkSpec

(* A line without a speed leaves the last one what it was.                  *)
LEMMA AppendNoSpeed ==
    ASSUME NEW k \in Conns, link \in Links, Own(k),
           UNCHANGED phone, robot'.wheelCmd = robot.wheelCmd,
           NEW line \in Lines, line.vel = NoVel, line # TorqueOff,
           link'[k].lines = Append(link[k].lines, line)
    PROVE  Own(k)'
<1> DEFINE lines == link[k].lines
<1>1. lines \in Seq(Lines)
  BY DEF Links
<1>2. /\ Len(link'[k].lines) = Len(lines) + 1
      /\ \A i \in 1..Len(lines) : link'[k].lines[i] = lines[i]
      /\ link'[k].lines[Len(lines) + 1] = line
      /\ Len(lines) \in Nat
  BY <1>1
<1> HIDE DEF lines
<1>3. \A i \in 1..Len(link'[k].lines) : link'[k].lines[i] # TorqueOff
  <2>1. \A i \in 1..Len(lines) : lines[i] # TorqueOff
    BY DEF Own, lines
  <2> QED BY <1>2, <2>1
<1>4. ASSUME NEW i \in 1..Len(link'[k].lines), LastSpeed(k, i)'
      PROVE  link'[k].lines[i].vel = robot.wheelCmd
  <2>1. i \in 1..Len(lines)
    BY <1>2, <1>4 DEF LastSpeed
  <2>2. \A j \in i + 1..Len(lines) : lines[j].vel = NoVel
    BY <1>2, <1>4, <2>1 DEF LastSpeed
  <2> QED BY <1>2, <1>4, <2>1, <2>2 DEF Own, LastSpeed, lines
<1>5. ASSUME NoSpeed(k)'
      PROVE  NoSpeed(k)
  BY <1>2, <1>5 DEF NoSpeed, lines
<1> QED BY <1>3, <1>4, <1>5 DEF Own

(* A line with a speed that _wheel_cmd then remembers is the last one.      *)
LEMMA AppendSpeed ==
    ASSUME NEW k \in Conns, link \in Links, Own(k),
           NEW line \in Lines, line.vel # NoVel, line.vel = robot'.wheelCmd,
           link'[k].lines = Append(link[k].lines, line)
    PROVE  Own(k)'
<1> DEFINE lines == link[k].lines
<1>1. lines \in Seq(Lines)
  BY DEF Links
<1>2. /\ Len(link'[k].lines) = Len(lines) + 1
      /\ \A i \in 1..Len(lines) : link'[k].lines[i] = lines[i]
      /\ link'[k].lines[Len(lines) + 1] = line
      /\ Len(lines) \in Nat
  BY <1>1
<1> HIDE DEF lines
<1>3. \A i \in 1..Len(link'[k].lines) : link'[k].lines[i] # TorqueOff
  <2>1. \A i \in 1..Len(lines) : lines[i] # TorqueOff
    BY DEF Own, lines
  <2>2. line # TorqueOff
    BY DEF TorqueOff
  <2> QED BY <1>2, <2>1, <2>2
<1>4. ASSUME NEW i \in 1..Len(link'[k].lines), LastSpeed(k, i)'
      PROVE  link'[k].lines[i].vel = robot'.wheelCmd
  <2>1. \A j \in i + 1..Len(link'[k].lines) : link'[k].lines[j].vel = NoVel
    BY <1>4 DEF LastSpeed
  <2>2. i \in Nat /\ Len(link'[k].lines) = Len(lines) + 1
        /\ link'[k].lines[Len(lines) + 1].vel # NoVel
    BY <1>2
  <2>3. i = Len(lines) + 1
    BY <1>2, <2>1, <2>2
  <2> QED BY <1>2, <2>3
<1>5. ~NoSpeed(k)'
  BY <1>2 DEF NoSpeed
<1> QED BY <1>3, <1>4, <1>5 DEF Own

(* readCommands turns the last speed under way into the speed of the phone. *)
LEMMA ReadOwn ==
    ASSUME NEW k \in Conns, link \in Links, Own(k), ReadCommand(k)
    PROVE  Own(k)'
<1> DEFINE lines == link[k].lines
<1>1. lines \in Seq(Lines) /\ lines # << >>
  BY DEF Links, ReadCommand
<1>2. link'[k].lines = Tail(lines) /\ robot' = robot
  BY DEF Links, ReadCommand
<1>3. /\ Len(lines) \in Nat \ {0}
      /\ Len(link'[k].lines) = Len(lines) - 1
      /\ \A i \in 1..Len(lines) - 1 : link'[k].lines[i] = lines[i + 1]
      /\ Head(lines) = lines[1]
  BY <1>1, <1>2
<1>4. lines[1] # TorqueOff
  BY <1>3 DEF Own
<1>5. /\ phone'.vel   = IF lines[1].vel = NoVel THEN phone.vel ELSE lines[1].vel
      /\ phone'.velBy = IF lines[1].vel = NoVel THEN phone.velBy ELSE k
  BY <1>3, <1>4 DEF ReadCommand, Overwritten
<1>6. /\ \A i \in 1..Len(lines) : lines[i] # TorqueOff
      /\ \A i \in 1..Len(lines) :
           lines[i].vel # NoVel /\ (\A j \in i + 1..Len(lines) : lines[j].vel = NoVel)
             => lines[i].vel = robot.wheelCmd
      /\ (\A i \in 1..Len(lines) : lines[i].vel = NoVel) /\ phone.velBy = k
           => phone.vel = robot.wheelCmd
  BY DEF Own, LastSpeed, NoSpeed
<1> HIDE DEF lines
<1>7. ASSUME NEW i \in 1..Len(link'[k].lines), LastSpeed(k, i)'
      PROVE  link'[k].lines[i].vel = robot'.wheelCmd
  <2>1. i + 1 \in 1..Len(lines) /\ lines[i + 1].vel # NoVel
    BY <1>3, <1>7 DEF LastSpeed
  <2>2. ASSUME NEW j \in (i + 1) + 1..Len(lines)
        PROVE  lines[j].vel = NoVel
    <3>1. j - 1 \in i + 1..Len(link'[k].lines) /\ j - 1 \in 1..Len(lines) - 1
      BY <1>3, <2>1
    <3>2. link'[k].lines[j - 1] = lines[j]
      BY <1>3, <3>1
    <3> QED BY <1>7, <3>1, <3>2 DEF LastSpeed
  <2> QED BY <1>2, <1>3, <1>6, <2>1, <2>2
<1>8. ASSUME NoSpeed(k)', phone'.velBy = k
      PROVE  phone'.vel = robot'.wheelCmd
  <2>1. \A j \in 2..Len(lines) : lines[j].vel = NoVel
    <3> SUFFICES ASSUME NEW j \in 2..Len(lines)
                 PROVE  lines[j].vel = NoVel
      OBVIOUS
    <3>1. j - 1 \in 1..Len(link'[k].lines) /\ link'[k].lines[j - 1] = lines[j]
      BY <1>3
    <3> QED BY <1>8, <3>1 DEF NoSpeed
  <2>2. CASE lines[1].vel = NoVel
    <3>1. \A j \in 1..Len(lines) : lines[j].vel = NoVel
      BY <2>1, <2>2, <1>3
    <3> QED BY <1>2, <1>5, <1>6, <1>8, <2>2, <3>1
  <2>3. CASE lines[1].vel # NoVel
    BY <1>2, <1>3, <1>5, <1>6, <2>1, <2>3
  <2> QED BY <2>2, <2>3
<1>9. \A i \in 1..Len(link'[k].lines) : link'[k].lines[i] # TorqueOff
  BY <1>3, <1>6
<1> QED BY <1>7, <1>8, <1>9 DEF Own

(* A connection the robot does not write to and the phone does not read     *)
(* keeps its claim as long as _wheel_cmd and the phone's speed stay.        *)
LEMMA KeepOwn ==
    ASSUME NEW k \in Conns, Own(k), link'[k].lines = link[k].lines,
           robot'.wheelCmd = robot.wheelCmd,
           \/ phone'.velBy # k
           \/ phone'.velBy = phone.velBy /\ phone'.vel = phone.vel
    PROVE  Own(k)'
BY DEF Own, LastSpeed, NoSpeed

(* Of the PC's connections the current one never lies about the speed it    *)
(* has left on the phone, whatever broke, died or came late (XLerobot's     *)
(* _wheel_cmd, PhoneHostBus.sendall, ArmHost.readCommands).                 *)
THEOREM OwnSpeedHolds == LinkSpec => []OwnSpeedIsRight
<1> None \notin Conns
  BY LinkAssumption
<1>1. LinkInit => OwnInv
  BY DEF LinkInit, OwnInv
<1>2. LinkType /\ FreshInv /\ OwnInv /\ [LinkNext]_linkVars => OwnInv'
  <2> SUFFICES ASSUME LinkType, FreshInv, OwnInv, [LinkNext]_linkVars,
                      NEW k \in Conns, robot'.conn = k, link'[k].state = "open"
               PROVE  Own(k)'
    BY DEF OwnInv
  <2> USE DEF LinkType
  <2>0. robot.conn = k /\ link[k].state = "open" => Own(k)
    BY DEF OwnInv
  <2>1. CASE SendArm
    <3>1. /\ robot.conn = k /\ robot'.wheelCmd = robot.wheelCmd /\ phone' = phone
          /\ Sent(ArmLine) \/ Raises \/ UNCHANGED link
      BY <2>1 DEF SendArm, LinkTypeOK
    <3>2. /\ link[k].state = "open"
          /\ \/ link'[k].lines = link[k].lines
             \/ link'[k].lines = Append(link[k].lines, ArmLine)
      BY <3>1, LineTypes, SendEffect
    <3>3. ArmLine.vel = NoVel /\ ArmLine # TorqueOff
      BY DEF ArmLine, TorqueOff
    <3> QED BY <2>0, <3>1, <3>2, <3>3, LineTypes, AppendNoSpeed, KeepOwn
  <2>2. CASE SendWheels
    <3>1. robot.conn = k /\ phone' = phone /\ robot.want \in Velocities
      BY <2>2 DEF SendWheels, LinkTypeOK
    <3>2. CASE robot'.wheelCmd = robot.wheelCmd /\ UNCHANGED link
      BY <2>0, <3>1, <3>2, KeepOwn
    <3>3. CASE robot'.wheelCmd = robot.want /\ Sent(VelLine(robot.want))
      <4>1. link[k].state = "open"
        BY <3>1, <3>3, LineTypes, SendEffect
      <4>2. link'[k].lines = Append(link[k].lines, VelLine(robot.want))
        BY <3>1, <3>3, <4>1 DEF Sent, Links
      <4>3. VelLine(robot.want).vel = robot.want /\ robot.want # NoVel
        BY <3>1, SpeedAssumption DEF VelLine, Velocities
      <4> QED BY <2>0, <3>1, <3>3, <4>1, <4>2, <4>3, LineTypes, AppendSpeed
    <3> QED BY <2>2, <3>2, <3>3 DEF SendWheels, Raises, LinkTypeOK
  <2>3. CASE StopBase
    <3>1. robot.conn = k /\ phone' = phone
      BY <2>3 DEF StopBase, LinkTypeOK
    <3>2. CASE robot' = robot /\ UNCHANGED link
      BY <2>0, <3>1, <3>2, KeepOwn
    <3>3. CASE robot'.wheelCmd = Stop /\ Sent(VelLine(Stop))
      <4> Stop \in Velocities
        BY DEF Velocities
      <4>1. link[k].state = "open"
        BY <3>1, <3>3, LineTypes, SendEffect
      <4>2. link'[k].lines = Append(link[k].lines, VelLine(Stop))
        BY <3>1, <3>3, <4>1 DEF Sent, Links
      <4>3. VelLine(Stop).vel = Stop /\ Stop # NoVel
        BY SpeedAssumption DEF VelLine
      <4> QED BY <2>0, <3>1, <3>3, <4>1, <4>2, <4>3, LineTypes, AppendSpeed
    <3> QED BY <2>3, <3>2, <3>3 DEF StopBase, Raises, LinkTypeOK
  <2>4. CASE Disconnect \/ ProcessDies
    <3>1. Disconnect => robot'.conn = None
      BY DEF Disconnect, LinkTypeOK
    <3>2. ProcessDies => robot'.conn = None
      BY DEF ProcessDies, NewRobot
    <3> QED BY <2>4, <3>1, <3>2
  <2>5. CASE PhoneRestarts
    BY <2>5 DEF PhoneRestarts, Links
  <2>6. CASE WatchdogRunsOut
    <3>1. robot' = robot /\ link' = link /\ phone'.vel = phone.vel /\ phone'.velBy = phone.velBy
      BY <2>6 DEF WatchdogRunsOut, LinkTypeOK
    <3> QED BY <2>0, <3>1, KeepOwn
  <2>7. ASSUME NEW j \in Conns, Connect(j)
        PROVE  Own(k)'
    <3>1. j = k /\ phone' = phone
      BY <2>7 DEF Connect, LinkTypeOK
    <3>2. phone.velBy # k /\ link[k].lines = << >>
      BY <2>7, <3>1 DEF Connect, FreshInv
    <3>3. link'[k].lines = << >>
      BY <2>7, <3>1, <3>2 DEF Connect, Links
    <3> QED BY <3>1, <3>2, <3>3 DEF Own
  <2>8. ASSUME NEW j \in Conns, Break(j)
        PROVE  Own(k)'
    <3>1. j # k /\ link'[k] = link[k] /\ robot' = robot /\ phone' = phone
      BY <2>8 DEF Break, Links
    <3> QED BY <2>0, <3>1, KeepOwn
  <2>9. ASSUME NEW j \in Conns, ReadCommand(j)
        PROVE  Own(k)'
    <3>1. robot' = robot /\ link'[k].state = link[k].state
      BY <2>9 DEF ReadCommand, Links
    <3>2. CASE j = k
      BY <2>0, <2>9, <3>1, <3>2, ReadOwn
    <3>3. CASE j # k
      <4>1. link'[k] = link[k]
        BY <2>9, <3>3 DEF ReadCommand, Links
      <4>2. phone'.velBy = j \/ (phone'.velBy = phone.velBy /\ phone'.vel = phone.vel)
        BY <2>9 DEF ReadCommand, Overwritten
      <4> QED BY <2>0, <3>1, <3>3, <4>1, <4>2, KeepOwn
    <3> QED BY <3>2, <3>3
  <2>10. CASE UNCHANGED linkVars
    BY <2>0, <2>10, KeepOwn DEF linkVars, histories
  <2> QED BY <2>1, <2>2, <2>3, <2>4, <2>5, <2>6, <2>7, <2>8, <2>9, <2>10 DEF LinkNext
<1>3. LinkType /\ OwnInv => OwnSpeedIsRight
  <2> SUFFICES ASSUME LinkType, OwnInv, Settled, phone.velBy = robot.conn
               PROVE  phone.vel = robot.wheelCmd
    BY DEF OwnSpeedIsRight
  <2>1. robot.conn \in Conns /\ link[robot.conn].lines = << >>
    BY DEF LinkType, Settled, Connected, InFlight
  <2> QED BY <2>1 DEF OwnInv, Own, NoSpeed, Settled
<1> QED BY <1>1, <1>2, <1>3, LinkTypeHolds, FreshHolds, PTL DEF LinkSpec

-----------------------------------------------------------------------------
(* Every speed under way on connection k, and the speed it has left on the  *)
(* phone, is followed by a stop.                                            *)
Rested(k) ==
    /\ \A i \in DOMAIN link[k].lines :
         link[k].lines[i].vel \in Speeds =>
           \E j \in DOMAIN link[k].lines : j > i /\ link[k].lines[j].vel = Stop
    /\ phone.velBy = k /\ phone.vel # Stop => StopUnderWay(k)

(* This is so for each connection that has not been cut off and that the    *)
(* robot does not drive the wheels by, or no longer.                        *)
Driving(k) == k = robot.conn /\ Connected /\ robot.step # "off"

RestInv ==
    \A k \in Conns : link[k].state = "open" /\ k \notin died /\ ~Driving(k) => Rested(k)

(* Appending lines keeps it, and a stop line makes it so.                   *)
LEMMA AppendRests ==
    ASSUME NEW k \in Conns, link \in Links, UNCHANGED phone, NEW line \in Lines,
           link'[k].lines = Append(link[k].lines, line),
           line.vel = Stop \/ (Rested(k) /\ line.vel = NoVel)
    PROVE  Rested(k)'
<1> DEFINE lines == link[k].lines
<1>1. lines \in Seq(Lines)
  BY DEF Links
<1>2. /\ Len(lines) \in Nat /\ DOMAIN lines = 1..Len(lines)
      /\ DOMAIN link'[k].lines = 1..Len(lines) + 1
      /\ \A i \in 1..Len(lines) : link'[k].lines[i] = lines[i]
      /\ link'[k].lines[Len(lines) + 1] = line
  BY <1>1
<1> HIDE DEF lines
<1>3. NoVel \notin Speeds /\ Stop \notin Speeds
  BY SpeedAssumption
<1>4. CASE line.vel = Stop
  <2>1. StopUnderWay(k)'
    BY <1>2, <1>4 DEF StopUnderWay
  <2>2. ASSUME NEW i \in DOMAIN link'[k].lines, link'[k].lines[i].vel \in Speeds
        PROVE  \E j \in DOMAIN link'[k].lines : j > i /\ link'[k].lines[j].vel = Stop
    BY <1>2, <1>3, <1>4, <2>2
  <2> QED BY <2>1, <2>2 DEF Rested
<1>5. CASE Rested(k) /\ line.vel = NoVel
  <2>1. StopUnderWay(k) => StopUnderWay(k)'
    BY <1>2 DEF StopUnderWay, lines
  <2>2. ASSUME NEW i \in DOMAIN link'[k].lines, link'[k].lines[i].vel \in Speeds
        PROVE  \E j \in DOMAIN link'[k].lines : j > i /\ link'[k].lines[j].vel = Stop
    <3>1. i \in 1..Len(lines) /\ lines[i].vel \in Speeds
      BY <1>2, <1>3, <1>5, <2>2
    <3>2. PICK j \in 1..Len(lines) : j > i /\ lines[j].vel = Stop
      BY <1>2, <1>5, <3>1 DEF Rested, lines
    <3> QED BY <1>2, <3>2
  <2> QED BY <1>5, <2>1, <2>2 DEF Rested
<1> QED BY <1>4, <1>5

(* readCommands moves a speed from the head of the lines to the phone, and  *)
(* a stop after it stays under way.                                         *)
LEMMA ReadRests ==
    ASSUME NEW k \in Conns, link \in Links, Rested(k), ReadCommand(k)
    PROVE  Rested(k)'
<1> DEFINE lines == link[k].lines
<1>1. lines \in Seq(Lines) /\ lines # << >>
  BY DEF Links, ReadCommand
<1>2. link'[k].lines = Tail(lines)
  BY DEF Links, ReadCommand
<1>3. /\ Len(lines) \in Nat \ {0} /\ DOMAIN lines = 1..Len(lines)
      /\ DOMAIN link'[k].lines = 1..Len(lines) - 1
      /\ \A i \in 1..Len(lines) - 1 : link'[k].lines[i] = lines[i + 1]
      /\ Head(lines) = lines[1] /\ lines[1] \in Lines
  BY <1>1, <1>2
<1>4. \/ phone'.vel = Stop
      \/ lines[1].vel = NoVel /\ phone'.vel = phone.vel /\ phone'.velBy = phone.velBy
      \/ lines[1].vel \in Speeds
  BY <1>3 DEF ReadCommand, Overwritten, Lines, VelFields, Velocities
<1>5. Rested(k)
  OBVIOUS
<1> HIDE DEF lines
<1>6. ASSUME NEW i \in 1..Len(lines) - 1, link'[k].lines[i].vel \in Speeds
      PROVE  \E j \in 1..Len(lines) - 1 : j > i /\ link'[k].lines[j].vel = Stop
  <2>1. i + 1 \in 1..Len(lines) /\ lines[i + 1].vel \in Speeds
    BY <1>3, <1>6
  <2>2. PICK j \in 1..Len(lines) : j > i + 1 /\ lines[j].vel = Stop
    BY <1>3, <1>5, <2>1 DEF Rested, lines
  <2>3. j - 1 \in 1..Len(lines) - 1 /\ j - 1 > i /\ link'[k].lines[j - 1] = lines[j]
    <3>1. j - 1 \in 1..Len(lines) - 1 /\ (j - 1) + 1 = j /\ j - 1 > i
      BY <1>3, <2>2
    <3> QED BY <1>3, <3>1
  <2> QED BY <2>2, <2>3
<1>7. ASSUME phone'.velBy = k, phone'.vel # Stop
      PROVE  StopUnderWay(k)'
  <2>1. PICK j \in 2..Len(lines) : lines[j].vel = Stop
    <3>1. CASE lines[1].vel \in Speeds
      <4>1. PICK j \in 1..Len(lines) : j > 1 /\ lines[j].vel = Stop
        BY <1>3, <1>5, <3>1 DEF Rested, lines
      <4> QED BY <4>1, <1>3
    <3>2. CASE lines[1].vel = NoVel /\ phone'.vel = phone.vel /\ phone'.velBy = phone.velBy
      <4>1. PICK j \in 1..Len(lines) : lines[j].vel = Stop
        BY <1>3, <1>5, <1>7, <3>2 DEF Rested, StopUnderWay, lines
      <4>2. j # 1
        BY <3>2, <4>1, SpeedAssumption
      <4> QED BY <4>1, <4>2, <1>3
    <3> QED BY <1>4, <1>7, <3>1, <3>2
  <2>2. j - 1 \in 1..Len(lines) - 1 /\ link'[k].lines[j - 1] = lines[j]
    <3>1. j - 1 \in 1..Len(lines) - 1 /\ (j - 1) + 1 = j
      BY <1>3
    <3> QED BY <1>3, <3>1
  <2> QED BY <1>3, <2>1, <2>2 DEF StopUnderWay
<1> QED BY <1>3, <1>6, <1>7 DEF Rested

LEMMA KeepRests ==
    ASSUME NEW k \in Conns, Rested(k), link'[k].lines = link[k].lines,
           \/ phone'.velBy # k \/ phone'.vel = Stop
           \/ phone'.velBy = phone.velBy /\ phone'.vel = phone.vel
    PROVE  Rested(k)'
BY DEF Rested, StopUnderWay

(* A session that ended as it should leaves wheels that no other            *)
(* connection's line wakes up (XLerobot.disconnect, PhoneHostBus,           *)
(* ArmHost.readCommands).                                                   *)
THEOREM NoRevivalHolds == LinkSpec => []NoRevival
<1> None \notin Conns
  BY LinkAssumption
<1>1. LinkInit => RestInv
  BY DEF LinkInit, RestInv
<1>2. LinkType /\ FreshInv /\ RestInv /\ [LinkNext]_linkVars => RestInv'
  <2> SUFFICES ASSUME LinkType, FreshInv, RestInv, [LinkNext]_linkVars, NEW k \in Conns,
                      link'[k].state = "open", k \notin died', ~Driving(k)'
               PROVE  Rested(k)'
    BY DEF RestInv
  <2> USE DEF LinkType
  <2>0. link[k].state = "open" /\ k \notin died /\ ~Driving(k) => Rested(k)
    BY DEF RestInv
  <2>1. CASE SendArm \/ SendWheels
    <3>1. /\ phone' = phone /\ died' = died /\ robot'.conn = robot.conn /\ robot.conn \in Conns
          /\ Connected /\ robot.step # "off"
      BY <2>1 DEF SendArm, SendWheels, LinkTypeOK, Connected, histories
    <3>2. Connected' /\ robot'.step # "off"
      BY <2>1 DEF SendArm, SendWheels, LinkTypeOK, Connected
    <3>3. k # robot.conn
      BY <3>1, <3>2 DEF Driving
    <3>4. \E line \in Lines : Sent(line) \/ Raises \/ UNCHANGED link
      BY <2>1, LineTypes DEF SendArm, SendWheels, LinkTypeOK, Velocities
    <3>5. link'[k].state = link[k].state /\ link'[k].lines = link[k].lines
      BY <3>1, <3>3, <3>4, SendEffect
    <3> QED BY <2>0, <3>1, <3>3, <3>5, KeepRests DEF Driving
  <2>2. CASE StopBase
    <3>1. phone' = phone /\ died' = died /\ robot'.conn = robot.conn /\ robot.conn \in Conns /\ Connected
      BY <2>2 DEF StopBase, LinkTypeOK, Connected, histories
    <3>2. Stop \in Velocities
      BY DEF Velocities
    <3>3. CASE k # robot.conn
      <4>1. link'[k].state = link[k].state /\ link'[k].lines = link[k].lines
        BY <2>2, <3>1, <3>2, <3>3, LineTypes, SendEffect DEF StopBase
      <4> QED BY <2>0, <3>1, <3>3, <4>1, KeepRests DEF Driving
    <3>4. CASE k = robot.conn
      <4>1. Sent(VelLine(Stop))
        BY <2>2, <3>1, <3>4 DEF StopBase, Raises, Driving, Connected
      <4>2. link[k].state = "open"
        BY <3>1, <3>2, <3>4, <4>1, LineTypes, SendEffect
      <4>3. link'[k].lines = Append(link[k].lines, VelLine(Stop))
        BY <3>4, <4>1, <4>2 DEF Sent, Links
      <4>4. VelLine(Stop).vel = Stop /\ VelLine(Stop) \in Lines
        BY <3>2, LineTypes DEF VelLine
      <4> QED BY <3>1, <4>3, <4>4, AppendRests
    <3> QED BY <3>3, <3>4
  <2>3. CASE Disconnect
    <3>1. /\ phone' = phone /\ died' = died /\ robot.conn \in Conns
          /\ robot.step = "off" /\ (Sent(TorqueOff) \/ UNCHANGED link)
      BY <2>3 DEF Disconnect, Connected, histories
    <3>2. link'[k].state = link[k].state
      BY <3>1, LineTypes, SendEffect
    <3>3. Rested(k)
      BY <2>0, <3>1, <3>2 DEF Driving
    <3>4. link'[k].lines = link[k].lines \/ link'[k].lines = Append(link[k].lines, TorqueOff)
      BY <3>1, LineTypes, SendEffect
    <3>5. TorqueOff.vel = NoVel
      BY DEF TorqueOff
    <3> QED BY <3>1, <3>3, <3>4, <3>5, LineTypes, KeepRests, AppendRests
  <2>4. CASE ProcessDies
    <3>1. UNCHANGED <<link, phone>> /\ k \notin died /\ k # robot.conn
      BY <2>4 DEF ProcessDies
    <3> QED BY <2>0, <3>1, KeepRests DEF Driving
  <2>5. CASE PhoneRestarts
    BY <2>5 DEF PhoneRestarts, Links
  <2>6. CASE WatchdogRunsOut
    <3>1. /\ robot' = robot /\ link' = link /\ died' = died
          /\ phone'.vel = phone.vel /\ phone'.velBy = phone.velBy
      BY <2>6 DEF WatchdogRunsOut, LinkTypeOK, histories
    <3> QED BY <2>0, <3>1, KeepRests DEF Driving, Connected
  <2>7. ASSUME NEW j \in Conns, Connect(j)
        PROVE  Rested(k)'
    <3>1. phone' = phone /\ died' = died /\ ~Connected
      BY <2>7 DEF Connect
    <3>2. CASE j = k
      <4>1. phone.velBy # k /\ link[k].lines = << >>
        BY <2>7, <3>2 DEF Connect, FreshInv
      <4>2. link'[k].lines = << >>
        BY <2>7, <3>2, <4>1 DEF Connect, Links
      <4> QED BY <3>1, <4>1, <4>2 DEF Rested
    <3>3. CASE j # k
      <4>1. link'[k] = link[k]
        BY <2>7, <3>3 DEF Connect, Links
      <4> QED BY <2>0, <3>1, <4>1, KeepRests DEF Driving
    <3> QED BY <3>2, <3>3
  <2>8. ASSUME NEW j \in Conns, Break(j)
        PROVE  Rested(k)'
    <3>1. /\ j # k /\ link'[k] = link[k]
          /\ UNCHANGED <<robot, phone, died>>
      BY <2>8 DEF Break, Links
    <3> QED BY <2>0, <3>1, KeepRests DEF Driving, Connected
  <2>9. ASSUME NEW j \in Conns, ReadCommand(j)
        PROVE  Rested(k)'
    <3>1. robot' = robot /\ died' = died /\ link'[k].state = link[k].state
      BY <2>9 DEF ReadCommand, Links, histories
    <3>2. Rested(k)
      BY <2>0, <3>1 DEF Driving, Connected
    <3>3. CASE j = k
      BY <2>9, <3>2, <3>3, ReadRests
    <3>4. CASE j # k
      <4>1. link'[k] = link[k]
        BY <2>9, <3>4 DEF ReadCommand, Links
      <4>2. phone'.velBy = j \/ (phone'.velBy = phone.velBy /\ phone'.vel = phone.vel)
        BY <2>9 DEF ReadCommand, Overwritten
      <4> QED BY <3>2, <3>4, <4>1, <4>2, KeepRests
    <3> QED BY <3>3, <3>4
  <2>10. CASE UNCHANGED linkVars
    BY <2>0, <2>10, KeepRests DEF linkVars, histories, Driving, Connected
  <2> QED BY <2>1, <2>2, <2>3, <2>4, <2>5, <2>6, <2>7, <2>8, <2>9, <2>10 DEF LinkNext
<1>3. LinkType /\ FreshInv /\ RestInv => NoRevival
  <2> SUFFICES ASSUME LinkType, FreshInv, RestInv, NEW k \in Conns,
                      WheelSpeed # Stop, phone.velBy = k, k # robot.conn,
                      link[k].state # "broken", k \notin died
               PROVE  StopUnderWay(k)
    BY DEF NoRevival
  <2>1. phone.vel # Stop
    BY DEF WheelSpeed
  <2>2. link[k].state = "open"
    BY DEF LinkType, Links, FreshInv
  <2> QED BY <2>1, <2>2 DEF RestInv, Rested, Driving
<1> QED BY <1>1, <1>2, <1>3, LinkTypeHolds, FreshHolds, PTL DEF LinkSpec
=============================================================================
