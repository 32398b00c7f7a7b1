------------------------------ MODULE PhoneLink ------------------------------
(***************************************************************************)
(* The command path from the PC to the phone: XLerobot's actions and its   *)
(* memory of the wheel speed (xlerobot.py), the command socket of          *)
(* PhoneHostBus (phone_host.py), and what the phone's reader threads make  *)
(* of the lines (ArmHost.kt; step by step in ArmLoop).  The PC only sends  *)
(* a wheel speed that differs from the last one it sent.                   *)
(***************************************************************************)
EXTENDS WheelCommands, Naturals, Sequences

CONSTANTS
    None,       \* no connection, no wheel speed sent yet
    MaxLines    \* lines under way on one connection

ASSUME LinkAssumption ==
    /\ None \notin Conns \cup Velocities
    /\ MaxLines \in Nat \ {0}

VARIABLES
    robot,      \* bus, cams: connected; conn; wheelCmd = _wheel_cmd; where in an
                \* action or a disconnect, and the speed of that action
    link,       \* of each connection: its state and the lines under way
    phone,      \* latestVel; fresh: the watchdog has not run out; and which
                \* connections' lines these two come from
    died,       \* history: connections of PC processes that died
    past        \* history, what has happened: "break" of a connection, "late":
                \* connected before all lines had arrived

histories == <<died, past>>
linkVars == <<robot, link, phone, histories>>

Lines == [torque : {1}, vel : VelFields] \cup [torque : {0}, vel : {NoVel}]

ArmLine      == [torque |-> 1, vel |-> NoVel]
VelLine(v)   == [torque |-> 1, vel |-> v]
TorqueOff    == [torque |-> 0, vel |-> NoVel]

NewRobot  == [bus |-> FALSE, cams |-> FALSE, conn |-> None, wheelCmd |-> None,
              step |-> "idle", want |-> Stop]
NewPhone  == [vel |-> Stop, fresh |-> FALSE, velBy |-> None, freshBy |-> None]

LinkInit ==
    /\ robot = NewRobot
    /\ link = [k \in Conns |-> [state |-> "new", lines |-> << >>]]
    /\ phone = NewPhone
    /\ died = {} /\ past = {}

Connected  == robot.bus /\ robot.cams
InFlight   == \E k \in Conns : link[k].lines # << >>
Room       == robot.conn = None \/ Len(link[robot.conn].lines) < MaxLines

(* sendall on the command socket: a line sent after the connection broke is *)
(* lost, unless the break has been noticed, which raises OSError.           *)
Sent(line) ==
    IF link[robot.conn].state = "open"
    THEN link' = [link EXCEPT ![robot.conn].lines = Append(@, line)]
    ELSE UNCHANGED link
Raises == link[robot.conn].state = "broken" /\ UNCHANGED link

-----------------------------------------------------------------------------
(* Faulty variants of actions below.                                        *)

\* _wheel_cmd is set before it is compared
SendArm_RemembersFirst ==
    /\ Connected /\ robot.step = "idle" /\ Room
    /\ Sent(ArmLine) \/ UNCHANGED link
    /\ \E v \in Velocities : robot' = [robot EXCEPT !.step = "wheels", !.want = v, !.wheelCmd = v]
    /\ UNCHANGED <<phone, histories>>

\* a line without "vel" stored as it is
ReadCommand_StoresMissing(k) ==
    /\ link[k].lines # << >>
    /\ phone' = [vel |-> Head(link[k].lines).vel, fresh |-> TRUE, velBy |-> k, freshBy |-> k]
    /\ link' = [link EXCEPT ![k].lines = Tail(@)]
    /\ UNCHANGED <<robot, histories>>

\* a speed of zero taken for a missing one
ReadCommand_DropsZero(k) ==
    /\ link[k].lines # << >>
    /\ phone' = IF Head(link[k].lines).vel \in Speeds
                THEN [vel |-> Head(link[k].lines).vel, fresh |-> TRUE, velBy |-> k, freshBy |-> k]
                ELSE [phone EXCEPT !.fresh = TRUE, !.freshBy = k]
    /\ link' = [link EXCEPT ![k].lines = Tail(@)]
    /\ UNCHANGED <<robot, histories>>

-----------------------------------------------------------------------------
(* The PC                                                                   *)

(* bus.connect, then the cameras; when one of them fails the bus stays      *)
(* connected and connect may be called again.                               *)
Connect(k) ==
    /\ ~Connected /\ link[k].state = "new"
    /\ link' = [link EXCEPT ![k].state = "open"]
    /\ \E cams \in BOOLEAN :
         robot' = [robot EXCEPT !.bus = TRUE, !.cams = cams, !.conn = k]
    /\ past' = IF InFlight THEN past \cup {"late"} ELSE past
    /\ UNCHANGED <<phone, died>>

(* send_action: a goal for the arm, if the action has one, then the wheels; *)
(* base keys that are missing mean Stop.                                    *)
SendArm ==
    /\ Connected /\ robot.step = "idle" /\ Room
    /\ \E v \in Velocities :
         \/ /\ Sent(ArmLine) \/ UNCHANGED link
            /\ robot' = [robot EXCEPT !.step = "wheels", !.want = v]
         \/ Raises /\ UNCHANGED robot
    /\ UNCHANGED <<phone, histories>>

SendWheels ==
    /\ robot.step = "wheels" /\ Room
    /\ \/ /\ robot.want = robot.wheelCmd
          /\ robot' = [robot EXCEPT !.step = "idle", !.want = Stop]
          /\ UNCHANGED link
       \/ /\ robot.want # robot.wheelCmd
          /\ Sent(VelLine(robot.want))
          /\ robot' = [robot EXCEPT !.step = "idle", !.want = Stop,
                                !.wheelCmd = robot.want]
       \/ /\ robot.want # robot.wheelCmd
          /\ Raises
          /\ robot' = [robot EXCEPT !.step = "idle", !.want = Stop]
    /\ UNCHANGED <<phone, histories>>

(* disconnect: stop_base, whose exception ends it, then the bus, which      *)
(* sends a torque-off unless the robot is to keep its torque.               *)
StopBase ==
    /\ Connected /\ robot.step = "idle" /\ Room
    /\ \/ /\ Sent(VelLine(Stop))
          /\ robot' = [robot EXCEPT !.step = "off", !.wheelCmd = Stop]
       \/ Raises /\ UNCHANGED robot
    /\ UNCHANGED <<phone, histories>>

Disconnect ==
    /\ robot.step = "off" /\ Room
    /\ Sent(TorqueOff) \/ UNCHANGED link
    /\ robot' = [robot EXCEPT !.step = "idle", !.bus = FALSE, !.cams = FALSE, !.conn = None]
    /\ UNCHANGED <<phone, histories>>

ProcessDies ==
    /\ robot' = NewRobot
    /\ died' = died \cup {k \in Conns : k = robot.conn}
    /\ UNCHANGED <<link, phone, past>>

-----------------------------------------------------------------------------
(* The network and the phone                                                *)

Break(k) ==
    /\ link[k].state = "open"
    /\ \E n \in 0..Len(link[k].lines) :
         link' = [link EXCEPT ![k] = [state |-> "broken", lines |-> SubSeq(@.lines, 1, n)]]
    /\ past' = past \cup {"break"}
    /\ UNCHANGED <<robot, phone, died>>

PhoneRestarts ==
    /\ phone' = NewPhone
    /\ link' = [k \in Conns |-> IF link[k].state = "new" THEN link[k]
                                ELSE [state |-> "broken", lines |-> << >>]]
    /\ UNCHANGED <<robot, histories>>

(* readCommands handles one line of connection k.                           *)
ReadCommand(k) ==
    /\ link[k].lines # << >>
    /\ LET line == Head(link[k].lines) IN
       phone' = IF line = TorqueOff
                THEN [vel |-> Stop, fresh |-> FALSE, velBy |-> k, freshBy |-> k]
                ELSE [fresh |-> TRUE, freshBy |-> k,
                      vel   |-> Overwritten(phone.vel, line.vel),
                      velBy |-> IF line.vel = NoVel THEN phone.velBy ELSE k]
    /\ link' = [link EXCEPT ![k].lines = Tail(@)]
    /\ UNCHANGED <<robot, histories>>

WatchdogRunsOut ==
    /\ phone.fresh
    /\ phone' = [phone EXCEPT !.fresh = FALSE]
    /\ UNCHANGED <<robot, link, histories>>

LinkNext ==
    \/ SendArm \/ SendWheels \/ StopBase \/ Disconnect \/ ProcessDies
    \/ PhoneRestarts \/ WatchdogRunsOut
    \/ \E k \in Conns : Connect(k) \/ Break(k) \/ ReadCommand(k)

LinkFairness == \A k \in Conns : WF_linkVars(ReadCommand(k))

LinkSpec == LinkInit /\ [][LinkNext]_linkVars /\ LinkFairness

-----------------------------------------------------------------------------
LinkTypeOK ==
    /\ robot \in [bus : BOOLEAN, cams : BOOLEAN, conn : Conns \cup {None},
                  wheelCmd : Velocities \cup {None}, step : {"idle", "wheels", "off"},
                  want : Velocities]
    /\ \A k \in Conns : /\ link[k].state \in {"new", "open", "broken"}
                        /\ link[k].lines \in Seq(Lines)
    /\ phone \in [vel : Velocities, fresh : BOOLEAN,
                  velBy : Conns \cup {None}, freshBy : Conns \cup {None}]
    /\ died \subseteq Conns /\ past \subseteq {"break", "late"}

(* What the loop writes to the wheels (ArmHost.kt:227-234).                 *)
WheelSpeed == IF phone.fresh THEN phone.vel ELSE Stop

(* An idle robot with a working connection and nothing under way.           *)
Settled ==
    /\ Connected /\ robot.step = "idle"
    /\ link[robot.conn].state = "open" /\ ~InFlight

(* Nothing was lost and nothing came late; processes may have died.         *)
Reliable == past = {}

(* Whatever breaks, dies or arrives late: a wrong speed on the phone is one *)
(* that another connection left there, never one of this connection.        *)
OwnSpeedIsRight == Settled /\ phone.velBy = robot.conn => phone.vel = robot.wheelCmd

StopUnderWay(k) == \E i \in DOMAIN link[k].lines : link[k].lines[i].vel = Stop

(* Turning wheels have their speed from the robot's own connection, from    *)
(* one whose stop is still under way, or from one that was cut off: it      *)
(* broke, or its process died.  Such a speed any other connection's line    *)
(* wakes up, even one that only moves the arm; the speed of a connection    *)
(* that was ended by disconnect no line of another one ever does, with or   *)
(* without a torque-off, whatever happens elsewhere.                        *)
NoRevival ==
    \A k \in Conns :
      WheelSpeed # Stop /\ phone.velBy = k =>
        k = robot.conn \/ StopUnderWay(k) \/ link[k].state = "broken" \/ k \in died

(* xlerobot.py:317, "Missing base keys (arm-only teleop) mean stop the      *)
(* wheels": once the phone has had such an action they do not turn.         *)
StopMeansStop ==
    Settled /\ robot.wheelCmd = Stop /\ phone.freshBy = robot.conn => WheelSpeed = Stop

(* A speed the PC has sent reaches the phone, unless another one follows or *)
(* the connection ends.                                                     *)
SpeedArrives ==
    \A v \in Velocities, k \in Conns :
      (robot.conn = k /\ robot.wheelCmd = v /\ robot.step = "idle")
        ~> \/ phone.vel = v \/ robot.conn # k \/ robot.wheelCmd # v
           \/ link[k].state = "broken" \/ ~Reliable
=============================================================================
