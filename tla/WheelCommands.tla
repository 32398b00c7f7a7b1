---- MODULE WheelCommands ----
(* What a line to port 9101 may say to the wheels, and what the phone makes *)
(* of it.  The PC's end of the connections (phone_host.py) is PhoneLink,    *)
(* the phone's end (ArmHost.kt) is ArmLoop; both extend this module.        *)

CONSTANTS
    Conns,      \* command connections, each made once and read by one thread
    Speeds,     \* pairs of wheel velocities that are not both zero
    Stop,       \* latestVel = (0, 0)
    NoVel       \* in place of the "vel" of a line that has none, or a short one

ASSUME SpeedAssumption == Stop \notin Speeds /\ NoVel \notin Speeds \cup {Stop}

(* What latestVel holds.                                                    *)
Velocities == Speeds \cup {Stop}

(* What a line has for it.                                                  *)
VelFields == Velocities \cup {NoVel}

(* readCommands overwrites latestVel with the velocities a line has.        *)
Overwritten(latest, vel) == IF vel = NoVel THEN latest ELSE vel
====
