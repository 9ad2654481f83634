----------------------------- MODULE DriveChain -----------------------------
(***************************************************************************)
(* From /drive/cmd_vel to the wheels: heading_hold_node.cpp, which corrects *)
(* a velocity so that the robot keeps its heading, and                     *)
(* mecanum_controller_node.cpp, which makes wheel speeds of it and heeds   *)
(* the emergency stop.                                                     *)
(* A velocity is "ZERO", "MOVE" (translation), "TURN" (with a rotation     *)
(* beyond the dead band) or "HELD" (with the correction).  A yaw is the    *)
(* reference frame it is measured in: an IMU that starts over has another. *)
(* Gains, limits and kinematics are left out; time is counted in Ticks.    *)
(***************************************************************************)
EXTENDS Naturals

CONSTANTS
  CommandTimeout, ImuTimeout, SettleTime, \* in Ticks
  MaxRestarts                             \* bound on restarts of the IMU

ASSUME DriveAssumption ==
  {CommandTimeout, ImuTimeout, SettleTime, MaxRestarts} \subseteq Nat

VARIABLES
  imu,     \* the IMU: whether it runs, and its frame
  hold,    \* the heading hold node
  heading, \* /mecanum/cmd_vel_heading: {} or {the latest, not yet received}
  stop,    \* /system/emergency_stop
  wheels   \* the mecanum controller and the wheel speeds it has published

driveVars == <<imu, hold, heading, stop, wheels>>

Commands == {"ZERO", "MOVE", "TURN"}
Velocities == Commands \cup {"HELD"}

\* Ages run to one more than the timeout; frame is that of current_yaw_rad_.
Holds == [enabled : BOOLEAN, cmd : Commands, cmdAge : Nat,
          seen : BOOLEAN, frame : Nat, imuAge : Nat, still : BOOLEAN,
          mode : {"HOLDING", "MANUAL_ROTATION", "SETTLING"},
          target : SUBSET Nat, stable : Nat]

DriveTypeOK ==
  /\ imu \in [runs : BOOLEAN, frame : Nat]
  /\ hold \in Holds
  /\ heading \in SUBSET Velocities
  /\ stop \in BOOLEAN
  /\ wheels \in [stop : BOOLEAN, last : Velocities, speeds : Velocities]

DriveInit ==
  /\ imu = [runs |-> TRUE, frame |-> 0]
  /\ hold = [enabled |-> TRUE, cmd |-> "ZERO", cmdAge |-> CommandTimeout + 1,
             seen |-> FALSE, frame |-> 0, imuAge |-> 0, still |-> TRUE,
             mode |-> "HOLDING", target |-> {}, stable |-> 0]
  /\ heading = {} /\ stop = TRUE
  /\ wheels = [stop |-> FALSE, last |-> "ZERO", speeds |-> "ZERO"]
-----------------------------------------------------------------------------
CommandFresh == hold.cmdAge <= CommandTimeout
ImuFresh == hold.seen /\ hold.imuAge <= ImuTimeout

\* reset_heading_hold_state
Reset(h) == [h EXCEPT !.target = {}, !.mode = "HOLDING", !.stable = 0]

\* receive_command
ReceiveCommand ==
  /\ \E c \in Commands : hold' = [hold EXCEPT !.cmd = c, !.cmdAge = 0]
  /\ UNCHANGED <<imu, heading, stop, wheels>>

\* Mutant: an outage that the control timer has not seen is forgotten.
Kept(h) == h

\* receive_imu: after an outage the yaw may have another reference.
Rebased(h) == IF h.seen /\ h.imuAge > ImuTimeout THEN Reset(h) ELSE h

ReceiveImu ==
  /\ imu.runs
  /\ \E s \in BOOLEAN :
       hold' = [Rebased(hold) EXCEPT !.seen = TRUE, !.imuAge = 0,
                  !.frame = imu.frame, !.still = s]
  /\ UNCHANGED <<imu, heading, stop, wheels>>

\* set_heading_hold_enabled: the latest command is passed on at once,
\* however old it is.
SetEnabled ==
  /\ hold' = [Reset(hold) EXCEPT !.enabled = ~@]
  /\ heading' = IF hold.enabled THEN {hold.cmd} ELSE heading
  /\ UNCHANGED <<imu, stop, wheels>>
-----------------------------------------------------------------------------
\* control and select_output_command
Publish(h, velocity) == hold' = h /\ heading' = {velocity}

\* Mutant: what was commanded last goes on.
ControlOn ==
  ~CommandFresh /\ Publish(Reset(hold), hold.cmd)

\* No command for too long.
ControlSilence ==
  ~CommandFresh /\ Publish(Reset(hold), "ZERO")

\* Heading hold is off.
ControlPassed ==
  CommandFresh /\ ~hold.enabled /\ Publish(hold, hold.cmd)

\* No IMU.
ControlBlind ==
  CommandFresh /\ hold.enabled /\ ~ImuFresh /\ Publish(Reset(hold), hold.cmd)

Holding == CommandFresh /\ hold.enabled /\ ImuFresh

\* The operator turns the robot.
ControlTurn ==
  /\ Holding /\ hold.cmd = "TURN"
  /\ Publish([hold EXCEPT !.target = {hold.frame},
                          !.mode = "MANUAL_ROTATION"], "TURN")

\* Mutant: every period starts the time at rest anew.
StableAgain == 0

\* settle_velocity_is_stable_ and the time since settle_stable_since_, plus 1;
\* a turn that ends starts over.
Stable == IF hold.mode = "MANUAL_ROTATION" THEN 0 ELSE hold.stable

Settled == hold.still /\ Stable > SettleTime

\* After the turn the robot comes to rest first.
ControlSettle ==
  /\ Holding /\ hold.cmd # "TURN" /\ hold.mode # "HOLDING" /\ ~Settled
  /\ Publish([hold EXCEPT !.target = {hold.frame}, !.mode = "SETTLING",
                !.stable = IF ~hold.still THEN 0
                           ELSE IF Stable = 0 THEN 1 ELSE Stable], hold.cmd)

\* Then the heading is held, from the moment it is known.
ControlHold ==
  /\ Holding /\ hold.cmd # "TURN" /\ (hold.mode = "HOLDING" \/ Settled)
  /\ IF hold.target = {}
     THEN Publish([hold EXCEPT !.target = {hold.frame}], hold.cmd)
     ELSE Publish([hold EXCEPT
            !.target = IF hold.mode = "HOLDING" THEN @ ELSE {hold.frame},
            !.stable = IF hold.mode = "HOLDING" THEN @ ELSE 0,
            !.mode = "HOLDING"], "HELD")

Control ==
  /\ \/ ControlSilence \/ ControlPassed \/ ControlBlind
     \/ ControlTurn \/ ControlSettle \/ ControlHold
  /\ UNCHANGED <<imu, stop, wheels>>
-----------------------------------------------------------------------------
\* publish_wheel_commands
Wheels(w) == [w EXCEPT !.speeds = IF w.stop THEN "ZERO" ELSE w.last]

\* cmd_vel_callback of the mecanum controller
ReceiveHeading ==
  /\ \E v \in heading : wheels' = Wheels([wheels EXCEPT !.last = v])
  /\ heading' = {}
  /\ UNCHANGED <<imu, hold, stop>>

\* emergency_stop_callback of the mecanum controller; emergency_stop_timer_
\* repeats what it published.
ReceiveStop ==
  /\ wheels.stop # stop
  /\ wheels' = Wheels([wheels EXCEPT !.stop = stop])
  /\ UNCHANGED <<imu, hold, heading, stop>>

\* The joystick node's emergency stop.
ToggleStop == stop' = ~stop /\ UNCHANGED <<imu, hold, heading, wheels>>

\* The IMU fails; it takes longer than the timeout to start over.
ImuFails ==
  /\ imu.runs /\ imu' = [imu EXCEPT !.runs = FALSE]
  /\ UNCHANGED <<hold, heading, stop, wheels>>

ImuRestarts ==
  /\ ~imu.runs /\ hold.imuAge > ImuTimeout /\ imu.frame < MaxRestarts
  /\ imu' = [runs |-> TRUE, frame |-> imu.frame + 1]
  /\ UNCHANGED <<hold, heading, stop, wheels>>

\* Time passes.
UpTo(limit, n) == IF n <= limit THEN n + 1 ELSE n

Tick ==
  /\ hold' = [hold EXCEPT
       !.cmdAge = UpTo(CommandTimeout, @), !.imuAge = UpTo(ImuTimeout, @),
       !.stable = IF @ = 0 THEN 0 ELSE UpTo(SettleTime, @)]
  /\ UNCHANGED <<imu, heading, stop, wheels>>

DriveNext ==
  \/ ReceiveCommand \/ ReceiveImu \/ SetEnabled \/ Control
  \/ ReceiveHeading \/ ReceiveStop \/ ToggleStop
  \/ ImuFails \/ ImuRestarts \/ Tick

DriveSpec == DriveInit /\ [][DriveNext]_driveVars

\* Timers fire, time passes and messages arrive.
FairDriveSpec ==
  DriveSpec /\ WF_driveVars(Control) /\ WF_driveVars(Tick)
       /\ WF_driveVars(ReceiveHeading) /\ WF_driveVars(ReceiveStop)
-----------------------------------------------------------------------------
\* The heading that is held was measured in the frame of the yaw it is
\* compared with, even if the IMU started over between two control periods.
\* (receive_imu)
NoOldFrame == hold.target \subseteq {hold.frame}

\* When commands stay away the wheels stop and stay so, whether the heading
\* is held or not.  (command_timeout_ms; the last message may have been a
\* turn of an aiming node)
SilenceStops ==
  /\ <>[]~CommandFresh
  /\ <>[]hold.enabled \/ <>[]~hold.enabled
  => <>[](wheels.speeds = "ZERO")

\* The heading is held again after any turn, disturbance or outage, once the
\* robot is at rest, commands and the IMU arrive and no turn is asked for.
\* (rotation_state_, settle_stable_since_)
HoldResumes ==
  <>[](Holding /\ hold.cmd # "TURN" /\ hold.still)
    => <>[](wheels.last = "HELD")

\* During an emergency stop that the mecanum controller knows of the wheels
\* stand, whatever else arrives.  (publish_wheel_commands)
StopHolds == wheels.stop => wheels.speeds = "ZERO"
=============================================================================
