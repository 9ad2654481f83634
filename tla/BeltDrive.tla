------------------------------ MODULE BeltDrive ------------------------------
(***************************************************************************)
(* The belt controller, the VESC driver node (vesc_node.cpp) and the motor *)
(* of one belt.                                                            *)
(*                                                                         *)
(* The driver gets targets on the array topic and sends a frame to the     *)
(* VESC in every period of its command timer: a current to start, a speed  *)
(* once the motor turns.  Between two periods the motor turns by at most   *)
(* one unit of speed and its status frame arrives; none is lost.           *)
(***************************************************************************)
EXTENDS BeltController

CONSTANTS
  MaxRpm,     \* max_rpm
  Slew,       \* rpm_slew_rate, per period
  Threshold,  \* rpm_control_threshold_rpm
  FreeSpeed   \* speed that the startup current takes an unloaded motor to

ASSUME DriveAssumption == {MaxRpm, Slew, Threshold, FreeSpeed} \subseteq Nat

VARIABLES
  vesc,   \* the driver's Motor record
  wire,   \* what the VESC was last told to do
  speed,  \* the speed of the motor
  phase   \* what comes next: the driver's period, the turning, the status

vars == <<stop, belt, driverUp, queue, vesc, wire, speed, phase>>

Vescs == [target : Int, command : Int, active : BOOLEAN, received : BOOLEAN,
          measured : SUBSET Int]
Frames == [mode : {"CURRENT", "RPM"}, value : Int]

TypeOK ==
  /\ stop \in BOOLEAN /\ driverUp \in BOOLEAN /\ belt \in Belts
  /\ queue \in Seq(Nat) /\ Len(queue) <= MaxQueue
  /\ vesc \in Vescs /\ wire \in Frames /\ speed \in 0..FreeSpeed
  /\ phase \in {"PERIOD", "TURN", "STATUS"}

\* Nothing requested, nothing heard of the motor.
NewVesc == [target |-> 0, command |-> 0, active |-> FALSE,
            received |-> FALSE, measured |-> {}]
Idle == [mode |-> "CURRENT", value |-> 0]

Init ==
  /\ BeltInit /\ driverUp = TRUE
  /\ vesc = NewVesc /\ wire = Idle /\ speed = 0 /\ phase = "PERIOD"
-----------------------------------------------------------------------------
(***************************************************************************)
(* The driver.                                                             *)
(***************************************************************************)
\* target_array_callback and set_target: stopping, starting and reversing end
\* speed control.
ReceiveTarget ==
  /\ driverUp /\ queue # <<>>
  /\ LET goal == Within(Head(queue), -MaxRpm, MaxRpm) IN
     vesc' = [vesc EXCEPT !.target = goal, !.received = TRUE,
                !.active = @ /\ goal # 0 /\ vesc.target * goal > 0]
  /\ queue' = Tail(queue)
  /\ UNCHANGED <<stop, belt, driverUp, wire, speed, phase>>

Magnitude(x) == IF x < 0 THEN -x ELSE x

\* Speed control begins at the threshold, or at the target if that is lower,
\* once the motor turns the right way.
StartReached(v) ==
  \E rpm \in v.measured :
    /\ v.target * rpm > 0
    /\ Magnitude(rpm) >= Within(Magnitude(v.target), 0, Threshold)

Engaged(v) ==
  IF v.active \/ ~(Threshold = 0 \/ StartReached(v)) THEN v
  ELSE [v EXCEPT !.active = TRUE,
         !.command = IF Threshold = 0 THEN 0 ELSE CHOOSE rpm \in v.measured : TRUE]

\* Mutant: the ramp does not end at the target.
RampedPast(v) == [v EXCEPT !.command = IF v.active THEN @ + Slew ELSE @]

Ramped(v) ==
  [v EXCEPT !.command =
     IF v.active THEN @ + Within(v.target - @, -Slew, Slew) ELSE @]

\* The frame that follows: a speed, or the startup current in the target's
\* direction.
FrameOf(v) ==
  IF v.active THEN [mode |-> "RPM", value |-> v.command]
  ELSE [mode |-> "CURRENT", value |-> IF v.target > 0 THEN 1 ELSE -1]

\* Mutant: nothing is sent for a target of zero.
PublishMotorCommandSilent ==
  IF ~vesc.received \/ vesc.target = 0 THEN UNCHANGED <<vesc, wire>>
  ELSE /\ vesc' = Ramped(Engaged(vesc))
       /\ wire' = FrameOf(vesc')

\* publish_motor_command
PublishMotorCommand ==
  IF ~vesc.received THEN UNCHANGED <<vesc, wire>>
  ELSE IF vesc.target = 0
  THEN /\ vesc' = [vesc EXCEPT !.active = FALSE, !.command = 0]
       /\ wire' = Idle
  ELSE /\ vesc' = Ramped(Engaged(vesc))
       /\ wire' = FrameOf(vesc')

\* command_timer_callback
Period ==
  /\ driverUp /\ phase = "PERIOD" /\ phase' = "TURN"
  /\ PublishMotorCommand
  /\ UNCHANGED <<stop, belt, driverUp, queue, speed>>

\* can_callback
Status ==
  /\ driverUp /\ phase = "STATUS" /\ phase' = "PERIOD"
  /\ vesc' = [vesc EXCEPT !.measured = {speed}]
  /\ UNCHANGED <<stop, belt, driverUp, queue, wire, speed>>
-----------------------------------------------------------------------------
(***************************************************************************)
(* The motor, and the end and start of the driver (external).              *)
(***************************************************************************)
\* A speed is approached, a current accelerates, no current lets it run out.
MotorTurns ==
  /\ phase = "TURN" \/ ~driverUp
  /\ phase' = "STATUS"
  /\ LET goal == IF wire.mode = "RPM" \/ wire.value = 0 THEN wire.value
                 ELSE wire.value * FreeSpeed IN
     speed' = Within(speed + Within(goal - speed, -1, 1), 0, FreeSpeed)
  /\ UNCHANGED <<stop, belt, driverUp, queue, vesc, wire>>

\* The destructor sends zero current; after a crash the VESC's own timeout ends
\* the last frame.  What the motor does before that is not modelled.  A start
\* takes longer than a period.
DriverEnds ==
  /\ driverUp /\ driverUp' = FALSE /\ queue' = <<>> /\ wire' = Idle
  /\ phase' = "TURN"
  /\ UNCHANGED <<stop, belt, vesc, speed>>

DriverStarts ==
  /\ ~driverUp /\ driverUp' = TRUE /\ phase = "STATUS"
  /\ vesc' = NewVesc /\ phase' = "PERIOD"
  /\ UNCHANGED <<stop, belt, queue, wire, speed>>

DriveUnchanged == UNCHANGED <<vesc, wire, speed, phase>>
ControllerNext ==
  (BeltNext \/ Switch \/ NodeDies \/ NodeStarts) /\ DriveUnchanged
DriverNext == ReceiveTarget \/ Period \/ Status
Next == ControllerNext \/ DriverNext \/ MotorTurns \/ DriverEnds \/ DriverStarts

Spec == Init /\ [][Next]_vars
FairSpec ==
  /\ Spec
  /\ WF_vars(StopArrives /\ DriveUnchanged) /\ WF_vars(Refresh /\ DriveUnchanged)
  /\ WF_vars(ReceiveTarget) /\ WF_vars(Period) /\ WF_vars(Status)
  /\ WF_vars(MotorTurns)
-----------------------------------------------------------------------------
(***************************************************************************)
(* Properties.                                                             *)
(***************************************************************************)
Steady == belt.alive /\ driverUp

\* When the controller knows of the emergency stop and the driver has received
\* what was sent, the driver's target is zero: no request, parameter, timer or
\* restart in between brings a speed back.
StopIsHeeded == Steady /\ belt.stop /\ queue = <<>> => vesc.target = 0

\* The startup current never takes the belt past the highest speed a target may
\* have, also when a driver that was restarted has not heard yet that the
\* motor turns.
NoOverspeed == speed <= MaxRpm

\* An emergency stop that lasts brings the belt to rest, from any state, also
\* when either node was restarted during it.
StopEndsRotation ==
  <>[](stop /\ Steady) => <>[](speed = 0)

\* The belt gets to the speed that the controller wants in the end, also when
\* it is below the threshold, and also after a restart of the driver.
Settles ==
  \A rpm \in 0..MaxRpm :
    <>[](Steady /\ Wanted(belt) = rpm /\ belt.stop = stop) => <>[](speed = rpm)

\* Belts whose controller is gone stop.
CommandsTimeOut == <>[](~belt.alive /\ driverUp) => <>[](speed = 0)
=============================================================================
