---------------------------- MODULE BeltController ----------------------------
(***************************************************************************)
(* The belt controller node, belt_controller.cpp, for one of its two belts *)
(* (the other gets the same requests and has its own speed per level).     *)
(* Each callback ends with publish_command, which sends the wanted speed;  *)
(* only a rejected set of parameters does not.                             *)
(* The VESC driver's subscription is a queue of the latest messages, the   *)
(* emergency stop a latched topic.  Speeds are integers.  /belt/status is  *)
(* an output nothing here reads.                                           *)
(***************************************************************************)
EXTENDS Integers, Sequences

CONSTANTS
  Levels,      \* num_levels
  LevelRpms,   \* values of the parameters *belt_level_n_rpm
  MaxSteps,    \* kMaxRpmOffsetSteps
  RpmPerStep,  \* belt_rpm_offset_per_step
  Modes,       \* modes requested on /belt/command_mode
  StepRequests,\* rpm_offset_step of these requests
  DirectRpms,  \* speeds requested on /belt/command_rpm, zero included
  MaxQueue     \* bound on the messages the driver has not yet received

ASSUME BeltAssumption ==
  /\ {Levels, MaxSteps, RpmPerStep} \subseteq Nat /\ MaxQueue \in Nat \ {0}
  /\ LevelRpms \subseteq Nat /\ LevelRpms # {} /\ DirectRpms \subseteq Nat
  /\ Modes \subseteq Nat /\ StepRequests \subseteq Int

VARIABLES
  stop,     \* /system/emergency_stop, as last published
  belt,     \* the node's state
  driverUp, \* whether the driver's node runs, and so has a subscription
  queue     \* /vesc/target_array: published, not yet received

Belts == [alive : BOOLEAN, stop : BOOLEAN, mode : 0..Levels,
          useDirect : BOOLEAN, direct : Nat, steps : (-MaxSteps)..MaxSteps,
          rpms : [1..Levels -> Nat]]

\* The node as its constructor leaves it: it knows of no emergency stop.
Fresh(rpms) ==
  [alive |-> TRUE, stop |-> FALSE, mode |-> 0, useDirect |-> FALSE,
   direct |-> 0, steps |-> 0, rpms |-> rpms]

BeltInit ==
  /\ stop \in BOOLEAN /\ queue = <<>>
  /\ \E rpms \in [1..Levels -> LevelRpms] : belt = Fresh(rpms)

Within(x, low, high) == IF x < low THEN low ELSE IF x > high THEN high ELSE x

\* Mutant: a direct speed overrides the emergency stop.
WantedDirectFirst(b) ==
  IF b.useDirect THEN b.direct
  ELSE IF b.stop \/ b.mode = 0 THEN 0
  ELSE LET rpm == b.rpms[b.mode] + b.steps * RpmPerStep IN
       IF rpm < 0 THEN 0 ELSE rpm

\* publish_command: nothing during an emergency stop; a direct speed comes
\* before the level, whose speed the offset never takes below zero.
Wanted(b) ==
  IF b.stop THEN 0
  ELSE IF b.useDirect THEN b.direct
  ELSE IF b.mode = 0 THEN 0
  ELSE LET rpm == b.rpms[b.mode] + b.steps * RpmPerStep IN
       IF rpm < 0 THEN 0 ELSE rpm

\* The newest messages stay; without the driver there is nobody to get them.
Publish(rpm) ==
  LET q == Append(queue, rpm) IN
  queue' = IF ~driverUp THEN <<>>
           ELSE IF Len(q) > MaxQueue THEN Tail(q) ELSE q

\* A callback leaves the node in state b and publishes.
Becomes(b) ==
  /\ belt.alive
  /\ belt' = b
  /\ Publish(Wanted(b))
  /\ UNCHANGED <<stop, driverUp>>

\* Mutant: the offset steps are not limited.
BeltModeUnlimited ==
  \E mode \in Modes, step \in StepRequests :
    Becomes([belt EXCEPT !.useDirect = FALSE,
      !.mode = IF mode <= Levels THEN mode ELSE 0, !.steps = @ + step])

\* belt_mode_callback: an unknown mode is STOP; a mode ends a direct speed.
BeltMode ==
  \E mode \in Modes, step \in StepRequests :
    Becomes([belt EXCEPT !.useDirect = FALSE,
      !.mode = IF mode <= Levels THEN mode ELSE 0,
      !.steps = Within(@ + step, -MaxSteps, MaxSteps)])

\* belt_target_rpm_callback: zero hands back to the mode, and a speed below
\* one is cut to zero but does not.
BeltTargetRpm ==
  \E rpm \in DirectRpms, positive \in BOOLEAN :
    /\ rpm > 0 => positive
    /\ Becomes([belt EXCEPT !.useDirect = positive, !.direct = rpm])

\* emergency_stop_callback: the latest value is delivered, after a restart too.
StopArrives == belt.stop # stop /\ Becomes([belt EXCEPT !.stop = stop])

\* Mutant: the command is repeated during an emergency stop only.
RefreshStopped == belt.stop /\ Becomes(belt)

\* command_timer_callback
Refresh == Becomes(belt)

\* parameter_callback: a changed speed is published at once.
SetLevelRpm ==
  \E level \in 1..Levels, rpm \in LevelRpms :
    /\ belt.rpms[level] # rpm
    /\ Becomes([belt EXCEPT !.rpms[level] = rpm])

\* parameter_callback: of a set that is rejected, the speeds that come before
\* the rejected parameter are kept, and published by the timer only.
RejectParameters ==
  \E level \in 1..Levels, rpm \in LevelRpms :
    /\ belt.alive /\ belt.rpms[level] # rpm
    /\ belt' = [belt EXCEPT !.rpms[level] = rpm]
    /\ UNCHANGED <<stop, driverUp, queue>>

\* The operator's switch, and the end and start of the node (external).
Switch ==
  stop' = ~stop /\ UNCHANGED <<belt, driverUp, queue>>

NodeDies ==
  /\ belt.alive /\ belt' = [belt EXCEPT !.alive = FALSE]
  /\ UNCHANGED <<stop, driverUp, queue>>

NodeStarts ==
  /\ ~belt.alive /\ belt' = Fresh(belt.rpms)
  /\ UNCHANGED <<stop, driverUp, queue>>

BeltRequests == BeltMode \/ BeltTargetRpm \/ SetLevelRpm \/ RejectParameters
BeltNext == BeltRequests \/ StopArrives \/ Refresh
=============================================================================
