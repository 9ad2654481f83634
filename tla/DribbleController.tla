------------------------- MODULE DribbleController -------------------------
(***************************************************************************)
(* The dribble controller node (dribble_controller.cpp): the arm, the      *)
(* roller, and the shot cycle in which the arm feeds the ball to the belts *)
(* while the spring is asked to stay out of the way.                       *)
(*                                                                         *)
(* The node runs on a single-threaded executor: callbacks and the control  *)
(* timer are atomic, and their order is what Next leaves open.             *)
(*                                                                         *)
(* Arm angles are abstracted to the named positions: a commanded angle is  *)
(* the set of the named positions it lies between, so a trajectory from    *)
(* OPEN to DRIBBLE passes through {"OPEN", "DRIBBLE"} and ends in          *)
(* {"DRIBBLE"}.  Roller speeds are integers in units of the largest change *)
(* per tick.  Time is counted in control periods.  A trajectory and a      *)
(* shot-cycle phase never run at the same time, so their start time and    *)
(* start angle are one pair, age and from.                                 *)
(***************************************************************************)
EXTENDS Integers

CONSTANTS
  CommandedModes,    \* positions /dribble/command_position may ask for
  SpringOperations,  \* values /spring/operation_state may carry
  ArmPositions,      \* named positions near which the arm may be reported
  ArmReports,        \* whether the EduLite driver of the arm may be READY
  EmergencyStops,    \* values /system/emergency_stop may carry
  BeltReports,       \* whether both belts may be measured below 500 rpm
  Compensations,     \* values of the motion compensation of the roller
  DribbleRpm, OpeningRpm, FeedingRpm, ReturningRpm, SlowRpm, RpmLimit,
  PrepareDelay,      \* prepare_from_open_delay_sec
  BeltDelay,         \* belt_shot_delay_sec
  ClearanceTimeout,  \* belt_clearance_timeout_sec
  TravelTime,        \* longest trajectory, the hold at FEED included
  TimeLimit          \* elapsed time is not counted beyond this bound

Modes == {"DRIBBLE", "OPEN", "HOME", "FEED"}
Places == Modes \cup {"SLOW"}
Operations == {"IDLE", "HOMING", "NORMAL_FIRE", "SLOW_FIRE",
  "BELT_CLEARANCE", "ERROR"}
Phases == {"BELT_SPINUP", "FEEDING", "RETURNING"}

ASSUME DribbleAssumption ==
  /\ CommandedModes \subseteq Modes
  /\ SpringOperations \subseteq Operations
  /\ ArmPositions \subseteq Places
  /\ ArmReports \subseteq BOOLEAN /\ BeltReports \subseteq BOOLEAN
  /\ EmergencyStops \subseteq BOOLEAN
  /\ Compensations \subseteq Int /\ Compensations # {}
  /\ {DribbleRpm, OpeningRpm, FeedingRpm, ReturningRpm, SlowRpm} \subseteq Int
  /\ RpmLimit \in Nat /\ TimeLimit \in Nat
  /\ {PrepareDelay, BeltDelay, ClearanceTimeout, TravelTime}
       \subseteq 0..TimeLimit

VARIABLES
  input,      \* what the other nodes last reported
  shot,       \* the shot cycle and the preparation before it
  arm,        \* the arm: its mode, its trajectory, its last command
  roller,     \* last roller speed published on /vesc/target
  clearance,  \* last value published on /spring/belt_clearance_request
  belt,       \* last value this node published on /belt/command_mode
  shown       \* last value published on /dribble/shot_cycle_state

vars == <<input, shot, arm, roller, clearance, belt, shown>>

Inputs == [stop : BOOLEAN, enabled : BOOLEAN, op : Operations,
           beltsStopped : BOOLEAN, ready : BOOLEAN, pos : Places]
\* The mode a shot goes back to is one that is accepted by hand: never FEED.
Shots == [active : BOOLEAN, phase : Phases, rollerOff : BOOLEAN,
          auto : BOOLEAN, saved : Modes \ {"FEED"}, wait : Nat,
          pre : {"IDLE", "MOVING_TO_DRIBBLE", "WAITING"}]
Arms == [mode : Modes, moving : BOOLEAN, age : Nat, from : SUBSET Places,
         rpm : Int, cmd : SUBSET Places, hold : SUBSET Places]

TypeOK ==
  /\ input \in Inputs /\ shot \in Shots /\ arm \in Arms
  /\ roller \in Int
  /\ clearance \in BOOLEAN
  /\ belt \in {"NONE", "SPIN", "STOP"}
  /\ shown \in Phases \cup {"NONE", "IDLE"}

Init ==
  /\ input = [stop |-> TRUE, enabled |-> FALSE, op |-> "IDLE",
              beltsStopped |-> TRUE, ready |-> FALSE, pos |-> "HOME"]
  /\ shot = [active |-> FALSE, phase |-> "FEEDING", rollerOff |-> FALSE,
             auto |-> FALSE, saved |-> "DRIBBLE", wait |-> 0, pre |-> "IDLE"]
  /\ arm = [mode |-> "DRIBBLE", moving |-> FALSE, age |-> 0, from |-> {"HOME"},
            rpm |-> 0, cmd |-> {"DRIBBLE"}, hold |-> {"HOME"}]
  /\ roller = 0 /\ clearance = FALSE /\ belt = "NONE" /\ shown = "NONE"
-----------------------------------------------------------------------------
(***************************************************************************)
(* The roller: roller_target_rpm and update_and_publish_roller_command, as *)
(* the set of speeds they may publish for given inputs, shot and arm.      *)
(***************************************************************************)
Clamp(x, low, high) == IF x < low THEN low ELSE IF x > high THEN high ELSE x
Between(a, b) == IF a < b THEN a..b ELSE b..a
Stepped(from, to) == Clamp(to, from - 1, from + 1)

Slow(in) == in.op = "SLOW_FIRE"

PhaseRpm(s) == CASE s.phase = "BELT_SPINUP" -> OpeningRpm
                 [] s.phase = "FEEDING" -> FeedingRpm
                 [] s.phase = "RETURNING" -> ReturningRpm

RollerTarget(in, s, a, compensation) ==
  CASE Slow(in) -> SlowRpm
    [] ~Slow(in) /\ s.active -> PhaseRpm(s)
    [] ~Slow(in) /\ ~s.active ->
         IF ~in.enabled \/ a.mode = "OPEN" THEN 0
         ELSE Clamp(DribbleRpm + compensation, 0, RpmLimit)

\* The motion compensation is any of its values: /mecanum/cmd_vel_heading
\* decides it.  During a trajectory the speed is interpolated from its start.
RollerSpeeds(in, s, a, from) ==
  IF in.stop \/ s.rollerOff THEN {0}
  ELSE UNION {
    LET to == RollerTarget(in, s, a, c) IN
    IF ~s.active /\ to = 0 /\ (a.mode = "OPEN" \/ Slow(in)) THEN {0}
    ELSE IF a.moving /\ ~s.active /\ in.enabled /\ ~Slow(in)
      THEN Between(a.rpm, to)
    ELSE {Stepped(from, to)} : c \in Compensations}
-----------------------------------------------------------------------------
(***************************************************************************)
(* The arm.                                                                *)
(***************************************************************************)
\* get_target_position_rad
TargetPlace(in, s, a) == IF Slow(in) /\ ~s.active THEN "SLOW" ELSE a.mode

\* A trajectory starts from the last command and the last roller speed.
StartMove(a, rpm) ==
  [a EXCEPT !.moving = TRUE, !.age = 0, !.from = a.cmd, !.rpm = rpm]

\* resume_arm_control
Resume(s, a, at, rpm) ==
  IF s.active
  THEN [a EXCEPT !.cmd = at, !.from = at, !.age = 0]
  ELSE [a EXCEPT !.cmd = at, !.from = at, !.age = 0, !.moving = TRUE,
                 !.rpm = rpm]

\* A trajectory or phase has run its course: at the earliest in the tick after
\* one that was already on its way to the place, at the latest after TravelTime.
MayEnd(a, place) == place \in a.cmd
MustEnd(a, place) == place \in a.cmd /\ a.age >= TravelTime

\* update_arm_move_trajectory and, outside the phases that steer the arm
\* themselves, publish_arm_target.
Travelled(s, a, place, ends) ==
  IF ~a.moving \/ s.active THEN [a EXCEPT !.cmd = {place}]
  ELSE IF ends THEN [a EXCEPT !.cmd = {place}, !.moving = FALSE]
  ELSE [a EXCEPT !.cmd = a.from \cup {place}]
-----------------------------------------------------------------------------
(***************************************************************************)
(* The shot cycle.                                                         *)
(***************************************************************************)
\* Faulty variant: the cycle forgets that it started the belts.
ShotStartedForgetful(in, s) ==
  [s EXCEPT !.active = TRUE, !.phase = "BELT_SPINUP", !.rollerOff = FALSE]

\* start_shot_cycle: the belts are started only when both stand still, and
\* the spring is asked for clearance (the callers publish that and the roller).
ShotStarted(in, s) ==
  [s EXCEPT !.active = TRUE, !.phase = "BELT_SPINUP", !.rollerOff = FALSE,
            !.auto = in.beltsStopped]
ArmAtStart(a) ==
  [a EXCEPT !.moving = FALSE, !.age = 0, !.from = a.cmd, !.mode = "DRIBBLE"]
BeltAtStart(in) == IF in.beltsStopped THEN "SPIN" ELSE belt

\* A cycle that ends by itself goes back to the mode it interrupted.
ShotEnded(s) == [s EXCEPT !.active = FALSE, !.rollerOff = FALSE, !.auto = FALSE]
ArmAtEnd(s, a, rpm) ==
  [(IF s.saved = "DRIBBLE" THEN a ELSE StartMove(a, rpm)) EXCEPT
     !.mode = s.saved]
-----------------------------------------------------------------------------
(***************************************************************************)
(* The control timer, as alternatives.  In each, the state of the cycle is *)
(* published first and the roller second.  The parameters are the inputs,  *)
(* the shot, the arm and the roller speed the period starts from, since    *)
(* emergency_stop_callback also calls it, after its own assignments.       *)
(***************************************************************************)
\* The driver of the arm is not READY: only the roller is served.
ArmDown(in, s, a, rpm) ==
  /\ ~in.ready
  /\ arm' = a /\ shot' = s /\ roller' \in RollerSpeeds(in, s, a, rpm)
  /\ UNCHANGED <<clearance, belt>>

\* Emergency stop: keep the arm where it was held, and the roller stopped.
Held(in, s, a, rpm) ==
  /\ in.ready /\ in.stop
  /\ arm' = [a EXCEPT !.cmd = a.hold] /\ shot' = s
  /\ roller' \in RollerSpeeds(in, s, a, rpm)
  /\ UNCHANGED <<clearance, belt>>

Running(in) == in.ready /\ ~in.stop
WaitOver(s) == s.pre = "WAITING" /\ s.wait >= PrepareDelay

\* No cycle: follow the trajectory of the mode; the preparation of a shot
\* waits for its end.
Moves(in, s, a, rpm) ==
  LET place == TargetPlace(in, s, a) IN
  /\ Running(in) /\ ~s.active /\ ~WaitOver(s)
  /\ roller' \in RollerSpeeds(in, s, a, rpm)
  /\ shot' = IF s.pre = "MOVING_TO_DRIBBLE" /\ ~a.moving
             THEN [s EXCEPT !.pre = "WAITING", !.wait = 0] ELSE s
  /\ \E ends \in BOOLEAN :
       /\ ends => MayEnd(a, place)
       /\ MustEnd(a, place) => ends
       /\ arm' = Travelled(s, a, place, ends)
  /\ UNCHANGED <<clearance, belt>>

\* Faulty variant: the clearance is awaited without a timeout.
SpinupPatient(in, s, a, asked, spins) ==
  LET retracted == in.op = "BELT_CLEARANCE"
      feeds == retracted /\ (~s.auto \/ a.age >= BeltDelay)
  IN
  /\ s.phase = "BELT_SPINUP"
  /\ shot' = IF feeds THEN [s EXCEPT !.phase = "FEEDING", !.rollerOff = FALSE]
             ELSE s
  /\ arm' = IF feeds THEN [a EXCEPT !.age = 0, !.from = a.cmd, !.mode = "FEED",
                                    !.cmd = {a.mode}]
            ELSE [a EXCEPT !.cmd = {a.mode}]
  /\ clearance' = asked /\ belt' = spins

\* Faulty variant: feeding starts on the delay alone, wherever the spring is.
SpinupBlind(in, s, a, asked, spins) ==
  LET feeds == a.age >= BeltDelay IN
  /\ s.phase = "BELT_SPINUP"
  /\ shot' = IF feeds THEN [s EXCEPT !.phase = "FEEDING", !.rollerOff = FALSE]
             ELSE s
  /\ arm' = IF feeds THEN [a EXCEPT !.age = 0, !.from = a.cmd, !.mode = "FEED",
                                    !.cmd = {a.mode}]
            ELSE [a EXCEPT !.cmd = {a.mode}]
  /\ clearance' = asked /\ belt' = spins

\* BELT_SPINUP: give up, go on to FEEDING, or wait.  asked and spins are the
\* clearance request and the belt command as this period found or set them.
Spinup(in, s, a, asked, spins) ==
  LET retracted == in.op = "BELT_CLEARANCE"
      expired == ~retracted /\ a.age >= ClearanceTimeout
      feeds == retracted /\ (~s.auto \/ a.age >= BeltDelay)
  IN
  /\ s.phase = "BELT_SPINUP"
  /\ \/ /\ expired
        /\ shot' = ShotEnded(s)
        /\ arm' = [ArmAtEnd(s, a, roller') EXCEPT !.cmd = {a.mode}]
        /\ clearance' = FALSE
        /\ belt' = IF s.auto THEN "STOP" ELSE spins
     \/ /\ feeds
        /\ shot' = [s EXCEPT !.phase = "FEEDING", !.rollerOff = FALSE]
        /\ arm' = [a EXCEPT !.age = 0, !.from = a.cmd, !.mode = "FEED",
                            !.cmd = {a.mode}]
        /\ clearance' = asked /\ belt' = spins
     \/ /\ ~expired /\ ~feeds
        /\ shot' = s /\ arm' = [a EXCEPT !.cmd = {a.mode}]
        /\ clearance' = asked /\ belt' = spins

\* Faulty variant: the spring is released when the arm starts to return.
FeedReleases(s, a, spins) ==
  /\ s.phase = "FEEDING"
  /\ \E ends, stops \in BOOLEAN :
       /\ ends => MayEnd(a, "FEED") /\ stops
       /\ MustEnd(a, "FEED") => ends
       /\ IF ends
          THEN /\ shot' = [s EXCEPT !.phase = "RETURNING", !.rollerOff = FALSE]
               /\ arm' = [a EXCEPT !.mode = "FEED", !.age = 0,
                                   !.from = {"FEED"}, !.cmd = {"FEED"}]
               /\ clearance' = FALSE
          ELSE /\ shot' = [s EXCEPT !.rollerOff = @ \/ stops]
               /\ arm' = [a EXCEPT !.mode = "FEED", !.cmd = a.from \cup {"FEED"}]
               /\ UNCHANGED clearance
  /\ belt' = spins

\* The roller stops part of the way into the feeding, and always before its end.
Feed(s, a, spins) ==
  /\ s.phase = "FEEDING"
  /\ \E ends, stops \in BOOLEAN :
       /\ ends => MayEnd(a, "FEED") /\ stops
       /\ MustEnd(a, "FEED") => ends
       /\ IF ends
          THEN /\ shot' = [s EXCEPT !.phase = "RETURNING", !.rollerOff = FALSE]
               /\ arm' = [a EXCEPT !.mode = "FEED", !.age = 0,
                                   !.from = {"FEED"}, !.cmd = {"FEED"}]
          ELSE /\ shot' = [s EXCEPT !.rollerOff = @ \/ stops]
               /\ arm' = [a EXCEPT !.mode = "FEED", !.cmd = a.from \cup {"FEED"}]
  /\ belt' = spins /\ UNCHANGED clearance

Return(s, a, spins) ==
  /\ s.phase = "RETURNING"
  /\ \E ends \in BOOLEAN :
       /\ ends => MayEnd(a, "DRIBBLE")
       /\ MustEnd(a, "DRIBBLE") => ends
       /\ IF ends
          THEN /\ shot' = ShotEnded(s)
               /\ arm' = [ArmAtEnd(s, a, roller') EXCEPT !.cmd = {"DRIBBLE"}]
               /\ clearance' = FALSE
               /\ belt' = IF s.auto THEN "STOP" ELSE spins
          ELSE /\ arm' = [a EXCEPT !.mode = "DRIBBLE",
                                   !.cmd = a.from \cup {"DRIBBLE"}]
               /\ shot' = s /\ belt' = spins /\ UNCHANGED clearance

Cycles(in, s, a, rpm) ==
  LET spins == IF s.auto THEN "SPIN" ELSE belt IN
  /\ Running(in) /\ s.active
  /\ roller' \in RollerSpeeds(in, s, a, rpm)
  /\ \/ Spinup(in, s, a, clearance, spins)
     \/ Feed(s, a, spins)
     \/ Return(s, a, spins)

\* The wait before a shot is over: start the cycle and run its first period.
StartsAfterWait(in, s, a, rpm) ==
  LET started == ShotStarted(in, [s EXCEPT !.pre = "IDLE"]) IN
  /\ Running(in) /\ ~s.active /\ WaitOver(s)
  /\ \E r \in RollerSpeeds(in, s, a, rpm) :
       roller' \in RollerSpeeds(in, started, ArmAtStart(a), r)
  /\ Spinup(in, started, ArmAtStart(a), TRUE, BeltAtStart(in))

Control(in, s, a, rpm) ==
  /\ input' = in
  /\ shown' = IF s.active THEN s.phase ELSE "IDLE"
  /\ \/ ArmDown(in, s, a, rpm) \/ Held(in, s, a, rpm) \/ Moves(in, s, a, rpm)
     \/ Cycles(in, s, a, rpm) \/ StartsAfterWait(in, s, a, rpm)

Later(n) == IF n < TimeLimit THEN n + 1 ELSE n
Tick == Control(input, [shot EXCEPT !.wait = Later(@)],
                [arm EXCEPT !.age = Later(@)], roller)
-----------------------------------------------------------------------------
(***************************************************************************)
(* Subscription callbacks.                                                 *)
(***************************************************************************)
\* Faulty variant: FEED is accepted like any other position.
AcceptedAnywhere(mode) == ~input.stop /\ (mode # arm.mode \/ shot.active)

\* A manual position has an effect: never FEED.
Accepted(mode) ==
  mode # "FEED" /\ ~input.stop /\ (mode # arm.mode \/ shot.active)

\* Faulty variant: the abort keeps the mode that the cycle had set.
PositionCommandKept(mode) ==
  LET moved == [StartMove(arm, roller) EXCEPT
                  !.mode = IF shot.active THEN arm.mode ELSE mode]
      aborted == [shot EXCEPT !.active = FALSE, !.rollerOff = FALSE,
                              !.pre = "IDLE"]
  IN /\ Accepted(mode)
     /\ arm' = moved /\ shot' = aborted /\ clearance' = FALSE
     /\ roller' \in IF mode = "OPEN" THEN RollerSpeeds(input, aborted, moved, 0)
                                     ELSE {roller}
     /\ UNCHANGED <<input, belt, shown>>

\* Faulty variant: the abort does not withdraw the clearance request.
PositionCommandStillAsking(mode) ==
  LET moved == [StartMove(arm, roller) EXCEPT !.mode = mode]
      aborted == [shot EXCEPT !.active = FALSE, !.rollerOff = FALSE,
                              !.pre = "IDLE"]
  IN /\ Accepted(mode)
     /\ arm' = moved /\ shot' = aborted
     /\ roller' \in IF mode = "OPEN" THEN RollerSpeeds(input, aborted, moved, 0)
                                     ELSE {roller}
     /\ UNCHANGED <<input, clearance, belt, shown>>

\* A manual position aborts the cycle, or its preparation; OPEN stops the
\* roller at once.
PositionCommand(mode) ==
  LET moved == [StartMove(arm, roller) EXCEPT !.mode = mode]
      aborted == [shot EXCEPT !.active = FALSE, !.rollerOff = FALSE,
                              !.pre = "IDLE"]
  IN /\ Accepted(mode)
     /\ arm' = moved /\ shot' = aborted /\ clearance' = FALSE
     /\ roller' \in IF mode = "OPEN" THEN RollerSpeeds(input, aborted, moved, 0)
                                     ELSE {roller}
     /\ UNCHANGED <<input, belt, shown>>

PositionMode == \E mode \in CommandedModes : PositionCommand(mode)

DribbleEnabled == \E enabled \in BOOLEAN :
  /\ input' = [input EXCEPT !.enabled = enabled]
  /\ UNCHANGED <<shot, arm, roller, clearance, belt, shown>>

\* From another mode, the arm goes to DRIBBLE first.
ShotCycleRequest ==
  LET saving == [shot EXCEPT !.saved = arm.mode] IN
  /\ ~input.stop /\ ~shot.active /\ shot.pre = "IDLE"
  /\ IF arm.mode # "DRIBBLE"
     THEN /\ shot' = [saving EXCEPT !.pre = "MOVING_TO_DRIBBLE"]
          /\ arm' = [StartMove(arm, roller) EXCEPT !.mode = "DRIBBLE"]
          /\ UNCHANGED <<roller, clearance, belt>>
     ELSE /\ shot' = ShotStarted(input, saving)
          /\ arm' = ArmAtStart(arm)
          /\ roller' \in RollerSpeeds(input, shot', arm', roller)
          /\ clearance' = TRUE /\ belt' = BeltAtStart(input)
  /\ UNCHANGED <<input, shown>>

\* Both edges of the emergency stop end in a call of the control timer.
EmergencyStopOn ==
  LET hold == IF input.ready THEN {input.pos} ELSE arm.cmd IN
  /\ TRUE \in EmergencyStops /\ ~input.stop
  /\ Control([input EXCEPT !.stop = TRUE], shot,
             [arm EXCEPT !.hold = hold, !.cmd = hold], 0)

EmergencyStopOff ==
  LET at == IF input.ready THEN {input.pos} ELSE arm.hold IN
  /\ FALSE \in EmergencyStops /\ input.stop
  /\ Control([input EXCEPT !.stop = FALSE], shot, Resume(shot, arm, at, 0),
             roller)

\* Faulty variant: a reconnection leaves the held position as it was.
EduliteStateOldHold == \E ready \in ArmReports :
  /\ IF ~ready
     THEN /\ input' = [input EXCEPT !.ready = FALSE] /\ UNCHANGED arm
     ELSE \E pos \in ArmPositions :
       /\ input' = [input EXCEPT !.ready = TRUE, !.pos = pos]
       /\ arm' = IF input.ready THEN arm
                 ELSE IF input.stop THEN [arm EXCEPT !.cmd = {pos}]
                 ELSE Resume(shot, arm, {pos}, roller)
  /\ UNCHANGED <<shot, roller, clearance, belt, shown>>

\* Only the first READY report after another state resets the commands.
EduliteState == \E ready \in ArmReports :
  /\ IF ~ready
     THEN /\ input' = [input EXCEPT !.ready = FALSE] /\ UNCHANGED arm
     ELSE \E pos \in ArmPositions :
       LET held == [arm EXCEPT !.cmd = {pos}, !.hold = {pos}] IN
       /\ input' = [input EXCEPT !.ready = TRUE, !.pos = pos]
       /\ arm' = IF input.ready THEN arm
                 ELSE IF input.stop THEN held
                 ELSE Resume(shot, held, {pos}, roller)
  /\ UNCHANGED <<shot, roller, clearance, belt, shown>>

\* The belts' part of vesc_state_callback.
VescState == \E stopped \in BeltReports :
  /\ input' = [input EXCEPT !.beltsStopped = stopped]
  /\ UNCHANGED <<shot, arm, roller, clearance, belt, shown>>

\* Faulty variant: leaving the slow fire is left to the next position.
SpringStateOneWay(op) ==
  LET in == [input EXCEPT !.op = op] IN
  /\ input' = in
  /\ IF ~Slow(in) \/ Slow(input) \/ shot.active
     THEN UNCHANGED <<arm, roller>>
     ELSE /\ arm' = StartMove(arm, roller)
          /\ roller' \in IF SlowRpm = 0 THEN RollerSpeeds(in, shot, arm', 0)
                                        ELSE {roller}
  /\ UNCHANGED <<shot, clearance, belt, shown>>

\* Entering or leaving the slow fire moves the arm, unless a cycle has it.
SpringState(op) ==
  LET in == [input EXCEPT !.op = op] IN
  /\ input' = in
  /\ IF Slow(in) = Slow(input) \/ shot.active
     THEN UNCHANGED <<arm, roller>>
     ELSE /\ arm' = StartMove(arm, roller)
          /\ roller' \in IF Slow(in) /\ SlowRpm = 0
                         THEN RollerSpeeds(in, shot, arm', 0) ELSE {roller}
  /\ UNCHANGED <<shot, clearance, belt, shown>>

SpringOperationState == \E op \in SpringOperations : SpringState(op)

Callbacks == \/ PositionMode \/ DribbleEnabled \/ ShotCycleRequest
             \/ EmergencyStopOn \/ EmergencyStopOff \/ EduliteState
             \/ VescState \/ SpringOperationState

Next == Tick \/ Callbacks
Spec == Init /\ [][Next]_vars
FairSpec == Spec /\ WF_vars(Tick)
-----------------------------------------------------------------------------
(***************************************************************************)
(* Properties.                                                             *)
(***************************************************************************)
\* The spring is lent exactly while a shot cycle is active: no end of a cycle,
\* by completion, timeout or abort, and no emergency stop or reconnection in
\* between, leaves a clearance request standing or withdraws one early.
ClearanceFollowsCycle == clearance = shot.active

\* Without a cycle the arm is not left standing in front of the belts: an arm
\* whose command still touches FEED belongs to a cycle or is on its way out.
NeverParksInFeed ==
  "FEED" \in arm.cmd /\ Running(input) => shot.active \/ arm.moving

\* During the emergency stop the last arm command is the held position and the
\* last roller command is zero, whatever connects, reports or is asked for.
HoldsDuringEmergencyStop ==
  input.stop => roller = 0 /\ (input.ready => arm.cmd = arm.hold)

\* The belts a cycle started do not outlive it.
AutoBeltsStop == ~shot.active => belt # "SPIN"

\* The spring is asked to come back only when the arm is out of its way.
ReleasedAfterReturn ==
  [][clearance /\ ~clearance' => "FEED" \notin arm'.cmd]_vars

\* An arm at rest is commanded to where it is asked to be, the position of slow
\* fire while the spring is in slow fire and that of the mode otherwise: no edge
\* of slow fire is lost in a manual move, a cycle, a stop or an outage of the
\* driver.  Only until the end of a cycle is published may the arm still be
\* commanded to DRIBBLE in slow fire.  (spring_operation_state_callback)
RestsWhereAsked ==
  Running(input) /\ ~shot.active /\ ~arm.moving =>
    \/ arm.cmd = {TargetPlace(input, shot, arm)}
    \/ Slow(input) /\ arm.cmd = {"DRIBBLE"} /\ shown \in Phases

\* A shot that was asked for comes to its end, and so does its preparation,
\* once the arm stays READY, the emergency stop released and the spring out of
\* slow fire: no timer is restarted forever and no phase waits without bound.
ShotEnds ==
  <>[](Running(input) /\ ~Slow(input)) => []<>(~shot.active /\ shot.pre = "IDLE")

\* docs/controllers/dribble.md:13: the emergency stop stops the roller and
\* returns to a safe posture.  At the least, the arm does not stay in front of
\* the belts for as long as the stop lasts.
StopReturnsToSafePosture ==
  <>[](input.stop /\ input.ready) => []<>("FEED" \notin arm.cmd)
=============================================================================
