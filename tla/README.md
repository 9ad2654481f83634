# A TLA+ model of the rox2026 robot's mechanism controllers

rox2026 is the software of a ball-shooting robot: ROS 2 nodes on the host
(`src/ros2_ws`), a CAN bus, and an STM32 board (`src/receiveCanConfiguration`).
This directory holds TLA+ modules of the parts whose behaviour is decided by
state machines, timers and messages, the configurations that check them with
TLC, and theorems about them that TLAPS checks.

## Inventory

Every ROS node is spun by a single-threaded executor. Its callbacks and timers
are atomic with respect to each other; what interleaves is their order, and the
messages between nodes. `command_qos` is KeepLast(1), reliable, volatile;
`request_qos` is KeepLast(10); the emergency stop, the clearance request, the
operation state and the readiness are QoS(1), reliable, transient local.

| Component | State it keeps | Operations | Talks to |
|---|---|---|---|
| Spring controller (`spring_controller`) | 12-valued motion state, target, clearance and return positions, settling count, pending requests, hold position | homing on a limit switch, zeroing service, accumulated shot, slow fire, belt clearance, emergency stop, parameters | EduLite driver, dribble controller, joystick |
| Dribble controller (`dribble_controller`) | arm mode and trajectory, shot-cycle phase, preparation of a shot, roller speed, spring's last state | manual positions, roller on/off, shot cycle, emergency stop, arm and belt feedback | EduLite driver, VESC, spring and belt controllers |
| Belt controller (`belt_controller`) | mode, direct rpm, emergency stop, measured rpm | mode and rpm requests, refresh timer, live rpm offsets | VESC driver |
| EduLite05 driver (`hardware_driver/.../edulite05_*`) | initialisation state machine per motor, requested target, reference, faults, watchdog | CAN frames in and out, target, set_position, retries | spring and dribble controllers, CAN |
| VESC driver | last target per motor, measured rpm | targets, CAN frames, refresh timer | belt and dribble controllers, CAN |
| STM32 node | alive time, IMU validity, limit switches | CAN frames, alive check | CAN, heading hold, spring controller |
| Joy controller | last message, emergency-stop toggle, modes, belt level, arm, spring sequence, state of the aiming node | joystick callback, loop, timeout, parameters | everything that takes requests |
| Aiming node of game 2 | state, locked target, requested shot, emergency stop | start, stop, shot request and phases, control loop | joy controller, heading hold, belts, shot cycle |
| Aiming node of the penalty game (PK) | state, selected and locked panel, confirmation | start, confirm, next, previous, control loop | joy controller, heading hold, belts |
| Heading hold | command, yaw, their ages, held heading, rotation state | command, IMU, enable, control timer | joy and aiming nodes, mecanum controller |
| Mecanum controller, odometry | last command, emergency stop | command, stop, repetition; odometry is numeric | heading hold, EduLite driver |
| LED controller | last message of each topic | display priority | STM32 node |
| STM32 firmware | CAN receive state, limit switches, LED effect | main loop, interrupts | CAN |
| SocketCAN bridge, bringup, scripts, host setup | | socket I/O, launch | |

What is hard here, and what makes each component correct:

* The *spring* and the *arm* share the space in front of the belts. The shot
  cycle borrows that space from the spring through two topics; nothing else
  keeps the spring from shooting into the arm. Correct means: the arm feeds
  only past a lent spring, a lent spring does not shoot, and every end of a
  cycle gives the spring and the belts back.
* The *emergency stop* arrives at each node separately and between any two of
  its steps. Correct means: the motor is told to hold, nothing that was pending
  survives as a surprise, and motion resumes from where the mechanism is.
* *Drivers disconnect and come back*, with or without their position reference,
  in every state of the controllers, and answers to requests arrive late.
* *Timeouts* are restarted by releases and by phase changes. Correct means:
  homing, shots and cycles end.
* The *drive and the belts* have several publishers each: `/drive/cmd_vel` the
  joystick and the aiming nodes, `/belt/command_mode` these and the shot cycle.
  The last message counts, and each node knows whose turn it is from messages
  only. Correct means: one node drives, and belts that turn are turned by
  someone who will stop them, at the level of the target.
* The *IMU and the commands fall silent* and come back between any two control
  periods. Correct means: wheels stop in the end, and a heading that was measured
  before an outage is not held after it.
* The *EduLite driver* enables a motor only after a verified hold position, and
  sends no target that predates a restart.

## Modules

| Module | Models | Source |
|---|---|---|
| `SpringController` | the spring controller node | `spring_edulite_controller.cpp/.hpp` |
| `SpringClearance` | what the spring promises to whoever borrows its space | the same node, abstractly |
| `SpringRefinement` | the mapping under which `SpringController` implements `SpringClearance` | |
| `DribbleController` | the dribble controller node | `dribble_controller.cpp/.hpp` |
| `ShotInterlock` | dribble controller and `SpringClearance`, joined by their two topics | both |
| `EduliteDriver` | one motor of the EduLite05 driver, its bus and the motor itself | `edulite05_protocol.cpp/.hpp`, the command timer of `edulite05_node.cpp` |
| `BeltController` | the belt controller node, for one belt | `belt_controller.cpp/.hpp` |
| `BeltDrive` | that controller, the VESC driver and the motor of the belt | `belt_controller.cpp`, `vesc_node.cpp` |
| `JoyController` | the joystick node | `joy_controller_node.cpp` |
| `PkAim` | the aiming node of the penalty game | `pk_aim_node.cpp`, `pk_target_tracker.hpp` |
| `Game2Aim` | the aiming node of game 2 | `game2_aim_node.cpp`, `target_tracker.hpp` |
| `AutoMode` | these three and the shot cycle | the same, `dribble_controller.cpp` |
| `DriveChain` | heading hold and the mecanum controller | `heading_hold_node.cpp`, `mecanum_controller_node.cpp` |
| `SpringControllerProofs`, `SpringClearanceProofs`, `SpringRefinementProofs`, `DribbleControllerProofs`, `ShotInterlockProofs`, `EduliteDriverProofs`, `BeltDriveProofs`, `OperatorProofs` (of `AutoMode` and `DriveChain`) | theorems | |
| `MCSpring`, `MCDribble`, `MCInterlock`, `MCEdulite`, `MCBelt`, `MCAuto` | constants for TLC | |

### SpringController

`m` is the motion: state, target, settling count, timer, and the positions a
clearance or slow fire returns to. The rest are inputs (`fb`, `limitSw`,
`standby`), the requests, the emergency stop and the values last published
(`command`, `ready`, `operation`). There is one action per subscription
callback, one for the service response, one for a live change of
`standby_offset_rad`, and the control timer is split at its early returns:
`TickActuatorDown`, `TickErrorLatched`, `TickStopped`, `TickZeroFailed`,
`TickRun`. Inside `TickRun` the stages of the callback are functions of the
motion, applied in the order of the code: `Connected`, `Resumed`, `Zeroed`,
`HomingStarted`, `ClearanceFollowed`, `FireStarted`, and the switch, `Moved`.
Angles are integers; a velocity is "at or below the stopped threshold" or not;
time is counted in control periods. The three start times are one counter:
each state reads one of them and every transition into a timed state resets
the one it reads. Parameters other than the standby offset are constants.

### DribbleController

Three records: `input` (what others last reported), `shot` (cycle and
preparation) and `arm` (mode, trajectory, last command), and the values last
published. A commanded angle is abstracted to the set of named positions it
lies between: a trajectory passes through `from \cup {place}` and ends in
`{place}`. When it ends is open between the second tick and `TravelTime`.
`Control` is the control timer; `Tick` calls it after a period has passed, and
`EmergencyStopOn`/`Off` call it after their own assignments, as the code does.
`PositionCommand` is what `position_mode_callback` does once the request is
`Accepted`, which FEED never is; a shot cycle it interrupts ends there, and the
belts are told nothing.
The alternatives of `Control` are the early returns and phases of the code: `ArmDown`,
`Held`, `Moves`, `Cycles` (`Spinup`, `Feed`, `Return`) and `StartsAfterWait`.
`RollerSpeeds` is the set of speeds `update_and_publish_roller_command` may
publish: the motion compensation computed from `/mecanum/cmd_vel_heading` is
any value of `Compensations`. Ball detection changes nothing else in the node
and is not modelled; parameters are constants.

### SpringClearance and ShotInterlock

`SpringClearance` has four variables: what the spring does (`motion`), whether
it is `lent`, whether it is `asked` for, and what it `announced`. TLC checks
that `SpringController` implements it (`ImplementsClearance`).
`ShotInterlock` puts the whole `DribbleController` next to it. Each topic
delivers its latest value. With `Prompt = TRUE` a published value arrives
before the receiver's next step; both nodes run every 20 ms and a delivery
takes well under one period. Without it, a second shot that is requested
within one delivery time of the end of the first may feed on the announcement
of the first; nothing in `FEEDING` looks at the spring again.

### EduliteDriver

`driver` is the `Protocol` object of one motor, `motor` its counterpart on the
bus (external: power, RUN, registers, position), `inbox` the frames from the
motor the driver has not handled yet. `kind` is the configuration: a position
motor whose reference comes from the service or from the configuration, or a
velocity motor. `Period` is a command timer callback in which this motor comes
first in the round robin, `PeriodOfAnother` one in which another motor sends the
initialisation frame; both run the watchdog and send the target. Inside, the
stages are functions of the protocol object in the order of the code: `Watched`,
`Advanced` (timeouts, settling, ERROR retry), `Sent`, `TargetFrame`. `Receive`
is `Protocol::receive`: `Feedback` (Type 2), `Response` (Type 17), `Faulted`
(Type 21 and the fault bits). `SetTarget` and `SetCurrentPosition` are the
topics and the service. Position 0 stands for the value the service is called
with. A frame of the driver reaches the motor at once or is lost; the motor's
frames wait in order. Positions are integers, and a feedback frame carries one
modulo `Turn`, as the real one carries it modulo 8 pi. Not in the model: the
request for the current, disabled in the configuration; the pacing of targets by
`command_period` (a target goes out every period); fault codes and values.

### BeltController and BeltDrive

`BeltController` has the state of the node (`belt`), the latched emergency stop
as its publisher last set it (`stop`), and the messages to the VESC driver
(`queue`): KeepLast on the driver's side, lost when no driver runs. One belt
stands for both; they get the same requests and each has its own speed per
level. Every callback ends in `Becomes`, the new state and the speed `Wanted`
of it. `SetLevelRpm` is a set of parameters that is accepted;
`RejectParameters` is one that is rejected after it has changed a speed.

`BeltDrive` adds the driver's `Motor` record (`vesc`), what the VESC was last
told (`wire`) and the rotation (`speed`). `Period` is a command timer callback:
nothing before a first target, zero current for a target of zero, startup
current until the rotation reaches the threshold (or a target below it), then
speed control that ramps. After each period the motor turns by one unit towards
what it was told and reports its speed; a current takes it to `FreeSpeed`, which
is above every target. Between these three steps targets arrive in any number.
Both nodes may end and start at any time. A driver that ends leaves the VESC at
zero current (its destructor sends it; after a crash the VESC's own timeout does,
which is external, and what the motor does until then is not in the model), and
its start takes longer than a period. Not in the model: `/vesc/target`, on which
only the roller is commanded, the published states and their feedback timeout,
and lost status frames.

### JoyController, PkAim, Game2Aim and AutoMode

A joystick message is the set of controls it shows as held (`pad`); `last` is
the message the loop handled last, so that `Pressed` is the edge of the code.
`joy` is the state of the node. `LoopIdle`, `LoopStop`, `LoopStopped` and
`LoopRun` are the returns of `loop_callback`; `LoopRun` is the whole rest of it,
each block of the code an operator (`NewArm`, `NewLevel`, `NewStart`, ...) and
the spring sequence, which goes on with the state the blocks before it left,
`AfterFire`. `JoyTimeout` comes when the loop has handled the last message: the
timeout is a second, the loop period much shorter. Parameters are `SetParameters`, whose
only effect on this state is that the message at hand counts as handled.
`launch` is the launch file: which aiming node runs, and whether L2 with R2
fires the spring or requests a shot cycle.

`PkAim` has one action per subscription somebody publishes to, and one per state
of the control loop; how long ago each panel was seen is a set chosen by each
handler. Its handlers of the emergency stop and of the shot cycle are never
called, see "Findings". `Game2Aim` has the locked target only as its belt level.
Its control loop is where the step begins (`Game2Begins`: a stop, the insurance
timer) and where it leads (`Game2Successors`).

`AutoMode` adds the messages. Requests wait in order in `sent`; states reach
their reader as the latest value, later (`JoyHearsAim`, `Game2Stop`,
`CycleStop`, `Game2HearsCycleState`). `drive` and `belt` are the last command on
the two topics with several publishers. The shot cycle is here only what its
neighbours see: phases in any time, the belts it turns, and the phase it last
published (`told`), since the control timer publishes a change one period after
it happened. Its three callbacks are separate: `CycleTimer`, which ends a cycle
by completion or timeout and then stops the belts the cycle started (the
emergency stop calls it, too); `CycleStart`; and `CyclePosition`, a position of
the arm from the joystick, which ends a cycle in any phase and leaves the belts
as they are.

### DriveChain

One action per callback of heading hold, one per return of
`select_output_command`, and the two callbacks of the mecanum controller. A yaw
is represented by the reference frame it is measured in, since that is what an
outage changes; a velocity by its kind. The timer that repeats zero wheel speeds
during a stop publishes what is published already and is no action.

## Runs

| Run | Question | Bounds |
|---|---|---|
| `MCSpringParameters` | shots, clearances, homing, emergency stops; the standby offset, 0 or 1, changes at any time; the driver fails | READY and ERROR, 3 positions, shot increment -3, timeouts of 2 periods |
| `MCSpringReconnect` | reconnections, with or without reference, and emergency stops | READY and INITIALIZING, 2 positions, one shot |
| `MCSpringLive` | slow fire ends, and ends where it began | 2 positions, tolerance 1, two extension steps |
| `MCDribbleShots` | arm and roller: manual positions, cycles, slow fire; where the arm rests; every shot ends | DRIBBLE and OPEN, compensation -1 or 1 |
| `MCInterlockManual` | both controllers, cycles interrupted in every way, FEED asked for by hand | arm reported at FEED, one announcement per kind of state |
| `MCInterlockShots` | both controllers, no manual position | arm reported at DRIBBLE |
| `MCEduliteSafety` | initialisation, reference and targets under lost, late and refused frames, faults and power failures | 2 parameters, 1 retry, 4 positions of which 3 make a turn, one frame in flight |
| `MCBeltDrive` | stops, requests, parameters and restarts of both nodes: what the belt does | one level of speed 1 or 2, one offset step, targets up to 3, threshold 2, a queue of two |
| `MCEduliteLive` | READY again after faults and power failures; stale speeds end | the same, no frame lost |
| `MCAuto` | who drives, who turns the belts, at which level, and who leaves them turning, what a stop ends, in each launch file | a handful of controls per launch, a request of each kind under way, three panels, spring delays of one period |
| `DriveChain` | outages and restarts of the IMU, silence, turns, stops | command timeout 2, IMU timeout 1, settling 1, one restart |
| `FindingPkStop` | the penalty game in an emergency stop | as `MCAuto`, that launch only |

The timeouts are small but every one of them can expire and can fail to: each
is at least one period longer than the shortest way to the event it races. The
positions are chosen so that an actuator can be at the target, short of it and
past it. Elapsed time saturates at `TimeLimit`, which is at least every
timeout, so nothing is lost. Two bounds restrict behaviour: `LowestTarget`
ends the unbounded creep of repeatedly interrupted homing (each release of the
emergency stop restarts the homing timeout), and `MaxZeroRequests` bounds the
unanswered zeroing requests.

The EduLite driver's bounds: two parameters are the smallest table in which one
is written before ENABLE (RUN_MODE) and one after; one retry means that the first
failure retries and the second ends in ERROR. Three positions to a turn and four
positions make every whole-turn crossing happen. Three constants restrict its
behaviour. With `LongOutages` power comes back only after the driver has started
over: a shorter outage, inside the initialisation or within `feedback_timeout`,
leaves a motor with empty registers that the driver cannot tell from one that
kept them, and `EnabledHolding` then fails, because no frame says so. With
`ShaftMoves = FALSE` the shaft turns only while the driver is READY and has
handled what was reported (see "Findings" for the other case), and never
by more than half a turn between two reports. At the configured limit of 28 rad/s
half a feedback turn takes 449 ms, less than the feedback timeout of 500 ms, so
the second assumption is about the reports and not given by the watchdog.
`Prompt`, used for liveness only, has frames handled within the period they
arrive in. A target is accepted only if it lies within `Positions`.

The belt's bounds: with a threshold of 2 the targets 1, 2 and 3 lie below, at and
above it, a direct speed and a level differ, and the offset takes a speed to
zero and past the level. `FreeSpeed` is 5, so that startup current that is not
ended in time exceeds the highest target. The queue holds two messages, so that
one can be lost and an old one can follow a new request; the driver's depth is 10.

The controls of `MCAuto` are, for each launch, those its aiming node or the belts
depend on, and the combinations of two that mean something of their own (L2 with
R2, L2 with the circle, R2 with the D-pad); an edge is between any two of these
messages. The joystick's belt requests are made in the launch without an aiming
node; with one they would only multiply the owners of the belts. Three panels
are the fewest among which the next, the previous and a skipped one differ, and
each has its own level, so that a wrong one shows. `Room` keeps the joystick
from acting while a request of its kind waits; a stop may still queue the end of
a mode behind its start. Positions of the arm are counted and not told apart;
the joystick sends one at a time, and a loop waits with the next until it is
received. The controls of game 2 that TLC tries send none, because with them the
run is several times as large; an abort is reached in game 3, and the theorem
`BeltsKeepOwnerAlways` holds for every set of controls. TLC does not tell states
apart by `drive` (`VIEW AllButDrive`): the nodes only write it, and no guard and
no property of this run reads it but its type (which `AutoTypeCorrect` proves),
so such states have the same future.

In `DriveChain` ages saturate one past their timeout. The two timeouts differ so
that either can expire first. `ImuRestarts` assumes that an IMU takes longer than
`imu_timeout_ms` to come back with a new reference; a faster restart would not
be noticed by the node.

`FindingPkStop` is expected to fail: it checks a statement of the documentation
that the code does not keep. See "Findings".

### Fairness

`MotionEnds` and `ShotEnds` assume weak fairness of the control timer: it is a
wall timer of a node whose callbacks return. No fairness is assumed of inputs,
of the service response or of the driver. Both properties are conditional on
the emergency stop being released and the driver being READY from some point
on, and `ShotEnds` on the spring staying out of slow fire: leaving and entering
it restarts the trajectory the preparation of a shot waits for.

`BecomesReady` and `StaleVelocityEnds` assume weak fairness of `Receive` (the
node's executor delivers what has arrived) and strong fairness of `Period`: the
command timer fires again and again, and the round robin of
`command_timer_callback` gives each motor that has something to send the first
place again after the others. It is strong because with `Prompt` a frame in the
queue disables the timer, and frames keep coming. Both properties suppose that
from some point on the motor has power and no fault; no frame is lost, since
nothing bounds how often the bus may lose one.

`StopEndsRotation` and `Settles` assume weak fairness of the refresh timer of the
controller, of the delivery of the latched emergency stop and of targets, of the
driver's command timer, of the status frames and of the motor. The timers are
wall timers of nodes that only run short callbacks, and the VESC sends its status
periodically. No fairness is assumed of requests, of the operator's switch or of
restarts; both properties suppose that both nodes run from some point on.

`SilenceStops` and `HoldResumes` assume weak fairness of heading hold's control
timer, of time, and of the delivery of its commands and of the latched stop to
the mecanum controller. None is assumed of commands, of the IMU, of the operator
or of the emergency stop: `SilenceStops` supposes that from some point on no
command is fresh and the hold is left on or off (`set_heading_hold_enabled`
publishes the last command, however old, so toggling it for ever keeps the
wheels turning); `HoldResumes` that commands and IMU stay fresh, no turn is asked
for and the robot is at rest.

## Findings

* `FindingPkStop`: the aiming node of the penalty game subscribes to
  `/robot/emergency_stop`, which no node publishes; the joystick node publishes
  `/system/emergency_stop` and, unlike for game 2, sends no end of the mode when
  it stops. So in an emergency stop the node stays in its state, commands belts
  and drive on, and the belts turn as soon as the stop is released;
  `docs/controllers/game2-aim.md:76` has it go to STANDBY and stop the belts at
  once.

Four more are stated by a property and can be reproduced with TLC:

* A driver that comes back with its reference makes the controller READY while a
  clearance is still active, and BELT_CLEARANCE is announced from any position
  (`spring.md:81`). `AnnouncesOnlyRetracted` fails with the constants of
  `MCSpringReconnect`; those of `MCSpringParameters` have no reconnection with a
  reference.
* Reading the multi-turn position sets the counted position but not the last
  feedback position it is counted from, so what a free shaft turned between the
  two is counted twice from then on; if the read comes before the first feedback
  frame, it is lost instead. The comment at `edulite05_protocol.cpp:482` says the
  read aligns the two. `CountsTurns` fails with the constants of
  `MCEduliteSafety` and `ShaftMoves = TRUE`.
* When the belt controller dies, the VESC driver repeats its last target in every
  period and the belts turn on. `robot_controller/README.md:62` says the VESC has
  a timeout of its own, and the comment at `belt_controller.cpp:152` speaks of the
  driver's command timeout; the driver sends without being asked, so the VESC's
  own timeout does not help. `CommandsTimeOut` of `BeltDrive` states it and fails
  under `FairSpec`.
* `docs/controllers/dribble.md:13` says of `/system/emergency_stop` that the
  roller stops and the arm returns to a safe posture
  ("ローラー停止安全姿勢復帰"). The code, and its own comment at
  `dribble_controller.cpp:250`, hold the arm where it is: a stop while a shot is
  fed leaves it in front of the belts for as long as the stop lasts.
  `HoldsDuringEmergencyStop`, checked by `MCDribbleShots`, says what the code
  does; `StopReturnsToSafePosture` of `DribbleController` is the weakest reading
  of the document, and fails under `FairSpec` with the constants of
  `MCDribbleShots`, the arm reported at DRIBBLE or FEED.

More were met while modelling and have no run. `docs/controllers/dribble.md:10`
lists FEED among the positions of `/dribble/command_position`, and
`test_robot_controller.cpp:365` publishes it and expects the arm at the angle of
FEED (1.3 rad, line 376). `position_mode_callback` returns for it without a word
(`dribble_controller.cpp:124`). `NeverParksInFeed` holds because of that return:
`MCInterlockManual` has FEED among the requests, and without the guard of
`Accepted` the arm stands in front of the belts, as the test expects.

A `standby_offset_rad` changed during an emergency stop sends the shifted target to the motor, and the next
period sends the hold again; `docs/controllers/spring.md:80` says the target is
not changed (`HoldsDuringEmergencyStop` is therefore checked and proved without
such a change). A request for a shot made during the stop is kept when the driver
is not READY meanwhile, because the early return for that comes before the
rejection (`spring.md:82`). A manual abort leaves the
belts running that the cycle started, which completion and timeout stop
(`robot_controller/README.md:53`), and it gives the spring back while the arm is
still commanded at FEED, where `dribble.md:35` has it return after the arm;
`AutoBeltsStop`, `ReleasedAfterReturn` and `NoShotIntoArm` are therefore checked
without manual positions, and `BeltsKeepOwner` says that among all publishers of
the belts' level this abort is the only step that leaves them to nobody. Releasing the stop during BELT_SPINUP, or with the wait
before a shot expired, commands DRIBBLE in one step although
`dribble_controller.cpp:258` says the arm resumes from its current position. And
a motor that loses its power for a moment between the verified hold position and
ENABLE is enabled without one, where `docs/hardware/edulite05.md` has every
initialisation confirm its readbacks first.

A direct belt speed of zero falls back to the mode requested before it
(`belt_controller.cpp:116`), so a request of zero may leave the belt turning. The
test at `test_robot_controller.cpp:90-97` expects that the belt controller sends
nothing periodically outside a stop; `command_timer_callback`
(`belt_controller.cpp:150-155`) repeats the present targets in every state, and
so does the model, which needs it for `Settles` after a lost message. (The test
also uses topics the node no longer has.)

Of the joystick node: a stop or a timeout clears its flag for game 2 but not the
one for the penalty game, and OPTIONS toggles both, so that afterwards L2 with
the circle is refused in manual mode (against the comment at
`joy_controller_node.cpp:435`) or a moved stick ends nothing. A timeout forgets
the last message, so HOME held across a dropout toggles the stop again. Setting
parameters, or a press shorter than a loop period, swallows a press. An arm
movement of the spring sequence that is pending survives a stop, a slow fire
request is not withdrawn by it, and L2 with R2 in game 3 requests a shot cycle
past `shot_allowed`. Of the aiming nodes: in the penalty game ALIGNING is never
left because the panel is lost (`game2-aim.md`, section 5), and a change of
selection to a panel that is not seen stays in PREPARING_SHOOT, unlocked, with
the belts turning; a request to game 2 during RETURNING is ignored by the
cycle, yet the end of the running cycle counts as its shot; the insurance timer
of game 2 has no effect in SEARCHING, and ends the next lock instead; neither
node publishes a zero velocity when it leaves ALIGNING. A cycle with belts of its
own and an aiming node publish different levels at the same time. Heading hold
uses the angular velocity of an IMU message even when the STM32 node has marked
it as stale, and switching it off publishes the last command, however old; so
does the mecanum controller when the stop is released.

## Proofs

Everything below holds for every value of the constants that the named
assumptions allow; the `...Proofs` modules hold the arguments. Every safety
property that a run checks is stated by a theorem. A theorem with a hypothesis
about constants (`ASSUME`) covers the instances that satisfy it; one with a
hypothesis about the behaviour (`Spec /\ []H => ...`) says of which
environments the property may be expected, and is followed by one that derives
`H` from constants the runs use. TLC checked each inductive invariant before it
was proved.

* `SpringControllerProofs`: `TypeOK` and `FiringExcludesClearance` are
  invariant, and so is `HoldsDuringEmergencyStop` if `standby_offset_rad` does
  not change (the change is the one that breaks it, see "Findings"). The inductive invariant is `IInv`, the type and the exclusion;
  each stage of the control timer has a lemma saying it keeps `Sound`, the part
  of `IInv` about the motion, and the step cites them in the code's order.
  `StandbyPhase` is kept by a plan and not by a state, so its invariant `Phased`
  speaks of the position a clearance or a slow fire returns to, also while a
  target off the phase is driven to. It supposes a fixed standby offset (a new
  one moves the phase under a plan already made), a negative `FireIncrement`
  (as configured; the code does not check its sign) and `HomesFirst`: a driver
  that is READY again has no reference yet. One that brings its own reference
  makes the controller READY wherever the shaft is. `StandbyPhaseInvariant`
  derives `HomesFirst` when no report has a reference. `AnnouncesOnlyRetracted`
  is proved for a driver that stays READY or in ERROR while the spring is lent,
  and no accepted zero meanwhile (`LoanUndisturbed`); `AnnouncementHolds` proves
  the second half from the first: the controller asks for a zero only while
  homing, and no loan begins or lasts with one outstanding. It needs
  `RequiredStable > 0` (3 in the code, a parameter that is not validated): with
  zero the first period that looks is stable without having seen anything.
* `SpringRefinementProofs`: `Spec => ImplementsClearance`. The step simulation
  needs `IInv`: a shot that went on during a clearance would be announced as a
  shot of a lent spring. `FollowsRequest` says what a stage may do to the loan;
  every control period ends in a motion that satisfies it, every such period is
  an abstract `Period`, and of the callbacks only the request and the offset are
  visible.
* `SpringClearanceProofs`: any spring that keeps `SpringClearance` is lent while
  it is announced as cleared, and does not shoot while lent.
* `DribbleControllerProofs`: `TypeOK`, `ClearanceFollowsCycle`,
  `NeverParksInFeed`, `HoldsDuringEmergencyStop` and `RestsWhereAsked`. None is
  inductive alone. `IInv` adds `Together`: FEED is a
  mode of a running cycle only, the spin-up keeps DRIBBLE, and a preparation
  keeps DRIBBLE and excludes a cycle. Without it a shot could save FEED as the
  mode to return to, and the end of a cycle would park the arm there.
  `ControlInv` is stated for any inputs, shot and arm that fit together, because
  both edges of the emergency stop call the timer with values of their own.
  `RestsWhereAsked` is kept by every step that keeps `IInv` if
  `ClearanceTimeout > 0`, which the code requires of a new value of the parameter
  (`dribble_controller.cpp:999`; the value a node starts with is not checked, the
  configured one is positive): a cycle that gave up in the period it began
  would leave an arm at rest that was never led to where it is asked to be.
  `AutoBeltsStop` and `ReleasedAfterReturn` hold as long as nobody chooses a
  position by hand during a cycle (`NoManualAbort`; otherwise they fail, see
  "Findings"): belts on SPIN belong to a cycle, and every other end of a cycle,
  completion, timeout, emergency stop or a lost driver, stops them and has the
  arm's command out of FEED. `WithoutManualPositions` is the instance that
  `MCInterlockShots` checks: of FEED, the one position that is never accepted,
  there may be requests.
* `ShotInterlockProofs`: with `Prompt = TRUE`, `FeedsPastLentSpring` is an
  invariant of the composition. A period that begins to feed has seen
  BELT_CLEARANCE, which the spring still announces, so it is lent; and while it
  feeds the request stands, so no period of the spring takes the loan back.
  With `SpringImplementsClearance` this is a statement about the two nodes.
  `NoShotIntoArm` follows if no position is ever chosen by hand and the arm is
  reported at FEED only while a cycle feeds (`ReportedWhereLed`; in `NoShot`,
  while reports never say FEED). `ClearInv` adds that outside the feeding
  neither the command nor the start of a trajectory touches FEED; an emergency
  stop, its release and a driver that becomes READY all take over the reported
  position, which is where the hypothesis is used. It is not enough
  to forbid positions during cycles only: TLC finds a cycle that saved OPEN,
  withdraws its request when it is done, and only then starts the trajectory
  back to OPEN, which begins between DRIBBLE and FEED. A real arm is reported at
  FEED for a moment after it left; that moment is outside the hypothesis and
  stays open.

* `EduliteDriverProofs`: `TypeOK`, `WithinTable`, `ReadyHasReference` and
  `TargetInItsFrame`, for every bus, outage and shaft, the restrictions above
  included or not. `IInv` is the type and `Sound`: inside the table; READY only
  when enabled, enabled only with a reference (the confirming frame is a
  feedback frame, and the first of those gives the reference); a target only
  while READY and in the current offset. Every stage of the timer and of
  `receive` has a lemma that it keeps `Sound`.
  The other three properties relate the driver to the motor and to all that is
  in flight, and each has an invariant about the pending answers.
  `ReadyIsComplete` (with `LongOutages`, see "Runs"): `Written` says that what
  the driver has verified, and what a matching answer still confirms, is set in
  the motor; `Running`, that when a motor taken to be enabled does not run, a
  fault is queued behind every feedback that still says RUN.
  `EnabledHolding` (in addition without `ShaftMoves`): a position motor is
  enabled between its first and its second parameter, by way of startup position
  and hold (`Staged`), positions in flight are the shaft's (`AtPosition`), and an
  answer that confirms the hold does so of the motor's reference (`Holding`). For
  the last, only the first frame in the queue may answer a request
  (`OneAnswer`): an answer to a hold left over when the motor is READY would meet
  a reference that targets have changed since. `EnablingHolds` derives it for
  frames handled within a period, and for one frame in flight, the run's case.
  `CountsTurns` (without `ShaftMoves`, for more than two positions to a turn,
  and for queues of any length): the count of turns is the shaft's from the
  verified startup position on; a READY shaft is at most one step ahead of the
  count, and then its feedback is still to come (`Counting`). The arithmetic is
  `ShortWayRound`: a difference of wrapped positions, unwrapped, is the way
  between them if that is shorter than half a turn. No long outage is assumed.

* `BeltDriveProofs`: `TypeOK` and `StopIsHeeded`. The second holds only of what
  the driver has received; the invariant that carries it, `Heeded`, says of the
  newest message in the queue, or of the driver's target when there is none, that
  it is zero when the controller is stopped. Every callback appends a message of
  the new state (`BecomesKeeps`), a full queue loses its oldest (`PublishKeeps`),
  and a driver that starts finds an empty one and has a target of zero.
  `NoOverspeed` has no hypothesis: `Bounded` says that a current flows into a
  turning only where there is room for one more step of the speed. The driver
  knows the speed in every period, or has just started, after a turning without
  current that made the room. This is a statement about the model's motor, which gains at most
  one unit of speed between two status frames and loses no status frame; with
  the node's status frames gone it does not hold (see the hazards).

* `OperatorProofs`: every property of `MCAuto` and `NoOldFrame`, and that the wheels stand in a stop the mecanum controller knows of. `AutoInv` is inductive
  for any number of panels, levels, controls and requests under way. `OneDriver`
  needs that the aiming node of game 2 runs only in its launch (`Game2Only`) and
  that the last request sent agrees with the joystick node's flag
  (`LastStart`): then a node that is active and hears the last request ends.
  `LevelOfSelected` needs that the level already fits in ALIGNING
  (`LockedLevel`). That belts which turn belong to someone who will stop them,
  `BeltsHaveOwner`, is no invariant of the code: `BeltsKeepOwner` says which
  single step loses them, `BeltsKeepOwnerAlways` proves it of every step of the
  four nodes (`OwnerStep`), and `BeltsHaveOwnerUnlessAborted` derives the
  invariant for behaviours in which no position aborts a cycle with belts of its
  own (`Aborts`). The proof is in two layers: each node's
  steps satisfy an effect (`JoyEffect`, `PkEffect`, `Game2Effect`,
  `CycleEffect`) that says what they may do to the topics the others read, and
  each effect keeps `AutoInv`. `DriveInv` adds to `NoOldFrame` that the yaw is of
  an older frame than the IMU's only while its age is past the timeout or
  nothing was received yet (`FrameInv`).

Left to TLC are the liveness properties, which the prover cannot state a proof
of: `MotionEnds`, `ShotEnds`, `BecomesReady`, `StaleVelocityEnds`,
`StopEndsRotation`, `Settles`, `SilenceStops` and `HoldResumes`. Not claimed at
all is what the hypotheses above leave out: `EnabledHolding` with several
answers in flight, where neither the proof nor a run decides it, and the cases
under "Findings", where the property fails.

## Plan

1. Belts join `ShotInterlock`: which belts a cycle counts as stopped, and what
   an abort leaves running, become properties of both.
2. `EduliteDriver` composed with `SpringController`, so that the position
   reference means something and a clearance that skips homing shows; several
   motors in the round robin of the command timer.
3. Live parameters and ball detection of the dribble controller; its cycle shown
   to implement the one of `AutoMode`.
4. Proofs: `EnabledHolding` with several answers in flight, or a behaviour that
   breaks it; then the invariants of the compositions above.

## Not modelled

Most lines of the repository are no part of the robot's own logic: the vendored
STM32 HAL and CMSIS headers and drivers under `src/receiveCanConfiguration/Drivers`
make up about nine tenths of them. Of the rest, not modelled are control laws,
kinematics and odometry in floating point, image processing and the geometry of
targets, socket I/O (a third-party fork), launch files, configuration and host
scripts, and the generated part of the STM32 firmware.

The STM32 node decodes and forwards frames; its timeouts decide what is logged.
The LED controller maps the last messages to a display by a chain of conditions,
and nothing reads it but the LEDs. A model of either would restate the code.
Parameters that change gains or limits while a node runs are constants.
`PROJECT.json` lists every component with its status.
