------------------------- MODULE SpringController -------------------------
(***************************************************************************)
(* The spring controller node (spring_edulite_controller.cpp): homing of   *)
(* the spring, accumulated-position firing, slow fire, the belt-clearance  *)
(* motion and the emergency-stop hold.                                     *)
(*                                                                         *)
(* The node is spun by a single-threaded executor, so every subscription   *)
(* callback, the parameter callback, the service response and the control  *)
(* timer are atomic.  What interleaves is their order, and that is the     *)
(* next-state relation: one action per callback, and the control timer     *)
(* split into the alternatives its early returns make.                     *)
(*                                                                         *)
(* Angles are integers in an arbitrary unit, velocities are reduced to     *)
(* "at or below the stopped threshold", and times are counted in control   *)
(* periods.  homing_start_time_, motion_start_time_ and                    *)
(* slow_fire_phase_start_time_ are one counter, elapsed: every state reads *)
(* only one of them, and every transition into a timed state resets the    *)
(* one that state reads.                                                   *)
(***************************************************************************)
EXTENDS Integers

CONSTANTS
  Positions,         \* feedback positions the actuator may report
  FeedbackStates,    \* states the EduLite driver may report
  ReferenceReports,  \* values of position_reference_set it may report
  StandbyOffsets,    \* values standby_offset_rad may take
  InitialStandby,    \* standby_offset_rad at start
  FireIncrement,     \* fire_increment_rad
  ReadyTravel,       \* belt_clearance_ready_travel_rad
  Tolerance,         \* position_tolerance_rad
  HomingStep,        \* homing_velocity_rad_s * command period
  SlowRetract,       \* slow_fire_retract_travel_rad
  SlowStroke,        \* slow_fire_stroke_rad
  ExtensionSteps,    \* advances of the slow-fire target in one period
  ReturnStep,        \* slow_fire_return_velocity_rad_s * command period
  MoveSpring,        \* values slow_fire_move_spring may have when it is read
  RequiredStable,    \* required_stable_feedback_count
  HomingTimeout, MotionTimeout, SlowDelay, SlowTimeout, ArmOnlyDuration,
  TimeLimit,         \* elapsed time is not counted beyond this bound
  LowestTarget,      \* bound: no emergency stop while homing is below this
  MaxZeroRequests,   \* bound on unanswered /edulite/set_position requests
  FireRequests, SlowFireRequests, ClearanceRequests, EmergencyStops,
                     \* values the four Bool topics may carry
  NoCommand          \* nothing was published on /edulite/target yet

ASSUME PositionAssumption ==
  /\ Positions \subseteq Int /\ Positions # {}
  /\ StandbyOffsets \subseteq Int
  /\ InitialStandby \in Int /\ LowestTarget \in Int
  /\ FireIncrement \in Int
  /\ {ReadyTravel, Tolerance, HomingStep, SlowRetract, SlowStroke, ReturnStep}
       \subseteq Nat
  /\ ExtensionSteps \subseteq Nat
  /\ NoCommand \notin Int

ASSUME InputAssumption ==
  /\ FeedbackStates \subseteq {"OFFLINE", "INITIALIZING", "READY", "ERROR"}
  /\ ReferenceReports \subseteq BOOLEAN
  /\ MoveSpring \subseteq BOOLEAN
  /\ FireRequests \subseteq BOOLEAN /\ SlowFireRequests \subseteq BOOLEAN
  /\ ClearanceRequests \subseteq BOOLEAN /\ EmergencyStops \subseteq BOOLEAN

ASSUME TimingAssumption ==
  /\ RequiredStable \in Nat
  /\ {HomingTimeout, MotionTimeout, SlowDelay, SlowTimeout, ArmOnlyDuration}
       \subseteq 0..TimeLimit
  /\ TimeLimit \in Nat
  /\ MaxZeroRequests \in Nat

HomingStates == {"WAITING_FOR_HOMING", "HOMING", "WAITING_FOR_STOP"}
SlowFireStates == {"SLOW_FIRE_WAITING", "SLOW_FIRE_RETRACTING",
  "SLOW_FIRING_EXTENDING", "SLOW_FIRING_RETURNING", "SLOW_FIRE_ARM_ONLY"}
States == {"WAITING_FOR_ACTUATOR_READY", "MOVING_TO_STANDBY", "READY",
  "FIRING", "ERROR"} \cup HomingStates \cup SlowFireStates
Operations == {"IDLE", "HOMING", "NORMAL_FIRE", "SLOW_FIRE",
  "BELT_CLEARANCE", "ERROR"}

VARIABLES
  m,          \* the motion: what the control timer plans and follows
  fb,         \* last ActuatorState message
  newFeedback,     \* it arrived since the last control period
  limitSw,         \* limit_sw_active_
  standby,         \* standby_offset_rad_
  eStop,           \* e_stop_active_
  resume,          \* resume_after_e_stop_
  holdPos,         \* e_stop_hold_pos_rad_
  fire, slowFire,  \* fire_req_ and slow_fire_req_: active and pending
  clearanceRequest,\* belt_clearance_request_active_
  zeroReply,       \* response of set_position not yet consumed
  zeroRequests,    \* set_position requests the driver has not answered
  command,         \* last target published on /edulite/target
  ready,           \* last value published on /spring/actuator_ready
  operation        \* last value published on /spring/operation_state

inputs == <<fb, newFeedback, limitSw, standby>>
requests == <<fire, slowFire, clearanceRequest>>
stop == <<eStop, resume, holdPos>>
zero == <<zeroReply, zeroRequests>>
outputs == <<command, ready, operation>>
vars == <<m, inputs, stop, requests, zero, outputs>>

None == "none"
Motion == [state : States, target : Int, stable : Nat, elapsed : Nat,
           clearing : BOOLEAN, returnPos : Int, clearPos : Int,
           slowReturn : Int, zeroPending : BOOLEAN]
Feedback == [state : {"OFFLINE", "INITIALIZING", "READY", "ERROR"},
             ref : BOOLEAN, pos : Int, stopped : BOOLEAN]
Request == [active : BOOLEAN, pending : BOOLEAN]

TypeOK ==
  /\ m \in Motion
  /\ fb \in Feedback
  /\ newFeedback \in BOOLEAN /\ limitSw \in BOOLEAN /\ standby \in Int
  /\ eStop \in BOOLEAN /\ resume \in BOOLEAN /\ holdPos \in Int
  /\ fire \in Request /\ slowFire \in Request
  /\ clearanceRequest \in BOOLEAN
  /\ zeroReply \in {None, "ok", "failed"}
  /\ zeroRequests \in 0..MaxZeroRequests
  /\ command \in Int \cup {NoCommand}
  /\ ready \in BOOLEAN
  /\ operation \in Operations \cup {None}

Init ==
  /\ m = [state |-> "WAITING_FOR_ACTUATOR_READY", target |-> 0, stable |-> 0,
          elapsed |-> 0, clearing |-> FALSE, returnPos |-> 0, clearPos |-> 0,
          slowReturn |-> 0, zeroPending |-> FALSE]
  /\ fb = [state |-> "OFFLINE", ref |-> FALSE, pos |-> 0, stopped |-> TRUE]
  /\ newFeedback = FALSE /\ limitSw = FALSE /\ standby = InitialStandby
  /\ eStop = TRUE /\ resume = FALSE /\ holdPos = 0
  /\ fire = [active |-> FALSE, pending |-> FALSE]
  /\ slowFire = [active |-> FALSE, pending |-> FALSE]
  /\ clearanceRequest = FALSE
  /\ zeroReply = None /\ zeroRequests = 0
  /\ command = NoCommand /\ ready = FALSE /\ operation = None
-----------------------------------------------------------------------------
(***************************************************************************)
(* Subscription callbacks.                                                 *)
(***************************************************************************)
\* A rising edge of a request topic leaves a request pending.
Edge(req, data) ==
  [active |-> data, pending |-> req.pending \/ (data /\ ~req.active)]

FireRequest == \E data \in FireRequests :
  /\ fire' = Edge(fire, data)
  /\ UNCHANGED <<m, inputs, stop, slowFire, clearanceRequest, zero, outputs>>

SlowFireRequest == \E data \in SlowFireRequests :
  /\ slowFire' = Edge(slowFire, data)
  /\ UNCHANGED <<m, inputs, stop, fire, clearanceRequest, zero, outputs>>

BeltClearanceRequest == \E data \in ClearanceRequests :
  /\ clearanceRequest' = data
  /\ UNCHANGED <<m, inputs, stop, fire, slowFire, zero, outputs>>

LimitSwitch == \E data \in BOOLEAN :
  /\ limitSw' = data
  /\ UNCHANGED <<m, fb, newFeedback, standby, stop, requests, zero, outputs>>

ActuatorState ==
  \E s \in FeedbackStates, r \in ReferenceReports, p \in Positions,
     v \in BOOLEAN :
    /\ fb' = [state |-> s, ref |-> r, pos |-> p, stopped |-> v]
    /\ newFeedback' = TRUE
    /\ UNCHANGED <<m, limitSw, standby, stop, requests, zero, outputs>>

\* Faulty variant: the held position of the previous stop is kept.
EmergencyStopOnStaleHold ==
  /\ TRUE \in EmergencyStops /\ ~eStop
  /\ m.state = "HOMING" => m.target >= LowestTarget
  /\ eStop' = TRUE /\ resume' = FALSE
  /\ m' = [m EXCEPT !.stable = 0]
  /\ command' = fb.pos /\ ready' = FALSE
  /\ UNCHANGED <<inputs, holdPos, requests, zero, operation>>

\* Engaging holds the reported position at once; releasing only arranges for
\* the next control period to restart its timers.  Before the first feedback
\* the position and the target are both 0, so actuator_pos_received_ adds
\* nothing to the choice of the held position.  Each release restarts the
\* homing timeout, so repeated stops let homing go on without end: the bound
\* LowestTarget ends it.
EmergencyStopOn ==
  /\ TRUE \in EmergencyStops /\ ~eStop
  /\ m.state = "HOMING" => m.target >= LowestTarget
  /\ eStop' = TRUE /\ resume' = FALSE
  /\ holdPos' = fb.pos
  /\ m' = [m EXCEPT !.stable = 0]
  /\ command' = fb.pos /\ ready' = FALSE
  /\ UNCHANGED <<inputs, requests, zero, operation>>

EmergencyStopOff ==
  /\ FALSE \in EmergencyStops /\ eStop
  /\ eStop' = FALSE /\ resume' = TRUE
  /\ UNCHANGED <<m, inputs, holdPos, requests, zero, outputs>>

\* Faulty variant: a response is accepted although none is awaited.
ZeroResponseUnmatched == \E answer \in {"ok", "failed"} :
  /\ zeroRequests' = zeroRequests - 1
  /\ zeroReply' = answer
  /\ m' = [m EXCEPT !.zeroPending = FALSE]
  /\ UNCHANGED <<inputs, stop, requests, outputs>>

\* The response of /edulite/set_position, delivered whenever the executor
\* gets to it: the request it answers may be from before a reconnection.
ZeroResponse == \E answer \in {"ok", "failed"} :
  /\ zeroRequests > 0
  /\ zeroRequests' = zeroRequests - 1
  /\ zeroReply' = answer
  /\ m' = [m EXCEPT !.zeroPending = FALSE]
  /\ UNCHANGED <<inputs, stop, requests, outputs>>

\* Faulty variant: the spring moves, but the controller stays READY.
ShiftedInPlace(value) ==
  LET back == m.returnPos + (value - standby)
      at == IF m.clearing THEN back - value ELSE m.target + (value - standby)
  IN [m EXCEPT !.target = at, !.stable = 0, !.elapsed = 0,
               !.returnPos = IF m.clearing THEN back ELSE @,
               !.clearPos = IF m.clearing THEN at ELSE @]

\* A live change of standby_offset_rad shifts the accumulated target, but only
\* in the two states in which the spring stands at, or moves to, that target.
Shifted(value) ==
  LET back == m.returnPos + (value - standby)
      at == IF m.clearing THEN back - value ELSE m.target + (value - standby)
  IN [m EXCEPT !.target = at, !.state = "MOVING_TO_STANDBY",
               !.stable = 0, !.elapsed = 0,
               !.returnPos = IF m.clearing THEN back ELSE @,
               !.clearPos = IF m.clearing THEN at ELSE @]

SetStandbyOffset == \E value \in StandbyOffsets \ {standby} :
  /\ standby' = value
  /\ IF m.state \in {"READY", "MOVING_TO_STANDBY"}
     THEN m' = Shifted(value) /\ command' = Shifted(value).target
     ELSE UNCHANGED <<m, command>>
  /\ UNCHANGED <<fb, newFeedback, limitSw, stop, requests, zero, ready,
                 operation>>
-----------------------------------------------------------------------------
(***************************************************************************)
(* The stages of control_timer_callback, as functions of the motion.       *)
(***************************************************************************)
Distance(a, b) == IF a < b THEN b - a ELSE a - b
Lower(a, b) == IF a < b THEN a ELSE b

Older(mo) == [mo EXCEPT !.elapsed = IF @ < TimeLimit THEN @ + 1 ELSE @]
Expired(mo, limit) == mo.elapsed >= limit

\* A motion entered now: its timer and its settling count start again.
Enter(mo, s, target) ==
  [mo EXCEPT !.state = s, !.target = target, !.stable = 0, !.elapsed = 0]

ErrorWithPositionHold(mo) ==
  [mo EXCEPT !.state = "ERROR", !.target = fb.pos, !.stable = 0]

\* The driver became READY: take its position as the target, and skip homing
\* when it still has its position reference.
Connected(mo) ==
  IF mo.state # "WAITING_FOR_ACTUATOR_READY" THEN mo
  ELSE [mo EXCEPT !.target = fb.pos, !.stable = 0,
                  !.state = IF fb.ref THEN "READY" ELSE "WAITING_FOR_HOMING"]

Resumed(mo) ==
  IF resume THEN [mo EXCEPT !.elapsed = 0, !.stable = 0] ELSE mo

\* The driver accepted the zero: go to the standby position, whatever the
\* state the response finds the controller in.
Zeroed(mo) ==
  IF zeroReply = "ok" THEN Enter(mo, "MOVING_TO_STANDBY", standby) ELSE mo

HomingStarted(mo) ==
  IF mo.state # "WAITING_FOR_HOMING" THEN mo
  ELSE [Enter(mo, "HOMING", fb.pos) EXCEPT !.zeroPending = FALSE]

StartBeltClearance(mo) ==
  LET at == mo.target - standby IN
  [Enter(mo, "MOVING_TO_STANDBY", at) EXCEPT
     !.clearing = TRUE, !.returnPos = mo.target, !.clearPos = at]

\* Faulty variant: the clearance target becomes the accumulated target.
FinishBeltClearanceInPlace(mo) ==
  [Enter(mo, "MOVING_TO_STANDBY", mo.target) EXCEPT !.clearing = FALSE]

FinishBeltClearance(mo) ==
  [Enter(mo, "MOVING_TO_STANDBY", mo.returnPos) EXCEPT !.clearing = FALSE]

\* Faulty variant: a clearance may start during a shot.
ClearanceFollowedAnytime(mo) ==
  IF ~clearanceRequest
  THEN IF mo.clearing THEN FinishBeltClearance(mo) ELSE mo
  ELSE IF ~mo.clearing /\ mo.state \notin HomingStates
       THEN [StartBeltClearance(mo) EXCEPT !.state = mo.state] ELSE mo

ClearanceFollowed(mo) ==
  IF ~clearanceRequest
  THEN IF mo.clearing THEN FinishBeltClearance(mo) ELSE mo
  ELSE IF ~mo.clearing /\ mo.state \in {"READY", "MOVING_TO_STANDBY"}
       THEN StartBeltClearance(mo) ELSE mo

\* Faulty variant: READY alone permits a shot.
MayFireWhileLent(mo) == mo.state = "READY"

MayFire(mo) == mo.state = "READY" /\ ~mo.clearing
Fires(mo) == MayFire(mo) /\ fire.pending
SlowFires(mo) == MayFire(mo) /\ ~fire.pending /\ slowFire.pending

FireStarted(mo) ==
  IF Fires(mo) THEN Enter(mo, "FIRING", mo.target + FireIncrement)
  ELSE IF SlowFires(mo) THEN Enter(mo, "SLOW_FIRE_WAITING", mo.target)
  ELSE mo
-----------------------------------------------------------------------------
(***************************************************************************)
(* The switch of control_timer_callback: one operator per group of states. *)
(***************************************************************************)
\* update_settled: consecutive new feedback at the target and stopped.
Settling(mo, there) == [mo EXCEPT !.stable = IF there THEN @ + 1 ELSE 0]
AtTarget(mo) == fb.stopped /\ Distance(fb.pos, mo.target) <= Tolerance
Stable(mo) == mo.stable >= RequiredStable

\* HOMING creeps towards the limit switch; WAITING_FOR_STOP counts stopped
\* feedback and then asks the driver to zero its position (request_zero_reference).
Homing(mo, serviceReady) ==
  IF Expired(mo, HomingTimeout) THEN ErrorWithPositionHold(mo)
  ELSE IF mo.state = "HOMING"
    THEN IF limitSw THEN [mo EXCEPT !.state = "WAITING_FOR_STOP", !.stable = 0]
                    ELSE [mo EXCEPT !.target = @ - HomingStep]
  ELSE IF newFeedback /\ limitSw /\ ~mo.zeroPending
    THEN LET next == Settling(mo, fb.stopped) IN
         IF Stable(next) /\ serviceReady /\ zeroRequests < MaxZeroRequests
         THEN [next EXCEPT !.zeroPending = TRUE] ELSE next
  ELSE mo

\* belt_clearance_reached: the spring has travelled far enough from the
\* position it will return to, in the direction of the clearance position.
ClearanceReached(mo) ==
  LET delta == mo.clearPos - mo.returnPos
      travel == IF delta < 0 THEN mo.returnPos - fb.pos
                             ELSE fb.pos - mo.returnPos
  IN /\ mo.clearing /\ mo.state = "MOVING_TO_STANDBY"
     /\ travel >= Lower(ReadyTravel, Distance(mo.clearPos, mo.returnPos))

\* Faulty variant: a motion without feedback never times out.
TravellingForever(mo) ==
  IF ~newFeedback THEN mo
  ELSE IF ClearanceReached(mo) THEN [mo EXCEPT !.state = "READY", !.stable = 0]
  ELSE LET next == Settling(mo, AtTarget(mo)) IN
       IF Stable(next) THEN [next EXCEPT !.state = "READY", !.stable = 0]
       ELSE next

Travelling(mo) ==
  IF Expired(mo, MotionTimeout) THEN ErrorWithPositionHold(mo)
  ELSE IF ~newFeedback THEN mo
  ELSE IF ClearanceReached(mo) THEN [mo EXCEPT !.state = "READY", !.stable = 0]
  ELSE LET next == Settling(mo, AtTarget(mo)) IN
       IF Stable(next) THEN [next EXCEPT !.state = "READY", !.stable = 0]
       ELSE next

SlowBase(mo) == mo.slowReturn - SlowRetract
SlowPeak(mo) == SlowBase(mo) + SlowStroke

\* Faulty variant: the return position is taken after the retraction.
SlowWaitingLateReturn(mo, move) ==
  IF ~Expired(mo, SlowDelay) THEN mo
  ELSE IF ~move THEN Enter(mo, "SLOW_FIRE_ARM_ONLY", mo.target)
  ELSE [Enter(mo, "SLOW_FIRE_RETRACTING", mo.target - SlowRetract) EXCEPT
          !.slowReturn = mo.target - SlowRetract]

SlowWaiting(mo, move) ==
  IF ~Expired(mo, SlowDelay) THEN mo
  ELSE IF ~move THEN Enter(mo, "SLOW_FIRE_ARM_ONLY", mo.target)
  ELSE [Enter(mo, "SLOW_FIRE_RETRACTING", mo.target - SlowRetract) EXCEPT
          !.slowReturn = mo.target]

SlowRetracting(mo) ==
  IF Expired(mo, MotionTimeout) THEN ErrorWithPositionHold(mo)
  ELSE IF ~newFeedback THEN mo
  ELSE LET next == Settling(mo, AtTarget(mo)) IN
       IF Stable(next) THEN Enter(next, "SLOW_FIRING_EXTENDING", SlowBase(mo))
       ELSE next

SlowArmOnly(mo) ==
  IF Expired(mo, ArmOnlyDuration) THEN [mo EXCEPT !.state = "READY"] ELSE mo

\* The target creeps to the peak by a step that depends on the forward speed
\* of the robot; then the spring must be seen there.
SlowExtending(mo, step) ==
  LET at == Lower(SlowPeak(mo), mo.target + step)
      next == Settling([mo EXCEPT !.target = at],
                fb.pos >= SlowPeak(mo) - Tolerance /\ at >= SlowPeak(mo))
  IN IF Expired(mo, SlowTimeout) THEN ErrorWithPositionHold(mo)
     ELSE IF ~newFeedback THEN [mo EXCEPT !.target = at]
     ELSE IF Stable(next) /\ next.stable > 0
       THEN Enter(next, "SLOW_FIRING_RETURNING", at)
     ELSE next

SlowReturning(mo) ==
  LET gap == mo.slowReturn - mo.target
      at == IF Distance(gap, 0) <= ReturnStep THEN mo.slowReturn
            ELSE IF gap > 0 THEN mo.target + ReturnStep
            ELSE mo.target - ReturnStep
      next == Settling([mo EXCEPT !.target = at],
                /\ Distance(fb.pos, mo.slowReturn) <= Tolerance
                /\ fb.stopped /\ at = mo.slowReturn)
  IN IF Expired(mo, SlowTimeout) THEN ErrorWithPositionHold(mo)
     ELSE IF ~newFeedback THEN [mo EXCEPT !.target = at]
     ELSE IF Stable(next) /\ next.stable > 0
       THEN [next EXCEPT !.state = "READY", !.stable = 0]
     ELSE next

Moved(mo, serviceReady, move, step) ==
  CASE mo.state \in HomingStates -> Homing(mo, serviceReady)
    [] mo.state \in {"MOVING_TO_STANDBY", "FIRING"} -> Travelling(mo)
    [] mo.state = "SLOW_FIRE_WAITING" -> SlowWaiting(mo, move)
    [] mo.state = "SLOW_FIRE_RETRACTING" -> SlowRetracting(mo)
    [] mo.state = "SLOW_FIRE_ARM_ONLY" -> SlowArmOnly(mo)
    [] mo.state = "SLOW_FIRING_EXTENDING" -> SlowExtending(mo, step)
    [] mo.state = "SLOW_FIRING_RETURNING" -> SlowReturning(mo)
    [] OTHER -> mo

\* Faulty variant: the clearance is announced while the spring still moves.
OperationOfEarly(mo) ==
  CASE mo.state \in HomingStates -> "HOMING"
    [] mo.state = "FIRING" -> "NORMAL_FIRE"
    [] mo.state \in SlowFireStates -> "SLOW_FIRE"
    [] mo.clearing -> "BELT_CLEARANCE"
    [] mo.state = "ERROR" -> "ERROR"
    [] OTHER -> "IDLE"

\* publish_operation_state
OperationOf(mo) ==
  CASE mo.state \in HomingStates -> "HOMING"
    [] mo.state = "FIRING" -> "NORMAL_FIRE"
    [] mo.state \in SlowFireStates -> "SLOW_FIRE"
    [] mo.state = "READY" /\ mo.clearing -> "BELT_CLEARANCE"
    [] mo.state = "ERROR" -> "ERROR"
    [] OTHER -> "IDLE"
-----------------------------------------------------------------------------
(***************************************************************************)
(* The control timer.  Every period consumes the feedback flag, publishes  *)
(* readiness and the operation state, and takes one of these alternatives. *)
(***************************************************************************)
Period(mo) ==
  /\ m' = mo /\ operation' = OperationOf(mo)
  /\ newFeedback' = FALSE
  /\ UNCHANGED <<limitSw, standby, eStop, clearanceRequest>>

DriverUp == fb.state = "READY"

\* The driver is not READY: forget the homing in progress.
TickActuatorDown ==
  /\ ~DriverUp
  /\ IF fb.state = "ERROR"
     THEN /\ Period([Older(m) EXCEPT !.state = "ERROR"])
          /\ UNCHANGED zeroReply
     ELSE /\ Period([Older(m) EXCEPT !.state = "WAITING_FOR_ACTUATOR_READY",
                                     !.zeroPending = FALSE])
          /\ zeroReply' = None
  /\ ready' = FALSE
  /\ UNCHANGED <<fb, resume, holdPos, fire, slowFire, zeroRequests, command>>

\* The controller's own ERROR lasts until the driver leaves READY.
TickErrorLatched ==
  /\ DriverUp /\ m.state = "ERROR"
  /\ Period(Older(m)) /\ ready' = FALSE
  /\ UNCHANGED <<fb, resume, holdPos, fire, slowFire, zero, command>>

\* The state in which the rest of a period starts, when the driver is READY.
Now == Connected(Older(m))
HoldPosNow == IF m.state = "WAITING_FOR_ACTUATOR_READY" THEN fb.pos ELSE holdPos
ReadyNow == fb.ref /\ Now.state = "READY" /\ ~Now.clearing /\ ~eStop
Rejected(req) == [req EXCEPT !.pending = FALSE]

\* Faulty variant: the planned target is sent instead of the held position.
TickStoppedAtTarget ==
  /\ DriverUp /\ m.state # "ERROR" /\ eStop
  /\ Period(Now) /\ ready' = ReadyNow
  /\ holdPos' = HoldPosNow /\ command' = Now.target
  /\ fire' = Rejected(fire) /\ slowFire' = Rejected(slowFire)
  /\ UNCHANGED <<fb, resume, zero>>

\* Emergency stop: hold, and reject the pending requests.
TickStopped ==
  /\ DriverUp /\ m.state # "ERROR" /\ eStop
  /\ Period(Now) /\ ready' = ReadyNow
  /\ holdPos' = HoldPosNow /\ command' = HoldPosNow
  /\ fire' = Rejected(fire) /\ slowFire' = Rejected(slowFire)
  /\ UNCHANGED <<fb, resume, zero>>

TickZeroFailed ==
  /\ DriverUp /\ m.state # "ERROR" /\ ~eStop /\ zeroReply = "failed"
  /\ Period(ErrorWithPositionHold(Resumed(Now))) /\ ready' = ReadyNow
  /\ resume' = FALSE /\ holdPos' = HoldPosNow /\ command' = fb.pos
  /\ zeroReply' = None
  /\ UNCHANGED <<fb, fire, slowFire, zeroRequests>>

Planned == ClearanceFollowed(HomingStarted(Zeroed(Resumed(Now))))

\* The service is ready or not, the mode of the slow fire is what the parameter
\* says now, and the forward speed decides the step of its extension.
Run(serviceReady, move, step) ==
  LET started == FireStarted(Planned)
      moved == Moved(started, serviceReady, move, step)
  IN /\ Period(moved) /\ command' = moved.target
     /\ zeroRequests' = IF moved.zeroPending /\ ~started.zeroPending
                        THEN zeroRequests + 1 ELSE zeroRequests

TickRun ==
  /\ DriverUp /\ m.state # "ERROR" /\ ~eStop /\ zeroReply # "failed"
  /\ \E serviceReady \in BOOLEAN, move \in MoveSpring, step \in ExtensionSteps :
       Run(serviceReady, move, step)
  /\ ready' = ReadyNow /\ resume' = FALSE /\ holdPos' = HoldPosNow
  /\ fb' = [fb EXCEPT !.ref = @ \/ zeroReply = "ok"]
  /\ zeroReply' = None
  /\ fire' = IF Fires(Planned) THEN Rejected(fire) ELSE fire
  /\ slowFire' = IF SlowFires(Planned) THEN Rejected(slowFire) ELSE slowFire

Tick == \/ TickActuatorDown \/ TickErrorLatched \/ TickStopped
        \/ TickZeroFailed \/ TickRun

Inputs == \/ FireRequest \/ SlowFireRequest \/ BeltClearanceRequest
          \/ LimitSwitch \/ ActuatorState
          \/ EmergencyStopOn \/ EmergencyStopOff
          \/ ZeroResponse \/ SetStandbyOffset

Next == Tick \/ Inputs
Spec == Init /\ [][Next]_vars
-----------------------------------------------------------------------------
(***************************************************************************)
(* Properties.                                                             *)
(***************************************************************************)
FiringStates == {"FIRING"} \cup SlowFireStates

\* The spring is never in a shot of its own while it is lent to the belt: a
\* clearance starts only between shots, and no shot starts before it is over,
\* through reconnections and emergency stops.
FiringExcludesClearance == m.state \in FiringStates => ~m.clearing

\* While the emergency stop is engaged, whatever was last sent to the motor is
\* the held position: neither the plan being followed, nor a reconnection, nor
\* an error sends another target.
HoldsDuringEmergencyStop == eStop /\ command # NoCommand => command = holdPos

\* Every plan preserves the phase of the standby position: shots, slow shots
\* and clearances come back to standby_offset_rad plus whole fire increments.
OnPhase(x) == (x - standby) % (-FireIncrement) = 0
StandbyPhase ==
  m.state \in {"MOVING_TO_STANDBY", "READY", "FIRING", "SLOW_FIRE_WAITING",
               "SLOW_FIRE_ARM_ONLY"}
    => OnPhase(IF m.clearing THEN m.returnPos ELSE m.target)

\* BELT_CLEARANCE is announced only by a period that saw the spring retracted:
\* far enough from the position it left, or settled at the clearance position.
Retracted ==
  \/ Distance(fb.pos, m'.clearPos) <= Tolerance
  \/ LET needed == Lower(ReadyTravel, Distance(m'.clearPos, m'.returnPos))
     IN IF m'.clearPos < m'.returnPos
        THEN m'.returnPos - fb.pos >= needed
        ELSE fb.pos - m'.returnPos >= needed
AnnouncesOnlyRetracted ==
  [][operation' = "BELT_CLEARANCE" /\ operation # "BELT_CLEARANCE"
       => Retracted]_vars

\* Homing and every motion end, in READY or in ERROR, once the driver stays
\* READY and the emergency stop stays released: no timer is restarted forever.
FairSpec == Spec /\ WF_vars(Tick)
MotionEnds ==
  <>[](~eStop /\ DriverUp) => []<>(m.state \in {"READY", "ERROR"})
=============================================================================
