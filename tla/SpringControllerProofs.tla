---------------------- MODULE SpringControllerProofs ----------------------
(***************************************************************************)
(* Theorems about the spring controller, for every value of its constants: *)
(* its types, that a shot and a belt clearance exclude each other, that    *)
(* the emergency stop holds the spring and every plan keeps the phase of   *)
(* the standby position when standby_offset_rad is not changed at run      *)
(* time, and that a clearance is announced only with the spring retracted. *)
(***************************************************************************)
EXTENDS SpringController, TLAPS

USE DEF States, HomingStates, SlowFireStates, Operations, None

\* What every stage of a control period preserves, besides the type.
Exclusive(mo) == mo.state \in FiringStates => ~mo.clearing
Sound(mo) == mo \in Motion /\ Exclusive(mo)

\* Entering a state that is not a firing state, or entering one outside a
\* clearance, is sound.
LEMMA EnterSound ==
  ASSUME NEW mo \in Motion, NEW s \in States, NEW target \in Int,
         s \in FiringStates => ~mo.clearing
  PROVE  Sound(Enter(mo, s, target)) /\ Enter(mo, s, target).clearing = mo.clearing
BY DEF Enter, Sound, Exclusive, Motion, FiringStates

\* A position hold is sound from any motion: ERROR is not a firing state.
LEMMA ErrorSound ==
  ASSUME TypeOK, NEW mo \in Motion
  PROVE  Sound(ErrorWithPositionHold(mo))
BY DEF TypeOK, Feedback, ErrorWithPositionHold, Sound, Exclusive, Motion, FiringStates

\* Counting the elapsed time changes nothing else.
LEMMA OlderSound ==
  ASSUME NEW mo, Sound(mo)
  PROVE  Sound(Older(mo))
BY DEF Older, Sound, Exclusive, Motion, FiringStates

LEMMA ConnectedSound ==
  ASSUME TypeOK, NEW mo, Sound(mo)
  PROVE  Sound(Connected(mo))
BY DEF TypeOK, Feedback, Connected, Sound, Exclusive, Motion, FiringStates

LEMMA ResumedSound ==
  ASSUME TypeOK, NEW mo, Sound(mo)
  PROVE  Sound(Resumed(mo))
BY DEF TypeOK, Resumed, Sound, Exclusive, Motion, FiringStates

LEMMA ZeroedSound ==
  ASSUME TypeOK, NEW mo, Sound(mo)
  PROVE  Sound(Zeroed(mo))
BY EnterSound DEF TypeOK, Zeroed, Sound, FiringStates

LEMMA HomingStartedSound ==
  ASSUME TypeOK, NEW mo, Sound(mo)
  PROVE  Sound(HomingStarted(mo))
BY DEF TypeOK, Feedback, HomingStarted, Enter, Sound, Exclusive, Motion, FiringStates

\* Starting and finishing a clearance both enter MOVING_TO_STANDBY.
LEMMA ClearanceSound ==
  ASSUME TypeOK, NEW mo, Sound(mo)
  PROVE  Sound(ClearanceFollowed(mo))
<1>1. Sound(StartBeltClearance(mo))
  <2> DEFINE at == mo.target - standby
             entered == Enter(mo, "MOVING_TO_STANDBY", at)
  <2>1. mo \in Motion /\ mo.target \in Int /\ at \in Int
    BY DEF TypeOK, Sound, Motion
  <2>2. entered \in Motion /\ entered.state = "MOVING_TO_STANDBY"
    BY <2>1 DEF Enter, Motion
  <2> HIDE DEF at, entered
  <2>3. [entered EXCEPT !.clearing = TRUE, !.returnPos = mo.target,
                        !.clearPos = at] \in Motion
    BY <2>1, <2>2 DEF Motion
  <2>4. [entered EXCEPT !.clearing = TRUE, !.returnPos = mo.target,
                        !.clearPos = at].state = "MOVING_TO_STANDBY"
    BY <2>2 DEF Motion
  <2> QED BY <2>3, <2>4 DEF StartBeltClearance, Sound, Exclusive, FiringStates, at, entered
<1>2. Sound(FinishBeltClearance(mo))
  BY DEF TypeOK, FinishBeltClearance, Enter, Sound, Exclusive, Motion, FiringStates
<1> QED BY <1>1, <1>2 DEF ClearanceFollowed

\* A shot starts only from READY outside a clearance.
LEMMA FireStartedSound ==
  ASSUME TypeOK, NEW mo, Sound(mo)
  PROVE  Sound(FireStarted(mo))
<1>1. mo \in Motion /\ mo.target \in Int /\ mo.target + FireIncrement \in Int
  BY PositionAssumption DEF Sound, Motion
<1>2. CASE Fires(mo)
  BY <1>1, <1>2, EnterSound DEF FireStarted, Fires, MayFire
<1>3. CASE ~Fires(mo) /\ SlowFires(mo)
  BY <1>1, <1>3, EnterSound DEF FireStarted, SlowFires, MayFire
<1> QED BY <1>2, <1>3 DEF FireStarted

-----------------------------------------------------------------------------
(***************************************************************************)
(* The stages of the switch.  They keep the clearance flag, and the only   *)
(* firing states they enter follow another firing state.                   *)
(***************************************************************************)
LEMMA SettlingSound ==
  ASSUME NEW mo, Sound(mo), NEW there
  PROVE  Sound(Settling(mo, there))
BY DEF Settling, Sound, Exclusive, Motion, FiringStates

LEMMA HomingSound ==
  ASSUME TypeOK, NEW mo, Sound(mo), mo.state \in HomingStates,
         NEW serviceReady \in BOOLEAN
  PROVE  Sound(Homing(mo, serviceReady))
<1>1. Sound(ErrorWithPositionHold(mo))
  BY ErrorSound DEF Sound
<1>2. Sound([mo EXCEPT !.state = "WAITING_FOR_STOP", !.stable = 0])
  BY DEF Sound, Exclusive, Motion, FiringStates
<1>3. Sound([mo EXCEPT !.target = @ - HomingStep])
  <2>1. mo.target - HomingStep \in Int
    BY PositionAssumption DEF Sound, Motion
  <2> QED BY <2>1 DEF Sound, Exclusive, Motion, FiringStates
<1>4. LET next == Settling(mo, fb.stopped) IN
        Sound(next) /\ Sound([next EXCEPT !.zeroPending = TRUE])
  <2> DEFINE next == Settling(mo, fb.stopped)
  <2>1. Sound(next) BY SettlingSound
  <2> HIDE DEF next
  <2>2. Sound([next EXCEPT !.zeroPending = TRUE])
    BY <2>1 DEF Sound, Exclusive, Motion, FiringStates
  <2> QED BY <2>1, <2>2 DEF next
<1> QED BY <1>1, <1>2, <1>3, <1>4 DEF Homing

\* READY is not a firing state, so the end of a motion is sound.
LEMMA ReadySound ==
  ASSUME NEW mo, Sound(mo)
  PROVE  Sound([mo EXCEPT !.state = "READY", !.stable = 0])
BY DEF Sound, Exclusive, Motion, FiringStates

LEMMA TravellingSound ==
  ASSUME TypeOK, NEW mo, Sound(mo)
  PROVE  Sound(Travelling(mo))
<1>1. Sound(ErrorWithPositionHold(mo))
  BY ErrorSound DEF Sound
<1>2. Sound(Settling(mo, AtTarget(mo)))
  BY SettlingSound
<1> QED BY <1>1, <1>2, ReadySound DEF Travelling

\* A slow fire stays outside a clearance from its first phase to its last.
LEMMA SlowFireSound ==
  ASSUME TypeOK, NEW mo, Sound(mo), mo.state \in SlowFireStates,
         NEW move \in BOOLEAN, NEW step \in Int
  PROVE  /\ Sound(SlowWaiting(mo, move))
         /\ Sound(SlowRetracting(mo))
         /\ Sound(SlowArmOnly(mo))
         /\ Sound(SlowExtending(mo, step))
         /\ Sound(SlowReturning(mo))
<1>1. /\ mo \in Motion /\ ~mo.clearing
      /\ mo.target \in Int /\ mo.slowReturn \in Int
  BY DEF Sound, Exclusive, Motion, FiringStates
<1>2. Sound(ErrorWithPositionHold(mo))
  BY <1>1, ErrorSound
<1>3. SlowBase(mo) \in Int /\ SlowPeak(mo) \in Int
  BY <1>1, PositionAssumption DEF SlowBase, SlowPeak
<1>4. ASSUME NEW s \in States, NEW at \in Int, NEW there
      PROVE  LET next == Settling([mo EXCEPT !.target = at], there) IN
             /\ Sound([mo EXCEPT !.target = at])
             /\ Sound(next)
             /\ Sound(Enter(next, s, at))
             /\ Sound([next EXCEPT !.state = "READY", !.stable = 0])
  <2> DEFINE aimed == [mo EXCEPT !.target = at]
             next == Settling(aimed, there)
  <2>1. Sound(aimed) /\ ~aimed.clearing
    BY <1>1 DEF Sound, Exclusive, Motion
  <2> HIDE DEF aimed
  <2>2. Sound(next) /\ ~next.clearing
    BY <2>1 DEF Settling, Sound, Exclusive, Motion, FiringStates
  <2> HIDE DEF next
  <2>3. Sound(Enter(next, s, at))
    BY <2>2, EnterSound DEF Sound
  <2>4. Sound([next EXCEPT !.state = "READY", !.stable = 0])
    BY <2>2, ReadySound
  <2> QED BY <2>1, <2>2, <2>3, <2>4 DEF next, aimed
<1>5. Sound(SlowWaiting(mo, move))
  <2>1. mo.target - SlowRetract \in Int
    BY <1>1, PositionAssumption
  <2> DEFINE entered == Enter(mo, "SLOW_FIRE_RETRACTING", mo.target - SlowRetract)
  <2>2. Sound(entered) /\ ~entered.clearing
    BY <1>1, <2>1, EnterSound
  <2>3. Sound(Enter(mo, "SLOW_FIRE_ARM_ONLY", mo.target))
    BY <1>1, EnterSound
  <2> HIDE DEF entered
  <2>4. Sound([entered EXCEPT !.slowReturn = mo.target])
    BY <1>1, <2>2 DEF Sound, Exclusive, Motion, FiringStates
  <2> QED BY <2>3, <2>4 DEF SlowWaiting, entered
<1>6. Sound(SlowRetracting(mo))
  <2> DEFINE next == Settling(mo, AtTarget(mo))
  <2>1. Sound(next) /\ ~next.clearing
    BY <1>1 DEF Settling, Sound, Exclusive, Motion, FiringStates
  <2> HIDE DEF next
  <2>2. Sound(Enter(next, "SLOW_FIRING_EXTENDING", SlowBase(mo)))
    BY <1>3, <2>1, EnterSound DEF Sound
  <2> QED BY <1>2, <2>1, <2>2 DEF SlowRetracting, next
<1>7. Sound(SlowArmOnly(mo))
  BY DEF SlowArmOnly, Sound, Exclusive, Motion, FiringStates
<1>8. Sound(SlowExtending(mo, step))
  <2> DEFINE at == Lower(SlowPeak(mo), mo.target + step)
  <2>1. at \in Int
    BY <1>1, <1>3 DEF Lower
  <2> HIDE DEF at
  <2> QED BY <1>2, <1>4, <2>1 DEF SlowExtending, at
<1>9. Sound(SlowReturning(mo))
  <2> DEFINE gap == mo.slowReturn - mo.target
             at == IF Distance(gap, 0) <= ReturnStep THEN mo.slowReturn
                   ELSE IF gap > 0 THEN mo.target + ReturnStep
                   ELSE mo.target - ReturnStep
  <2>1. at \in Int
    BY <1>1, PositionAssumption
  <2> HIDE DEF at
  <2> QED BY <1>2, <1>4, <2>1 DEF SlowReturning, at
<1> QED BY <1>5, <1>6, <1>7, <1>8, <1>9

LEMMA MovedSound ==
  ASSUME TypeOK, NEW mo, Sound(mo), NEW serviceReady \in BOOLEAN,
         NEW move \in BOOLEAN, NEW step \in Int
  PROVE  Sound(Moved(mo, serviceReady, move, step))
<1>1. CASE mo.state \in HomingStates
  BY <1>1, HomingSound DEF Moved
<1>2. CASE mo.state \in {"MOVING_TO_STANDBY", "FIRING"}
  BY <1>2, TravellingSound DEF Moved
<1>3. CASE mo.state \in SlowFireStates
  BY <1>3, SlowFireSound DEF Moved
<1>4. CASE mo.state \notin HomingStates \cup SlowFireStates
                         \cup {"MOVING_TO_STANDBY", "FIRING"}
  BY <1>4 DEF Moved
<1> QED BY <1>1, <1>2, <1>3, <1>4

\* A period asks for a zero only while the bound on unanswered requests allows.
LEMMA ZeroRequestBounded ==
  ASSUME NEW mo, Sound(mo), NEW serviceReady, NEW move, NEW step,
         ~mo.zeroPending, Moved(mo, serviceReady, move, step).zeroPending
  PROVE  zeroRequests < MaxZeroRequests
<1> USE DEF Sound, Motion
<1>1. CASE mo.state \in HomingStates
  BY <1>1 DEF Moved, Homing, ErrorWithPositionHold, Settling
<1>2. CASE mo.state \in {"MOVING_TO_STANDBY", "FIRING"}
  BY <1>2 DEF Moved, Travelling, ErrorWithPositionHold, Settling
<1>3. CASE mo.state \in SlowFireStates
  BY <1>3 DEF Moved, SlowWaiting, SlowRetracting, SlowArmOnly, SlowExtending,
              SlowReturning, Enter, ErrorWithPositionHold, Settling
<1>4. CASE mo.state \notin HomingStates \cup SlowFireStates
                         \cup {"MOVING_TO_STANDBY", "FIRING"}
  BY <1>4 DEF Moved
<1> QED BY <1>1, <1>2, <1>3, <1>4

-----------------------------------------------------------------------------
(***************************************************************************)
(* The control timer, then every action.                                   *)
(***************************************************************************)
IInv == TypeOK /\ Exclusive(m)

LEMMA PlannedSound ==
  ASSUME IInv
  PROVE  /\ Sound(Older(m)) /\ Sound(Now) /\ Sound(Resumed(Now))
         /\ Sound(Planned) /\ Sound(FireStarted(Planned))
<1>1. TypeOK /\ Sound(m)
  BY DEF IInv, TypeOK, Sound
<1>2. Sound(Older(m))
  BY <1>1, OlderSound
<1>3. Sound(Now)
  BY <1>1, <1>2, ConnectedSound DEF Now
<1>4. Sound(Resumed(Now))
  BY <1>1, <1>3, ResumedSound
<1>5. Sound(Planned)
  <2>1. Sound(Zeroed(Resumed(Now)))
    BY <1>1, <1>4, ZeroedSound
  <2>2. Sound(HomingStarted(Zeroed(Resumed(Now))))
    BY <1>1, <2>1, HomingStartedSound
  <2> QED BY <1>1, <2>2, ClearanceSound DEF Planned
<1>6. Sound(FireStarted(Planned))
  BY <1>1, <1>5, FireStartedSound
<1> QED BY <1>2, <1>3, <1>4, <1>5, <1>6

LEMMA OperationType ==
  ASSUME NEW mo
  PROVE  OperationOf(mo) \in Operations
BY DEF OperationOf

LEMMA HoldPosType ==
  ASSUME TypeOK
  PROVE  HoldPosNow \in Int /\ fb.pos \in Int
BY DEF TypeOK, HoldPosNow, Feedback

LEMMA ReadyType == ReadyNow \in BOOLEAN
BY DEF ReadyNow

\* Every alternative of the control timer preserves the types and the
\* exclusion.
LEMMA TickInv ==
  ASSUME IInv, Tick
  PROVE  IInv'
<1> USE DEF IInv
<1>0. TypeOK /\ Sound(m)
  BY DEF TypeOK, Sound
<1>1. CASE TickActuatorDown
  <2>1. \A s \in {"ERROR", "WAITING_FOR_ACTUATOR_READY"} :
          /\ Sound([Older(m) EXCEPT !.state = s])
          /\ Sound([Older(m) EXCEPT !.state = s, !.zeroPending = FALSE])
    BY PlannedSound DEF Sound, Exclusive, Motion, FiringStates
  <2>2. Sound(m') /\ operation' \in Operations
    BY <1>1, <2>1, OperationType DEF TickActuatorDown, Period
  <2> QED BY <1>0, <1>1, <2>2 DEF TickActuatorDown, Period, TypeOK, Sound
<1>2. CASE TickErrorLatched
  <2>1. Sound(m') /\ operation' \in Operations
    BY <1>2, PlannedSound, OperationType DEF TickErrorLatched, Period
  <2> QED BY <1>0, <1>2, <2>1 DEF TickErrorLatched, Period, TypeOK, Sound, zero
<1>3. CASE TickStopped
  <2>1. Sound(m') /\ operation' \in Operations
    BY <1>3, PlannedSound, OperationType DEF TickStopped, Period
  <2>2. fire' \in Request /\ slowFire' \in Request
    BY <1>0, <1>3 DEF TickStopped, TypeOK, Request, Rejected
  <2> QED BY <1>0, <1>3, <2>1, <2>2, HoldPosType, ReadyType
          DEF TickStopped, Period, TypeOK, Sound, zero
<1>4. CASE TickZeroFailed
  <2>1. Sound(m') /\ operation' \in Operations
    BY <1>0, <1>4, PlannedSound, ErrorSound, OperationType
    DEF TickZeroFailed, Period, Sound
  <2> QED BY <1>0, <1>4, <2>1, HoldPosType, ReadyType
          DEF TickZeroFailed, Period, TypeOK, Sound
<1>5. CASE TickRun
  <2>1. PICK serviceReady \in BOOLEAN, move \in MoveSpring,
             step \in ExtensionSteps : Run(serviceReady, move, step)
    BY <1>5 DEF TickRun
  <2> DEFINE started == FireStarted(Planned)
             moved == Moved(started, serviceReady, move, step)
  <2>2. move \in BOOLEAN /\ step \in Int
    BY InputAssumption, PositionAssumption
  <2>3. Sound(started)
    BY PlannedSound
  <2>4. Sound(moved)
    BY <1>0, <2>2, <2>3, MovedSound
  <2> HIDE DEF started, moved
  <2>5. /\ m' = moved /\ operation' = OperationOf(moved)
        /\ command' = moved.target /\ newFeedback' = FALSE
        /\ UNCHANGED <<limitSw, standby, eStop, clearanceRequest>>
    BY <2>1 DEF Run, Period, started, moved
  <2>6. Sound(m') /\ operation' \in Operations /\ command' \in Int
    BY <2>4, <2>5, OperationType DEF Sound, Motion
  <2>7. zeroRequests' \in 0..MaxZeroRequests
    <3>1. moved.zeroPending /\ ~started.zeroPending => zeroRequests < MaxZeroRequests
      BY <2>3, ZeroRequestBounded DEF moved
    <3> QED BY <1>0, <2>1, <3>1, TimingAssumption DEF Run, TypeOK, started, moved
  <2>8. fire' \in Request /\ slowFire' \in Request
    BY <1>0, <1>5 DEF TickRun, TypeOK, Request, Rejected
  <2>9. fb' \in Feedback
    BY <1>0, <1>5 DEF TickRun, TypeOK, Feedback
  <2> QED BY <1>0, <1>5, <2>5, <2>6, <2>7, <2>8, <2>9, HoldPosType, ReadyType
          DEF TickRun, TypeOK, Sound
<1> QED BY <1>1, <1>2, <1>3, <1>4, <1>5 DEF Tick

\* The callbacks preserve them too; only four of them touch the motion.
LEMMA InputsInv ==
  ASSUME IInv, Inputs
  PROVE  IInv'
<1> USE DEF IInv
<1>1. CASE FireRequest
  BY <1>1, InputAssumption
  DEF FireRequest, Edge, TypeOK, Request, Exclusive, inputs, stop, zero, outputs
<1>2. CASE SlowFireRequest
  BY <1>2, InputAssumption
  DEF SlowFireRequest, Edge, TypeOK, Request, Exclusive, inputs, stop, zero, outputs
<1>3. CASE BeltClearanceRequest
  BY <1>3, InputAssumption
  DEF BeltClearanceRequest, TypeOK, Exclusive, inputs, stop, zero, outputs
<1>4. CASE LimitSwitch
  BY <1>4 DEF LimitSwitch, TypeOK, Exclusive, stop, requests, zero, outputs
<1>5. CASE ActuatorState
  <2>1. fb' \in Feedback /\ newFeedback' = TRUE
    BY <1>5, InputAssumption, PositionAssumption DEF ActuatorState, Feedback
  <2> QED BY <1>5, <2>1
          DEF ActuatorState, TypeOK, Exclusive, stop, requests, zero, outputs
<1>6. CASE EmergencyStopOn
  <2>1. m' \in Motion /\ Exclusive(m')
    BY <1>6 DEF EmergencyStopOn, TypeOK, Exclusive, Motion
  <2>2. fb.pos \in Int
    BY HoldPosType
  <2> QED BY <1>6, <2>1, <2>2
          DEF EmergencyStopOn, TypeOK, Exclusive, inputs, requests, zero
<1>7. CASE EmergencyStopOff
  BY <1>7 DEF EmergencyStopOff, TypeOK, Exclusive, inputs, requests, zero, outputs
<1>8. CASE ZeroResponse
  <2>1. m' \in Motion /\ Exclusive(m')
    BY <1>8 DEF ZeroResponse, TypeOK, Exclusive, Motion
  <2>2. zeroRequests' \in 0..MaxZeroRequests
    BY <1>8, TimingAssumption DEF ZeroResponse, TypeOK
  <2> QED BY <1>8, <2>1, <2>2
          DEF ZeroResponse, TypeOK, Exclusive, inputs, stop, requests, outputs
<1>9. CASE SetStandbyOffset
  <2>1. PICK value \in StandbyOffsets \ {standby} :
          /\ standby' = value
          /\ IF m.state \in {"READY", "MOVING_TO_STANDBY"}
             THEN /\ m' = Shifted(value)
                  /\ command' = Shifted(value).target
             ELSE UNCHANGED <<m, command>>
    BY <1>9 DEF SetStandbyOffset
  <2>2. value \in Int
    BY PositionAssumption
  <2>3. Shifted(value) \in Motion /\ Exclusive(Shifted(value))
    <3> DEFINE back == m.returnPos + (value - standby)
               at == IF m.clearing THEN back - value
                                   ELSE m.target + (value - standby)
    <3>1. back \in Int /\ at \in Int /\ m \in Motion
      BY <2>2 DEF TypeOK, Motion
    <3> HIDE DEF back, at
    <3> QED BY <3>1 DEF Shifted, Motion, Exclusive, FiringStates, back, at
  <2>4. m' \in Motion /\ Exclusive(m') /\ command' \in Int \cup {NoCommand}
    BY <2>1, <2>3 DEF TypeOK, Exclusive, Motion
  <2> QED BY <1>9, <2>1, <2>2, <2>4
          DEF SetStandbyOffset, TypeOK, stop, requests, zero
<1> QED BY <1>1, <1>2, <1>3, <1>4, <1>5, <1>6, <1>7, <1>8, <1>9 DEF Inputs

LEMMA InitInv == Init => IInv
<1> SUFFICES ASSUME Init PROVE IInv
  OBVIOUS
<1>1. zeroRequests \in 0..MaxZeroRequests /\ standby \in Int
  BY PositionAssumption, TimingAssumption DEF Init
<1>2. m \in Motion /\ Exclusive(m)
  BY DEF Init, Motion, Exclusive, FiringStates
<1>3. fb \in Feedback /\ fire \in Request /\ slowFire \in Request
  BY DEF Init, Feedback, Request
<1>4. /\ newFeedback \in BOOLEAN /\ limitSw \in BOOLEAN /\ eStop \in BOOLEAN
      /\ resume \in BOOLEAN /\ clearanceRequest \in BOOLEAN
      /\ ready \in BOOLEAN
  BY DEF Init
<1>5. zeroReply = None /\ operation = None /\ command = NoCommand /\ holdPos = 0
  BY DEF Init
<1> QED BY <1>1, <1>2, <1>3, <1>4, <1>5 DEF IInv, TypeOK

LEMMA StepInv == IInv /\ [Next]_vars => IInv'
<1>1. IInv /\ Next => IInv'
  BY TickInv, InputsInv DEF Next
<1>2. IInv /\ UNCHANGED vars => IInv'
  BY DEF IInv, TypeOK, Exclusive, vars, inputs, stop, requests, zero, outputs
<1> QED BY <1>1, <1>2

\* The invariant of every behaviour of the controller.
THEOREM Invariance == Spec => []IInv
BY InitInv, StepInv, PTL DEF Spec

\* Every variable keeps its type, whatever the callbacks and their order.
THEOREM TypeCorrect == Spec => []TypeOK
<1>1. IInv => TypeOK BY DEF IInv
<1> QED BY <1>1, Invariance, PTL

\* A shot of the spring and a clearance lent to the belt exclude each other.
THEOREM ShotExcludesClearance == Spec => []FiringExcludesClearance
<1>1. IInv => FiringExcludesClearance
  BY DEF IInv, Exclusive, FiringExcludesClearance
<1> QED BY <1>1, Invariance, PTL
-----------------------------------------------------------------------------
(***************************************************************************)
(* The emergency stop holds, if the offset is never changed at run time.   *)
(***************************************************************************)
HoldInv == IInv /\ standby = InitialStandby /\ HoldsDuringEmergencyStop

LEMMA HoldStep ==
  ASSUME StandbyOffsets \subseteq {InitialStandby}, HoldInv, [Next]_vars
  PROVE  HoldInv'
<1> USE DEF HoldInv, HoldsDuringEmergencyStop
<1>0. IInv'
  BY StepInv
<1>1. CASE Tick
  BY <1>0, <1>1 DEF Tick, TickActuatorDown, TickErrorLatched, TickStopped,
                    TickZeroFailed, TickRun, Period, Run
<1>2. CASE Inputs
  <2>1. ~SetStandbyOffset
    BY DEF SetStandbyOffset
  <2>2. CASE EmergencyStopOn
    BY <1>0, <2>2 DEF EmergencyStopOn, inputs
  <2>3. CASE EmergencyStopOff
    BY <1>0, <2>3 DEF EmergencyStopOff, inputs
  <2>4. CASE FireRequest \/ SlowFireRequest \/ BeltClearanceRequest
    BY <1>0, <2>4 DEF FireRequest, SlowFireRequest, BeltClearanceRequest,
                      inputs, stop, outputs
  <2>5. CASE LimitSwitch \/ ActuatorState
    BY <1>0, <2>5 DEF LimitSwitch, ActuatorState, stop, outputs
  <2>6. CASE ZeroResponse
    BY <1>0, <2>6 DEF ZeroResponse, inputs, stop, outputs
  <2> QED BY <1>2, <2>1, <2>2, <2>3, <2>4, <2>5, <2>6 DEF Inputs
<1>3. CASE UNCHANGED vars
  BY <1>0, <1>3 DEF vars, inputs, stop, outputs
<1> QED BY <1>1, <1>2, <1>3 DEF Next

\* While the emergency stop is engaged the last command is the held position.
THEOREM EmergencyStopHolds ==
  ASSUME StandbyOffsets \subseteq {InitialStandby}
  PROVE  Spec => []HoldsDuringEmergencyStop
<1>1. Init => HoldInv
  BY InitInv DEF Init, HoldInv, HoldsDuringEmergencyStop
<1>2. HoldInv /\ [Next]_vars => HoldInv'
  BY HoldStep
<1>3. HoldInv => HoldsDuringEmergencyStop
  BY DEF HoldInv
<1> QED BY <1>1, <1>2, <1>3, PTL DEF Spec
-----------------------------------------------------------------------------
(***************************************************************************)
(* The phase of the standby position.  It is kept by a plan, not by a      *)
(* state: a clearance keeps it in the position it returns to, a slow fire  *)
(* in the position its phases return to, every other plan in its target.   *)
(***************************************************************************)
PhaseStates == {"MOVING_TO_STANDBY", "READY", "FIRING", "SLOW_FIRE_WAITING",
                "SLOW_FIRE_ARM_ONLY"}
SlowMotions == {"SLOW_FIRE_RETRACTING", "SLOW_FIRING_EXTENDING",
                "SLOW_FIRING_RETURNING"}

Phased(mo) ==
  /\ mo.state \in PhaseStates /\ ~mo.clearing => OnPhase(mo.target)
  /\ mo.clearing => OnPhase(mo.returnPos)
  /\ mo.state \in SlowMotions => OnPhase(mo.slowReturn)

\* The standby position is on the phase, and a shot advances by one turn of it.
LEMMA PhaseArithmetic ==
  ASSUME TypeOK, FireIncrement < 0
  PROVE  /\ OnPhase(standby)
         /\ \A x \in Int : OnPhase(x) => OnPhase(x + FireIncrement)
<1> DEFINE p == -FireIncrement
<1>1. p \in Int /\ p > 0 /\ standby \in Int
  BY PositionAssumption DEF TypeOK
<1> HIDE DEF p
<1>2. ASSUME NEW y \in Int, y % p = 0
      PROVE  (y - p) % p = 0
  <2>1. PICK k \in Int : y = p * k
    BY <1>1, <1>2
  <2>2. (p * (k - 1)) % p = 0
    BY <1>1
  <2>3. p * (k - 1) = y - p
    BY <1>1, <2>1
  <2> QED BY <2>2, <2>3
<1>3. OnPhase(standby)
  <2>1. 0 % p = 0 /\ standby - standby = 0
    BY <1>1
  <2> QED BY <2>1 DEF OnPhase, p
<1>4. ASSUME NEW x \in Int, OnPhase(x)
      PROVE  OnPhase(x + FireIncrement)
  <2>1. (x - standby) % p = 0 /\ x - standby \in Int
    BY <1>1, <1>4 DEF OnPhase, p
  <2>2. ((x - standby) - p) % p = 0
    BY <1>2, <2>1
  <2>3. (x + FireIncrement) - standby = (x - standby) - p
    BY <1>1, PositionAssumption DEF p
  <2> QED BY <2>2, <2>3 DEF OnPhase, p
<1> QED BY <1>3, <1>4

\* A new driver brings a position nobody knows the phase of, unless it has to
\* be homed.
HomesFirst == m.state = "WAITING_FOR_ACTUATOR_READY" /\ DriverUp => ~fb.ref

\* What the stages before the switch keep.
LEMMA PlannedPhased ==
  ASSUME IInv, Phased(m), HomesFirst, DriverUp, FireIncrement < 0
  PROVE  /\ Phased(Older(m)) /\ Phased(Now)
         /\ Phased(Planned) /\ Phased(FireStarted(Planned))
<1> USE DEF Phased, PhaseStates, SlowMotions
<1> DEFINE O == Older(m)
           N == Connected(O)
           R == Resumed(N)
           Z == Zeroed(R)
           H == HomingStarted(Z)
           C == ClearanceFollowed(H)
<1>1. TypeOK /\ m \in Motion
  BY DEF IInv, TypeOK
<1>2. /\ OnPhase(standby)
      /\ \A x \in Int : OnPhase(x) => OnPhase(x + FireIncrement)
  BY <1>1, PhaseArithmetic
<1>3. Sound(O) /\ Phased(O) /\ O.state = m.state
  BY <1>1, PlannedSound DEF Older, Motion
<1> HIDE DEF O
<1>4. Sound(N) /\ Phased(N)
  <2>1. Sound(N)
    BY PlannedSound DEF Now, O
  <2>2. O.state = "WAITING_FOR_ACTUATOR_READY" => ~fb.ref
    BY <1>3 DEF HomesFirst
  <2> QED BY <1>3, <2>1, <2>2 DEF Connected, Sound, Motion
<1> HIDE DEF N
<1>5. Sound(R) /\ Phased(R)
  BY <1>1, <1>4, ResumedSound DEF Resumed, Sound, Motion
<1> HIDE DEF R
<1>6. Sound(Z) /\ Phased(Z)
  BY <1>1, <1>2, <1>5, ZeroedSound DEF Zeroed, Enter, Sound, Motion
<1> HIDE DEF Z
<1>7. Sound(H) /\ Phased(H)
  BY <1>1, <1>6, HomingStartedSound DEF HomingStarted, Enter, Sound, Motion
<1> HIDE DEF H
<1>8. Sound(C) /\ Phased(C)
  <2>1. Sound(C) /\ H \in Motion
    BY <1>1, <1>7, ClearanceSound DEF Sound
  <2>2. H.state \in {"READY", "MOVING_TO_STANDBY"} /\ ~H.clearing
          => Phased(StartBeltClearance(H))
    BY <1>7, <2>1 DEF StartBeltClearance, Enter, Motion
  <2>3. H.clearing => Phased(FinishBeltClearance(H))
    BY <1>7, <2>1 DEF FinishBeltClearance, Enter, Motion
  <2> QED BY <1>7, <2>1, <2>2, <2>3 DEF ClearanceFollowed
<1> HIDE DEF C
<1>9. Phased(FireStarted(C))
  <2>1. C \in Motion /\ C.target \in Int
    BY <1>8 DEF Sound, Motion
  <2>2. Fires(C) => OnPhase(C.target + FireIncrement)
    BY <1>2, <1>8, <2>1 DEF Fires, MayFire
  <2>3. Fires(C) => Phased(Enter(C, "FIRING", C.target + FireIncrement))
    BY <2>1, <2>2 DEF Fires, MayFire, Enter, Motion
  <2>4. SlowFires(C) => Phased(Enter(C, "SLOW_FIRE_WAITING", C.target))
    BY <1>8, <2>1 DEF SlowFires, MayFire, Enter, Motion
  <2> QED BY <1>8, <2>3, <2>4 DEF FireStarted
<1>10. Now = N /\ Planned = C
  BY DEF Now, Planned, C, H, Z, R, N, O
<1> QED BY <1>3, <1>4, <1>8, <1>9, <1>10 DEF O

\* A motion that is over, or held, keeps the positions it returns to.
LEMMA StillPhased ==
  ASSUME NEW mo, Sound(mo), Phased(mo), TypeOK
  PROVE  /\ Phased(ErrorWithPositionHold(mo))
         /\ \A there : Phased(Settling(mo, there))
BY DEF Phased, PhaseStates, SlowMotions, ErrorWithPositionHold, Settling, Sound, Motion

\* The motions to the standby position and the stroke of a shot end at their
\* target, or at the clearance position with the spring lent.
LEMMA TravellingPhased ==
  ASSUME TypeOK, NEW mo, Sound(mo), Phased(mo),
         mo.state \in {"MOVING_TO_STANDBY", "FIRING"}
  PROVE  Phased(Travelling(mo))
<1> USE DEF Phased, PhaseStates, SlowMotions
<1> DEFINE next == Settling(mo, AtTarget(mo))
<1>1. Phased(ErrorWithPositionHold(mo)) /\ Phased(next)
  BY StillPhased
<1>2. Phased([mo EXCEPT !.state = "READY", !.stable = 0])
  BY DEF Sound, Motion
<1>3. Phased([next EXCEPT !.state = "READY", !.stable = 0])
  <2>1. Sound(next) /\ next.state = mo.state
    BY SettlingSound DEF Settling, Sound, Motion
  <2> HIDE DEF next
  <2> QED BY <1>1, <2>1 DEF Sound, Motion
<1> QED BY <1>1, <1>2, <1>3 DEF Travelling

\* A slow fire leaves its target for the strokes of the arm and comes back to
\* the return position it took before the first of them.
LEMMA SlowFirePhased ==
  ASSUME TypeOK, NEW mo, Sound(mo), Phased(mo), mo.state \in SlowFireStates,
         NEW move \in BOOLEAN, NEW step \in Int
  PROVE  /\ mo.state = "SLOW_FIRE_WAITING" => Phased(SlowWaiting(mo, move))
         /\ mo.state = "SLOW_FIRE_RETRACTING" => Phased(SlowRetracting(mo))
         /\ mo.state = "SLOW_FIRE_ARM_ONLY" => Phased(SlowArmOnly(mo))
         /\ mo.state = "SLOW_FIRING_EXTENDING" => Phased(SlowExtending(mo, step))
         /\ mo.state = "SLOW_FIRING_RETURNING" => Phased(SlowReturning(mo))
<1> USE DEF Phased, PhaseStates, SlowMotions
<1>1. /\ mo \in Motion /\ ~mo.clearing
      /\ mo.target \in Int /\ mo.slowReturn \in Int
  BY DEF Sound, Exclusive, Motion, FiringStates
<1>2. Phased(ErrorWithPositionHold(mo))
  BY StillPhased
<1>3. CASE mo.state = "SLOW_FIRE_WAITING"
  <2>1. Phased(Enter(mo, "SLOW_FIRE_ARM_ONLY", mo.target))
    BY <1>1, <1>3 DEF Enter, Motion
  <2>2. Phased([Enter(mo, "SLOW_FIRE_RETRACTING", mo.target - SlowRetract)
                  EXCEPT !.slowReturn = mo.target])
    <3> DEFINE low == mo.target - SlowRetract
               entered == Enter(mo, "SLOW_FIRE_RETRACTING", low)
    <3>1. low \in Int
      BY <1>1, PositionAssumption
    <3> HIDE DEF low
    <3>2. /\ entered \in Motion /\ ~entered.clearing
          /\ entered.state = "SLOW_FIRE_RETRACTING"
      BY <1>1, <3>1 DEF Enter, Motion
    <3> HIDE DEF entered
    <3>3. Phased([entered EXCEPT !.slowReturn = mo.target])
      BY <1>1, <1>3, <3>2 DEF Motion
    <3> QED BY <3>3 DEF entered, low
  <2> QED BY <1>3, <2>1, <2>2 DEF SlowWaiting
<1>4. CASE mo.state = "SLOW_FIRE_RETRACTING"
  <2> DEFINE next == Settling(mo, AtTarget(mo))
  <2>1. Sound(next) /\ Phased(next) /\ next.state = mo.state
    BY SettlingSound, StillPhased DEF Settling, Sound, Motion
  <2> HIDE DEF next
  <2>2. Phased(Enter(next, "SLOW_FIRING_EXTENDING", SlowBase(mo)))
    BY <1>4, <2>1 DEF Enter, Sound, Exclusive, FiringStates, Motion
  <2> QED BY <1>2, <1>4, <2>1, <2>2 DEF SlowRetracting, next
<1>5. CASE mo.state = "SLOW_FIRE_ARM_ONLY"
  BY <1>1, <1>5 DEF SlowArmOnly, Motion
<1>6. ASSUME NEW at \in Int, NEW there \in BOOLEAN, mo.state \in SlowMotions
      PROVE  LET next == Settling([mo EXCEPT !.target = at], there) IN
             /\ Phased([mo EXCEPT !.target = at]) /\ Phased(next)
             /\ Phased(Enter(next, "SLOW_FIRING_RETURNING", at))
             /\ at = mo.slowReturn
                  => Phased([next EXCEPT !.state = "READY", !.stable = 0])
             /\ next.stable > 0 => there
  <2> DEFINE aimed == [mo EXCEPT !.target = at]
             next == Settling(aimed, there)
  <2>1. /\ aimed \in Motion /\ ~aimed.clearing /\ aimed.target = at
        /\ aimed.state = mo.state /\ aimed.slowReturn = mo.slowReturn
    BY <1>1, <1>6 DEF Motion
  <2> HIDE DEF aimed
  <2>2. /\ next \in Motion /\ ~next.clearing /\ next.target = at
        /\ next.state = mo.state /\ next.slowReturn = mo.slowReturn
    BY <2>1 DEF Settling, Motion
  <2>3. next.stable > 0 => there
    BY <2>1 DEF Settling, Motion
  <2> HIDE DEF next
  <2>4. Phased(aimed) /\ Phased(next)
    BY <1>6, <2>1, <2>2
  <2>5. Phased(Enter(next, "SLOW_FIRING_RETURNING", at))
    BY <1>6, <2>2 DEF Enter, Motion
  <2>6. at = mo.slowReturn
          => Phased([next EXCEPT !.state = "READY", !.stable = 0])
    BY <1>6, <2>2 DEF Motion
  <2> QED BY <2>3, <2>4, <2>5, <2>6 DEF next, aimed
<1>7. CASE mo.state = "SLOW_FIRING_EXTENDING"
  <2> DEFINE at == Lower(SlowPeak(mo), mo.target + step)
  <2>1. at \in Int
    BY <1>1, PositionAssumption DEF Lower, SlowPeak, SlowBase
  <2> HIDE DEF at
  <2> QED BY <1>2, <1>6, <1>7, <2>1 DEF SlowExtending, at
<1> HIDE DEF Phased, PhaseStates, SlowMotions
<1>8. CASE mo.state = "SLOW_FIRING_RETURNING"
  <2> DEFINE gap == mo.slowReturn - mo.target
             at == IF Distance(gap, 0) <= ReturnStep THEN mo.slowReturn
                   ELSE IF gap > 0 THEN mo.target + ReturnStep
                   ELSE mo.target - ReturnStep
  <2>1. at \in Int
    BY <1>1, PositionAssumption
  <2> HIDE DEF at
  <2> DEFINE there == /\ Distance(fb.pos, mo.slowReturn) <= Tolerance
                      /\ fb.stopped /\ at = mo.slowReturn
             aimed == [mo EXCEPT !.target = at]
             next == Settling(aimed, there)
  <2>2. /\ Phased(aimed) /\ Phased(next)
        /\ at = mo.slowReturn
             => Phased([next EXCEPT !.state = "READY", !.stable = 0])
        /\ next.stable > 0 => at = mo.slowReturn
    <3>1. there \in BOOLEAN /\ (there => at = mo.slowReturn)
      OBVIOUS
    <3>2. mo.state \in SlowMotions
      BY <1>8 DEF SlowMotions
    <3> HIDE DEF there
    <3> QED BY <1>6, <2>1, <3>1, <3>2
  <2> HIDE DEF aimed, next
  <2>3. Phased(SlowReturning(mo))
    BY <1>2, <2>2 DEF SlowReturning, next, aimed, there, at
  <2> QED BY <1>8, <2>3
<1> QED BY <1>3, <1>4, <1>5, <1>7, <1>8

LEMMA MovedPhased ==
  ASSUME TypeOK, NEW mo, Sound(mo), Phased(mo), NEW serviceReady \in BOOLEAN,
         NEW move \in BOOLEAN, NEW step \in Int
  PROVE  Phased(Moved(mo, serviceReady, move, step))
<1>1. CASE mo.state \in HomingStates
  <2>1. Phased(ErrorWithPositionHold(mo)) /\ Phased(Settling(mo, fb.stopped))
    BY StillPhased
  <2>2. /\ Phased([mo EXCEPT !.state = "WAITING_FOR_STOP", !.stable = 0])
        /\ Phased([mo EXCEPT !.target = @ - HomingStep])
    BY <1>1 DEF Phased, PhaseStates, SlowMotions, Sound, Motion
  <2>3. Phased([Settling(mo, fb.stopped) EXCEPT !.zeroPending = TRUE])
    BY <1>1 DEF Phased, PhaseStates, SlowMotions, Settling, Sound, Motion
  <2> QED BY <1>1, <2>1, <2>2, <2>3 DEF Moved, Homing
<1>2. CASE mo.state \in {"MOVING_TO_STANDBY", "FIRING"}
  BY <1>2, TravellingPhased DEF Moved
<1>3. CASE mo.state \in SlowFireStates
  BY <1>3, SlowFirePhased DEF Moved
<1>4. CASE mo.state \notin HomingStates \cup SlowFireStates
                         \cup {"MOVING_TO_STANDBY", "FIRING"}
  BY <1>4 DEF Moved
<1> QED BY <1>1, <1>2, <1>3, <1>4

PhaseInv == IInv /\ standby = InitialStandby /\ Phased(m)

\* One period keeps the phase: only a driver that is READY is sent to a plan.
LEMMA TickPhased ==
  ASSUME PhaseInv, HomesFirst, FireIncrement < 0, Tick
  PROVE  Phased(m')
<1> USE DEF PhaseInv
<1>1. TypeOK /\ m \in Motion /\ Sound(m)
  BY DEF IInv, TypeOK, Sound
<1>2. CASE TickActuatorDown
  <2>1. Older(m) \in Motion /\ Phased(Older(m))
    BY <1>1, PlannedSound DEF Older, Sound, Motion, Phased
  <2> QED BY <1>2, <2>1 DEF TickActuatorDown, Period, Phased, PhaseStates,
                            SlowMotions, Motion
<1>3. CASE TickErrorLatched
  BY <1>3, PlannedPhased DEF TickErrorLatched, Period
<1>4. CASE TickStopped
  BY <1>4, PlannedPhased DEF TickStopped, Period
<1>5. CASE TickZeroFailed
  <2>1. Sound(Resumed(Now)) /\ Phased(Resumed(Now))
    BY <1>5, PlannedPhased, PlannedSound
    DEF TickZeroFailed, Resumed, Phased, Sound, Motion
  <2> QED BY <1>1, <1>5, <2>1, StillPhased DEF TickZeroFailed, Period
<1>6. CASE TickRun
  <2>1. PICK serviceReady \in BOOLEAN, move \in MoveSpring,
             step \in ExtensionSteps : Run(serviceReady, move, step)
    BY <1>6 DEF TickRun
  <2>2. move \in BOOLEAN /\ step \in Int
    BY InputAssumption, PositionAssumption
  <2>3. Sound(FireStarted(Planned)) /\ Phased(FireStarted(Planned))
    BY <1>6, PlannedSound, PlannedPhased DEF TickRun
  <2>4. Phased(Moved(FireStarted(Planned), serviceReady, move, step))
    BY <1>1, <2>2, <2>3, MovedPhased
  <2> QED BY <2>1, <2>4 DEF Run, Period
<1> QED BY <1>2, <1>3, <1>4, <1>5, <1>6 DEF Tick

LEMMA PhaseStep ==
  ASSUME StandbyOffsets \subseteq {InitialStandby}, FireIncrement < 0,
         HomesFirst, PhaseInv, [Next]_vars
  PROVE  PhaseInv'
<1> USE DEF PhaseInv
<1>1. IInv'
  BY StepInv
<1>2. ASSUME standby' = standby, Phased(m')
      PROVE  PhaseInv'
  BY <1>1, <1>2 DEF Phased, OnPhase
<1>3. CASE Tick
  <2>1. standby' = standby
    BY <1>3 DEF Tick, TickActuatorDown, TickErrorLatched, TickStopped,
                TickZeroFailed, TickRun, Period, Run
  <2> QED BY <1>2, <1>3, <2>1, TickPhased
<1>4. CASE Inputs
  <2>1. ~SetStandbyOffset
    BY DEF SetStandbyOffset
  <2>2. CASE EmergencyStopOn
    <3>1. m \in Motion /\ m' = [m EXCEPT !.stable = 0] /\ standby' = standby
      BY <2>2 DEF EmergencyStopOn, inputs, IInv, TypeOK
    <3>2. Phased(m')
      BY <3>1 DEF Phased, Motion
    <3> QED BY <1>2, <3>1, <3>2
  <2>3. CASE ZeroResponse
    <3>1. /\ m \in Motion /\ m' = [m EXCEPT !.zeroPending = FALSE]
          /\ standby' = standby
      BY <2>3 DEF ZeroResponse, inputs, IInv, TypeOK
    <3>2. Phased(m')
      BY <3>1 DEF Phased, Motion
    <3> QED BY <1>2, <3>1, <3>2
  <2>4. CASE ~EmergencyStopOn /\ ~ZeroResponse
    <3>1. m' = m /\ standby' = standby
      BY <1>4, <2>1, <2>4
      DEF Inputs, FireRequest, SlowFireRequest, BeltClearanceRequest,
          LimitSwitch, ActuatorState, EmergencyStopOff, inputs
    <3> QED BY <1>2, <3>1
  <2> QED BY <2>2, <2>3, <2>4
<1>5. CASE UNCHANGED vars
  BY <1>2, <1>5 DEF vars, inputs
<1> QED BY <1>3, <1>4, <1>5 DEF Next

\* Shots, slow shots and clearances keep the accumulated target on the phase
\* of the standby position, through errors, emergency stops and reconnections,
\* whenever a new driver is homed before it is used.
THEOREM StandbyPhaseKept ==
  ASSUME StandbyOffsets \subseteq {InitialStandby}, FireIncrement < 0
  PROVE  Spec /\ []HomesFirst => []StandbyPhase
<1>1. Init => PhaseInv
  <2>1. Init => Phased(m)
    BY DEF Init, Phased, PhaseStates, SlowMotions
  <2> QED BY <2>1, InitInv DEF PhaseInv, Init
<1>2. PhaseInv /\ HomesFirst /\ [Next]_vars => PhaseInv'
  BY PhaseStep
<1>3. PhaseInv => StandbyPhase
  BY DEF PhaseInv, Phased, PhaseStates, StandbyPhase
<1> QED BY <1>1, <1>2, <1>3, PTL DEF Spec

\* A driver that never reports a reference of its own has one only while it
\* is the driver the controller homed.
ReferenceInv ==
  fb.ref => DriverUp /\ m.state # "WAITING_FOR_ACTUATOR_READY"

LEMMA ReferenceStep ==
  ASSUME ReferenceReports \subseteq {FALSE}, IInv, ReferenceInv, [Next]_vars
  PROVE  ReferenceInv'
<1> USE DEF ReferenceInv
<1>1. m \in Motion /\ Sound(m) /\ TypeOK
  BY DEF IInv, TypeOK, Sound
<1>2. Sound(Now) /\ (DriverUp => Now.state # "WAITING_FOR_ACTUATOR_READY")
  BY <1>1, PlannedSound DEF Now, Connected, Older, Sound, Motion
<1>3. CASE Tick
  <2>1. CASE TickActuatorDown
    BY <2>1 DEF TickActuatorDown
  <2>2. CASE TickErrorLatched
    BY <1>1, <2>2 DEF TickErrorLatched, Period, Older, DriverUp, Motion
  <2>3. CASE TickStopped
    BY <1>2, <2>3 DEF TickStopped, Period, DriverUp
  <2>4. CASE TickZeroFailed
    BY <1>2, <2>4, PlannedSound
    DEF TickZeroFailed, Period, DriverUp, ErrorWithPositionHold, Resumed,
        Sound, Motion
  <2>5. CASE TickRun
    <3>1. PICK serviceReady \in BOOLEAN, move \in MoveSpring,
               step \in ExtensionSteps : Run(serviceReady, move, step)
      BY <2>5 DEF TickRun
    <3>2. Now.state # "WAITING_FOR_ACTUATOR_READY"
      BY <1>2, <2>5 DEF TickRun
    <3>3. Planned.state # "WAITING_FOR_ACTUATOR_READY"
      <4> DEFINE R == Resumed(Now)
                 Z == Zeroed(R)
                 H == HomingStarted(Z)
      <4>1. R \in Motion /\ R.state # "WAITING_FOR_ACTUATOR_READY"
        BY <1>2, <3>2, PlannedSound DEF Resumed, Sound, Motion
      <4> HIDE DEF R
      <4>2. Sound(Z) /\ Z.state # "WAITING_FOR_ACTUATOR_READY"
        BY <1>1, <4>1, PlannedSound, ZeroedSound DEF Zeroed, Enter, Sound, Motion, R
      <4> HIDE DEF Z
      <4>3. H \in Motion /\ H.state # "WAITING_FOR_ACTUATOR_READY"
        BY <1>1, <4>2, HomingStartedSound DEF HomingStarted, Enter, Sound, Motion
      <4> HIDE DEF H
      <4>4. ClearanceFollowed(H).state # "WAITING_FOR_ACTUATOR_READY"
        BY <4>3 DEF ClearanceFollowed, StartBeltClearance, FinishBeltClearance,
                    Enter, Motion
      <4> QED BY <4>4 DEF Planned, H, Z, R
    <3> DEFINE started == FireStarted(Planned)
    <3>4. started \in Motion /\ started.state # "WAITING_FOR_ACTUATOR_READY"
      BY <3>3, PlannedSound DEF FireStarted, Enter, Sound, Motion
    <3> HIDE DEF started
    <3>5. Moved(started, serviceReady, move, step).state
            # "WAITING_FOR_ACTUATOR_READY"
      <4>1. CASE started.state \in HomingStates
        BY <3>4, <4>1 DEF Moved, Homing, ErrorWithPositionHold, Settling, Motion
      <4>2. CASE started.state \in {"MOVING_TO_STANDBY", "FIRING"}
        BY <3>4, <4>2 DEF Moved, Travelling, ErrorWithPositionHold, Settling, Motion
      <4>3. CASE started.state \in SlowFireStates
        BY <3>4, <4>3 DEF Moved, SlowWaiting, SlowRetracting, SlowArmOnly,
           SlowExtending, SlowReturning, Enter, ErrorWithPositionHold, Settling, Motion
      <4> QED BY <3>4, <4>1, <4>2, <4>3 DEF Moved
    <3>6. m'.state # "WAITING_FOR_ACTUATOR_READY"
      BY <3>1, <3>5 DEF Run, Period, started
    <3>7. fb'.state = fb.state
      BY <1>1, <2>5 DEF TickRun, TypeOK, Feedback
    <3> QED BY <2>5, <3>6, <3>7 DEF TickRun, DriverUp
  <2> QED BY <1>3, <2>1, <2>2, <2>3, <2>4, <2>5 DEF Tick
<1>4. CASE Inputs
  <2>1. CASE ActuatorState
    <3>1. PICK s \in FeedbackStates, r \in ReferenceReports, p \in Positions,
               v \in BOOLEAN : fb' = [state |-> s, ref |-> r, pos |-> p, stopped |-> v]
      BY <2>1 DEF ActuatorState
    <3>2. fb'.ref = FALSE
      BY <3>1
    <3> QED BY <3>2
  <2>2. CASE EmergencyStopOn
    BY <1>1, <2>2 DEF EmergencyStopOn, inputs, DriverUp, Motion
  <2>3. CASE ZeroResponse
    BY <1>1, <2>3 DEF ZeroResponse, inputs, DriverUp, Motion
  <2>4. CASE SetStandbyOffset
    <3>1. \A value : Shifted(value).state = "MOVING_TO_STANDBY"
      BY <1>1 DEF Shifted, Motion
    <3> QED BY <2>4, <3>1 DEF SetStandbyOffset, DriverUp
  <2>5. CASE FireRequest \/ SlowFireRequest \/ BeltClearanceRequest
             \/ LimitSwitch \/ EmergencyStopOff
    BY <2>5 DEF FireRequest, SlowFireRequest, BeltClearanceRequest,
                LimitSwitch, EmergencyStopOff, inputs, DriverUp
  <2> QED BY <1>4, <2>1, <2>2, <2>3, <2>4, <2>5 DEF Inputs
<1>5. CASE UNCHANGED vars
  BY <1>5 DEF vars, inputs, DriverUp
<1> QED BY <1>3, <1>4, <1>5 DEF Next

\* With such drivers the phase is kept in every behaviour.
THEOREM StandbyPhaseInvariant ==
  ASSUME StandbyOffsets \subseteq {InitialStandby}, FireIncrement < 0,
         ReferenceReports \subseteq {FALSE}
  PROVE  Spec => []StandbyPhase
<1>1. Init => ReferenceInv
  BY DEF Init, ReferenceInv
<1>2. IInv /\ ReferenceInv /\ [Next]_vars => ReferenceInv'
  BY ReferenceStep
<1>3. ReferenceInv => HomesFirst
  BY DEF ReferenceInv, HomesFirst
<1>4. Spec /\ []HomesFirst => []StandbyPhase
  BY StandbyPhaseKept
<1> QED BY <1>1, <1>2, <1>3, <1>4, Invariance, PTL DEF Spec
-----------------------------------------------------------------------------
(***************************************************************************)
(* The announcement of a belt clearance.  While the spring is lent it is   *)
(* in the motion that retracts it, retracted, or in ERROR, and the period  *)
(* that finds it retracted is the one that announces it.                   *)
(***************************************************************************)
Loan(mo) ==
  mo.clearing =>
    /\ mo.state \in {"MOVING_TO_STANDBY", "READY", "ERROR"}
    /\ mo.state = "MOVING_TO_STANDBY" => mo.target = mo.clearPos
Announced == m.state = "READY" /\ m.clearing => operation = "BELT_CLEARANCE"
LoanInv == Loan(m) /\ Announced

\* The driver neither restarts nor accepts a zero during a loan.
LoanUndisturbed ==
  m.clearing => fb.state \in {"READY", "ERROR"} /\ zeroReply # "ok"

\* The stages before the switch keep the loan; one that finds the spring READY
\* found it READY and lent at the start of the period.
LEMMA PlannedLoan ==
  ASSUME IInv, LoanInv, LoanUndisturbed
  PROVE  /\ Loan(Now) /\ Now.clearing = m.clearing
         /\ Now.clearing => Now.state = m.state
         /\ Loan(Planned)
         /\ Planned.clearing /\ Planned.state = "READY"
              => m.clearing /\ m.state = "READY"
         /\ Planned.clearing => FireStarted(Planned) = Planned
         /\ Loan(FireStarted(Planned))
<1> USE DEF Loan
<1> DEFINE Kept(mo) == /\ mo \in Motion /\ mo.clearing = m.clearing
                       /\ mo.clearing => mo.state = m.state
           R == Resumed(Now)
           Z == Zeroed(R)
           H == HomingStarted(Z)
           C == ClearanceFollowed(H)
<1>1. TypeOK /\ m \in Motion /\ Loan(m)
  BY DEF IInv, TypeOK, LoanInv
<1>2. Loan(Now) /\ Kept(Now)
  <2>1. Loan(Older(m)) /\ Kept(Older(m))
    BY <1>1 DEF Older, Motion
  <2>2. Now \in Motion
    BY PlannedSound DEF Sound
  <2> QED BY <2>1, <2>2 DEF Now, Connected, Motion
<1>3. Loan(R) /\ Kept(R)
  BY <1>2, PlannedSound DEF Resumed, Sound, Motion
<1> HIDE DEF R
<1>4. Loan(Z) /\ Kept(Z)
  <2>1. R.clearing => zeroReply # "ok"
    BY <1>3 DEF LoanUndisturbed
  <2>2. Z \in Motion
    BY <1>1, <1>3, PlannedSound, ZeroedSound DEF Sound, R
  <2> QED BY <1>3, <2>1, <2>2 DEF Zeroed, Enter, Motion
<1> HIDE DEF Z
<1>5. Loan(H) /\ Kept(H)
  <2>1. HomingStarted(Z) \in Motion
    BY <1>1, <1>4 DEF HomingStarted, Enter, TypeOK, Feedback, Motion
  <2> QED BY <1>4, <2>1 DEF HomingStarted, Enter, Motion
<1> HIDE DEF H
<1>6. Loan(C) /\ (C.clearing /\ C.state = "READY" => H.clearing /\ H.state = "READY")
  <2>1. /\ Loan(StartBeltClearance(H))
        /\ StartBeltClearance(H).state = "MOVING_TO_STANDBY"
    <3> DEFINE at == H.target - standby
               entered == Enter(H, "MOVING_TO_STANDBY", at)
    <3>1. at \in Int /\ H.target \in Int
      BY <1>1, <1>5 DEF TypeOK, Motion
    <3> HIDE DEF at
    <3>2. /\ entered \in Motion /\ entered.target = at
          /\ entered.state = "MOVING_TO_STANDBY"
      BY <1>5, <3>1 DEF Enter, Motion
    <3> HIDE DEF entered
    <3>3. LET mo == [entered EXCEPT !.clearing = TRUE, !.returnPos = H.target,
                                    !.clearPos = at]
          IN mo.state = "MOVING_TO_STANDBY" /\ mo.target = mo.clearPos
      BY <3>2 DEF Motion
    <3> QED BY <3>3 DEF StartBeltClearance, entered, at
  <2>2. ~FinishBeltClearance(H).clearing
    BY <1>5 DEF FinishBeltClearance, Enter, Motion
  <2> HIDE DEF Loan
  <2>3. Loan(FinishBeltClearance(H))
    BY <2>2 DEF Loan
  <2> QED BY <1>5, <2>1, <2>2, <2>3 DEF ClearanceFollowed
<1>7. C = Planned
  BY DEF Planned, C, H, Z, R
<1>8. C.clearing => FireStarted(C) = C
  BY DEF FireStarted, Fires, SlowFires, MayFire
<1>9. Loan(FireStarted(C))
  <2>1. CASE C.clearing
    BY <1>6, <1>8, <2>1
  <2>2. CASE ~C.clearing
    <3>1. C \in Motion
      BY <1>7, PlannedSound DEF Sound
    <3> HIDE DEF C
    <3>2. ~FireStarted(C).clearing
      BY <2>2, <3>1 DEF FireStarted, Enter, Motion
    <3> QED BY <3>2
  <2> QED BY <2>1, <2>2
<1> QED BY <1>2, <1>5, <1>6, <1>7, <1>8, <1>9

\* The switch never changes whether the spring is lent.
LEMMA MovedClearing ==
  ASSUME NEW mo, Sound(mo), NEW serviceReady, NEW move, NEW step
  PROVE  Moved(mo, serviceReady, move, step).clearing = mo.clearing
<1> USE DEF Sound, Motion
<1>1. CASE mo.state \in HomingStates
  BY <1>1 DEF Moved, Homing, ErrorWithPositionHold, Settling
<1>2. CASE mo.state \in {"MOVING_TO_STANDBY", "FIRING"}
  BY <1>2 DEF Moved, Travelling, ErrorWithPositionHold, Settling
<1>3. CASE mo.state \in SlowFireStates
  BY <1>3 DEF Moved, SlowWaiting, SlowRetracting, SlowArmOnly, SlowExtending,
              SlowReturning, Enter, ErrorWithPositionHold, Settling
<1>4. CASE mo.state \notin HomingStates \cup SlowFireStates
                         \cup {"MOVING_TO_STANDBY", "FIRING"}
  BY <1>4 DEF Moved
<1> QED BY <1>1, <1>2, <1>3, <1>4

\* The spring is retracted, as Retracted says it of the next state.
RetractedFor(mo) ==
  \/ Distance(fb.pos, mo.clearPos) <= Tolerance
  \/ LET needed == Lower(ReadyTravel, Distance(mo.clearPos, mo.returnPos))
     IN IF mo.clearPos < mo.returnPos
        THEN mo.returnPos - fb.pos >= needed
        ELSE fb.pos - mo.returnPos >= needed

\* A motion of the loan ends in READY only where the spring was seen retracted:
\* far enough from where it left, or for RequiredStable feedbacks at its target.
LEMMA LoanTravels ==
  ASSUME TypeOK, RequiredStable > 0, NEW mo, Sound(mo), Loan(mo), mo.clearing,
         mo.state = "MOVING_TO_STANDBY"
  PROVE  /\ Loan(Travelling(mo))
         /\ Travelling(mo).state = "READY" => RetractedFor(Travelling(mo))
<1> DEFINE next == Settling(mo, AtTarget(mo))
           arrived == [mo EXCEPT !.state = "READY", !.stable = 0]
           settled == [next EXCEPT !.state = "READY", !.stable = 0]
<1>1. /\ mo \in Motion /\ mo.target = mo.clearPos
      /\ mo.clearPos \in Int /\ mo.returnPos \in Int /\ fb.pos \in Int
  BY DEF Sound, Motion, Loan, TypeOK, Feedback
<1>2. /\ ErrorWithPositionHold(mo).state = "ERROR"
      /\ Loan(ErrorWithPositionHold(mo))
  BY <1>1 DEF ErrorWithPositionHold, Loan, Motion
<1>3. /\ next \in Motion /\ next.state = "MOVING_TO_STANDBY"
      /\ next.target = mo.target /\ next.clearPos = mo.clearPos
      /\ next.returnPos = mo.returnPos
      /\ next.stable > 0 => AtTarget(mo)
  BY <1>1 DEF Settling, Motion
<1> HIDE DEF next
<1>4. /\ arrived.clearPos = mo.clearPos /\ arrived.returnPos = mo.returnPos
      /\ arrived.state = "READY"
  BY <1>1 DEF Motion
<1>5. settled.clearPos = mo.clearPos /\ settled.state = "READY"
  BY <1>3 DEF Motion
<1>6. Loan(next) /\ Loan(arrived) /\ Loan(settled)
  BY <1>1, <1>3, <1>4, <1>5 DEF Loan
<1> HIDE DEF arrived, settled
<1>7. ClearanceReached(mo) => RetractedFor(arrived)
  BY <1>1, <1>4 DEF ClearanceReached, RetractedFor
<1>8. Stable(next) => RetractedFor(settled)
  <2>1. Stable(next) => AtTarget(mo)
    BY <1>3, TimingAssumption DEF Stable, Motion
  <2> QED BY <1>1, <1>5, <2>1 DEF AtTarget, RetractedFor
<1>9. CASE Expired(mo, MotionTimeout)
  BY <1>2, <1>9 DEF Travelling
<1>10. CASE ~Expired(mo, MotionTimeout) /\ ~newFeedback
  BY <1>10 DEF Travelling
<1>11. CASE ~Expired(mo, MotionTimeout) /\ newFeedback
  <2>1. CASE ClearanceReached(mo)
    BY <1>6, <1>7, <1>11, <2>1 DEF Travelling, arrived
  <2>2. CASE ~ClearanceReached(mo) /\ Stable(next)
    BY <1>6, <1>8, <1>11, <2>2 DEF Travelling, settled, next
  <2>3. CASE ~ClearanceReached(mo) /\ ~Stable(next)
    BY <1>3, <1>6, <1>11, <2>3 DEF Travelling, next
  <2> QED BY <2>1, <2>2, <2>3
<1> QED BY <1>9, <1>10, <1>11

\* A period keeps the loan, and announces it only when the spring is retracted.
LEMMA TickLoan ==
  ASSUME IInv, LoanInv, LoanUndisturbed, RequiredStable > 0, Tick
  PROVE  /\ LoanInv'
         /\ operation' = "BELT_CLEARANCE" /\ operation # "BELT_CLEARANCE"
              => RetractedFor(m')
<1>1. TypeOK /\ m \in Motion /\ Sound(m) /\ Loan(m) /\ Announced
  BY DEF IInv, TypeOK, Sound, LoanInv
<1>2. ASSUME Loan(m'), operation' = OperationOf(m'),
             m'.clearing /\ m'.state = "READY" /\ operation # "BELT_CLEARANCE"
               => RetractedFor(m')
      PROVE  /\ LoanInv'
             /\ operation' = "BELT_CLEARANCE" /\ operation # "BELT_CLEARANCE"
                  => RetractedFor(m')
  BY <1>2 DEF LoanInv, Loan, Announced, OperationOf
<1>3. ASSUME Loan(m'), operation' = OperationOf(m'),
             m'.clearing /\ m'.state = "READY" => m.clearing /\ m.state = "READY"
      PROVE  /\ LoanInv'
             /\ operation' = "BELT_CLEARANCE" /\ operation # "BELT_CLEARANCE"
                  => RetractedFor(m')
  BY <1>1, <1>2, <1>3 DEF Announced
<1>4. CASE TickActuatorDown
  <2>1. /\ Older(m) \in Motion /\ Older(m).clearing = m.clearing
        /\ operation' = OperationOf(m')
    BY <1>1, <1>4 DEF Older, Motion, TickActuatorDown, Period
  <2>2. CASE fb.state = "ERROR"
    <3>1. m' = [Older(m) EXCEPT !.state = "ERROR"]
      BY <1>4, <2>2 DEF TickActuatorDown, Period
    <3>2. m'.state = "ERROR"
      BY <2>1, <3>1 DEF Motion
    <3> QED BY <1>3, <2>1, <3>2 DEF Loan
  <2>3. CASE fb.state # "ERROR"
    <3>1. ~m.clearing
      BY <1>4, <2>3 DEF TickActuatorDown, DriverUp, LoanUndisturbed
    <3>2. m' = [Older(m) EXCEPT !.state = "WAITING_FOR_ACTUATOR_READY",
                                !.zeroPending = FALSE]
      BY <1>4, <2>3 DEF TickActuatorDown, Period
    <3>3. ~m'.clearing
      BY <2>1, <3>1, <3>2 DEF Motion
    <3> QED BY <1>3, <2>1, <3>3 DEF Loan
  <2> QED BY <2>2, <2>3
<1>5. CASE TickErrorLatched
  <2>1. m'.state = "ERROR" /\ operation' = OperationOf(m')
    BY <1>1, <1>5 DEF TickErrorLatched, Period, Older, Motion
  <2> QED BY <1>3, <2>1 DEF Loan
<1>6. CASE TickStopped
  <2>1. m' = Now /\ operation' = OperationOf(m')
    BY <1>6 DEF TickStopped, Period
  <2> QED BY <1>3, <2>1, PlannedLoan
<1>7. CASE TickZeroFailed
  <2>1. m'.state = "ERROR" /\ operation' = OperationOf(m')
    BY <1>7, PlannedSound
    DEF TickZeroFailed, Period, ErrorWithPositionHold, Sound, Motion
  <2> QED BY <1>3, <2>1 DEF Loan
<1>8. CASE TickRun
  <2>1. PICK serviceReady \in BOOLEAN, move \in MoveSpring,
             step \in ExtensionSteps : Run(serviceReady, move, step)
    BY <1>8 DEF TickRun
  <2> DEFINE started == FireStarted(Planned)
             moved == Moved(started, serviceReady, move, step)
  <2>2. Sound(started) /\ Loan(started)
    BY PlannedSound, PlannedLoan
  <2>3. m' = moved /\ operation' = OperationOf(m')
    BY <2>1 DEF Run, Period
  <2>4. moved.clearing = started.clearing
    BY <2>2, MovedClearing
  <2>5. started.clearing => /\ started = Planned
                            /\ started.state = "READY"
                                 => m.clearing /\ m.state = "READY"
    <3>1. CASE Planned.clearing
      BY <3>1, PlannedLoan
    <3>2. CASE ~Planned.clearing
      BY <3>2, PlannedSound DEF FireStarted, Enter, Sound, Motion
    <3> QED BY <3>1, <3>2
  <2> HIDE DEF started
  <2>6. CASE ~started.clearing
    BY <1>3, <2>3, <2>4, <2>6 DEF Loan
  <2>7. CASE started.clearing /\ started.state = "MOVING_TO_STANDBY"
    <3>1. moved = Travelling(started)
      BY <2>7 DEF Moved
    <3> HIDE DEF moved
    <3> QED BY <1>1, <1>2, <2>2, <2>3, <2>7, <3>1, LoanTravels
  <2>8. CASE started.clearing /\ started.state \in {"READY", "ERROR"}
    <3>1. moved = started
      BY <2>8 DEF Moved
    <3> HIDE DEF moved
    <3> QED BY <1>3, <2>2, <2>3, <2>5, <3>1
  <2> QED BY <2>2, <2>6, <2>7, <2>8 DEF Loan
<1> QED BY <1>4, <1>5, <1>6, <1>7, <1>8 DEF Tick

\* The callbacks keep the loan and announce nothing.
LEMMA InputsLoan ==
  ASSUME IInv, LoanInv, Inputs
  PROVE  LoanInv' /\ operation' = operation
<1> USE DEF LoanInv, Loan, Announced
<1>1. TypeOK /\ m \in Motion
  BY DEF IInv, TypeOK
<1>2. CASE EmergencyStopOn
  BY <1>1, <1>2 DEF EmergencyStopOn, Motion
<1>3. CASE ZeroResponse
  BY <1>1, <1>3 DEF ZeroResponse, outputs, Motion
<1>4. CASE SetStandbyOffset
  <2>1. PICK value \in StandbyOffsets :
          /\ IF m.state \in {"READY", "MOVING_TO_STANDBY"}
             THEN m' = Shifted(value)
             ELSE m' = m
          /\ operation' = operation
    BY <1>4 DEF SetStandbyOffset
  <2>2. /\ Shifted(value).state = "MOVING_TO_STANDBY"
        /\ Shifted(value).clearing = m.clearing
        /\ m.clearing => Shifted(value).target = Shifted(value).clearPos
    BY <1>1 DEF Shifted, Motion
  <2> QED BY <2>1, <2>2
<1>5. CASE FireRequest \/ SlowFireRequest \/ BeltClearanceRequest
           \/ LimitSwitch \/ ActuatorState \/ EmergencyStopOff
  BY <1>5 DEF FireRequest, SlowFireRequest, BeltClearanceRequest, LimitSwitch,
              ActuatorState, EmergencyStopOff, outputs
<1> QED BY <1>2, <1>3, <1>4, <1>5 DEF Inputs

LEMMA LoanStep ==
  ASSUME IInv, LoanInv, LoanUndisturbed, RequiredStable > 0, [Next]_vars
  PROVE  /\ LoanInv'
         /\ operation' = "BELT_CLEARANCE" /\ operation # "BELT_CLEARANCE"
              => Retracted
<1>1. RetractedFor(m') => Retracted
  BY DEF RetractedFor, Retracted
<1>2. CASE Tick
  BY <1>1, <1>2, TickLoan
<1>3. CASE Inputs
  BY <1>3, InputsLoan
<1>4. CASE UNCHANGED vars
  BY <1>4 DEF vars, outputs, LoanInv, Loan, Announced
<1> QED BY <1>2, <1>3, <1>4 DEF Next

LEMMA InitLoan == Init => LoanInv
BY DEF Init, LoanInv, Loan, Announced

\* The belt is told that the spring is clear only by a period that saw it
\* retracted, if the driver neither restarts nor accepts a zero during the loan.
THEOREM AnnouncementIsRetracted ==
  ASSUME RequiredStable > 0
  PROVE  Spec /\ []LoanUndisturbed => AnnouncesOnlyRetracted
<1>1. IInv /\ LoanInv /\ LoanUndisturbed /\ [Next]_vars
        => LoanInv' /\ (operation' = "BELT_CLEARANCE"
                          /\ operation # "BELT_CLEARANCE" => Retracted)
  BY LoanStep
<1> QED BY <1>1, InitLoan, Invariance, PTL DEF Spec, AnnouncesOnlyRetracted

\* A driver that never restarts answers a zero before the spring is lent: a
\* request is in flight only while the controller waits for its answer, or
\* once it has given up in ERROR.
ZeroIdle == zeroRequests = 0 /\ zeroReply = None
ZeroInv ==
  /\ fb.state \notin {"READY", "ERROR"} => m.state = "WAITING_FOR_ACTUATOR_READY"
  /\ m.state \notin {"WAITING_FOR_STOP", "ERROR"} => ZeroIdle
  /\ m.clearing => ZeroIdle
  /\ m.state = "WAITING_FOR_STOP" =>
       \/ zeroRequests = 0
       \/ zeroRequests = 1 /\ zeroReply = None /\ m.zeroPending

LEMMA ZeroUndisturbs ==
  ASSUME LoanInv, ZeroInv
  PROVE  LoanUndisturbed
BY DEF LoanInv, Loan, ZeroInv, ZeroIdle, LoanUndisturbed

\* While an answer is awaited no stage before the switch leaves the wait.
LEMMA PlannedWaits ==
  ASSUME IInv, m.state = "WAITING_FOR_STOP", ~m.clearing, m.zeroPending,
         zeroReply = None
  PROVE  LET started == FireStarted(Planned) IN
         /\ started.state = "WAITING_FOR_STOP" /\ ~started.clearing
         /\ started.zeroPending
<1> DEFINE Waits(mo) == /\ mo \in Motion /\ mo.state = "WAITING_FOR_STOP"
                        /\ ~mo.clearing /\ mo.zeroPending
           R == Resumed(Now)
<1>1. m \in Motion
  BY DEF IInv, TypeOK
<1>2. Waits(Older(m))
  BY <1>1 DEF Older, Motion
<1>3. Now = Older(m)
  BY <1>2 DEF Now, Connected
<1>4. Waits(R)
  BY <1>2, <1>3 DEF Resumed, Motion
<1> HIDE DEF R
<1>5. Zeroed(R) = R /\ HomingStarted(R) = R
  BY <1>4 DEF Zeroed, HomingStarted
<1>6. ClearanceFollowed(R) = R
  BY <1>4 DEF ClearanceFollowed
<1>7. FireStarted(R) = R
  BY <1>4 DEF FireStarted, Fires, SlowFires, MayFire
<1>8. FireStarted(Planned) = R
  BY <1>5, <1>6, <1>7 DEF Planned, R
<1> QED BY <1>4, <1>8

\* A zero is asked for only in the wait, and the wait goes on.
LEMMA AsksWaiting ==
  ASSUME NEW mo, Sound(mo), NEW serviceReady, NEW move, NEW step,
         ~mo.zeroPending, Moved(mo, serviceReady, move, step).zeroPending
  PROVE  /\ mo.state \in HomingStates
         /\ Moved(mo, serviceReady, move, step).state \in HomingStates \ {"HOMING"}
<1> USE DEF Sound, Motion
<1>1. CASE mo.state \in HomingStates
  BY <1>1 DEF Moved, Homing, ErrorWithPositionHold, Settling
<1>2. CASE mo.state \in {"MOVING_TO_STANDBY", "FIRING"}
  BY <1>2 DEF Moved, Travelling, ErrorWithPositionHold, Settling
<1>3. CASE mo.state \in SlowFireStates
  BY <1>3 DEF Moved, SlowWaiting, SlowRetracting, SlowArmOnly, SlowExtending,
              SlowReturning, Enter, ErrorWithPositionHold, Settling
<1>4. CASE mo.state \notin HomingStates \cup SlowFireStates
                         \cup {"MOVING_TO_STANDBY", "FIRING"}
  BY <1>4 DEF Moved
<1> QED BY <1>1, <1>2, <1>3, <1>4

\* HOMING has been entered before the switch, so the state that asks is the
\* wait itself.
LEMMA NotWaitingForHoming ==
  ASSUME IInv
  PROVE  FireStarted(Planned).state # "WAITING_FOR_HOMING"
<1> DEFINE Z == Zeroed(Resumed(Now))
           H == HomingStarted(Z)
<1>1. TypeOK /\ Sound(Z)
  BY PlannedSound, ZeroedSound DEF IInv
<1> HIDE DEF Z
<1>2. H \in Motion /\ H.state # "WAITING_FOR_HOMING"
  BY <1>1, HomingStartedSound DEF HomingStarted, Enter, Sound, Motion
<1> HIDE DEF H
<1>3. ClearanceFollowed(H).state # "WAITING_FOR_HOMING"
  BY <1>2 DEF ClearanceFollowed, StartBeltClearance, FinishBeltClearance,
              Enter, Motion
<1>4. Planned.state # "WAITING_FOR_HOMING" /\ Planned \in Motion
  BY <1>3, PlannedSound DEF Planned, Sound, H, Z
<1> QED BY <1>4 DEF FireStarted, Enter, Motion

LEMMA ZeroRun ==
  ASSUME IInv, LoanInv, ZeroInv, TickRun
  PROVE  ZeroInv'
<1>1. TypeOK /\ m \in Motion /\ zeroRequests \in Nat
  BY TimingAssumption DEF IInv, TypeOK
<1>2. LoanUndisturbed
  BY ZeroUndisturbs
<1>3. PICK serviceReady \in BOOLEAN, move \in MoveSpring,
           step \in ExtensionSteps : Run(serviceReady, move, step)
  BY DEF TickRun
<1> DEFINE started == FireStarted(Planned)
           moved == Moved(started, serviceReady, move, step)
<1>4. /\ Sound(started) /\ Loan(started)
      /\ started.state # "WAITING_FOR_HOMING"
      /\ started.zeroPending \in BOOLEAN
  BY <1>2, PlannedSound, PlannedLoan, NotWaitingForHoming DEF Sound, Motion
<1>5. /\ m' = moved /\ zeroReply' = None /\ fb'.state = "READY"
      /\ zeroRequests' = IF moved.zeroPending /\ ~started.zeroPending
                         THEN zeroRequests + 1 ELSE zeroRequests
  BY <1>1, <1>3 DEF Run, Period, TickRun, DriverUp, TypeOK, Feedback
<1>6. moved.clearing = started.clearing
  BY <1>4, MovedClearing
<1>7. moved.zeroPending /\ ~started.zeroPending
        => started.state \in HomingStates
             /\ moved.state \in HomingStates \ {"HOMING"}
  BY <1>4, AsksWaiting
<1>8. CASE zeroRequests = 0
  <2>1. CASE moved.zeroPending /\ ~started.zeroPending
    <3>1. moved.state = "WAITING_FOR_STOP"
      <4>1. started.state \in {"HOMING", "WAITING_FOR_STOP"}
        BY <1>4, <1>7, <2>1
      <4> HIDE DEF started
      <4>2. moved.state # "WAITING_FOR_HOMING"
        BY <1>4, <4>1 DEF Moved, Homing, ErrorWithPositionHold, Settling,
                          Sound, Motion
      <4> QED BY <1>7, <2>1, <4>2
    <3>2. ~moved.clearing
      BY <1>4, <1>6, <1>7, <2>1 DEF Loan
    <3> HIDE DEF started, moved
    <3> QED BY <1>5, <1>8, <2>1, <3>1, <3>2 DEF ZeroInv, ZeroIdle
  <2>2. CASE ~(moved.zeroPending /\ ~started.zeroPending)
    <3> HIDE DEF started, moved
    <3> QED BY <1>5, <1>8, <2>2 DEF ZeroInv, ZeroIdle
  <2> QED BY <2>1, <2>2
<1>9. CASE zeroRequests # 0
  <2>1. /\ m.state = "WAITING_FOR_STOP" /\ zeroRequests = 1 /\ zeroReply = None
        /\ m.zeroPending /\ ~m.clearing
    BY <1>9 DEF TickRun, ZeroInv, ZeroIdle
  <2>2. /\ started.state = "WAITING_FOR_STOP" /\ ~started.clearing
        /\ started.zeroPending
    BY <2>1, PlannedWaits
  <2>3. moved.state = "ERROR" \/ (moved.state = "WAITING_FOR_STOP" /\ moved.zeroPending)
    <3> HIDE DEF started
    <3> QED BY <1>4, <2>2 DEF Moved, Homing, ErrorWithPositionHold, Settling,
                              Sound, Motion
  <2>4. ~moved.clearing
    BY <1>6, <2>2
  <2> HIDE DEF started, moved
  <2> QED BY <1>5, <2>1, <2>2, <2>3, <2>4 DEF ZeroInv, ZeroIdle
<1> QED BY <1>8, <1>9

LEMMA ZeroStep ==
  ASSUME FeedbackStates \subseteq {"READY", "ERROR"},
         IInv, LoanInv, ZeroInv, [Next]_vars
  PROVE  ZeroInv'
<1> USE DEF ZeroInv, ZeroIdle
<1>1. TypeOK /\ m \in Motion /\ zeroRequests \in Nat /\ Older(m) \in Motion
  BY TimingAssumption, PlannedSound DEF IInv, TypeOK, Sound
<1>2. /\ Older(m).state = m.state /\ Older(m).clearing = m.clearing
      /\ Older(m).zeroPending = m.zeroPending
  BY <1>1 DEF Older, Motion
<1>3. CASE Tick
  <2>1. CASE TickActuatorDown
    <3>1. CASE fb.state = "ERROR"
      <4>1. m' = [Older(m) EXCEPT !.state = "ERROR"]
        BY <2>1, <3>1 DEF TickActuatorDown, Period
      <4>2. m'.state = "ERROR" /\ m'.clearing = m.clearing
        BY <1>1, <1>2, <4>1 DEF Motion
      <4> QED BY <2>1, <3>1, <4>2 DEF TickActuatorDown
    <3>2. CASE fb.state # "ERROR"
      <4>1. m.state = "WAITING_FOR_ACTUATOR_READY" /\ ZeroIdle
        BY <2>1, <3>2 DEF TickActuatorDown, DriverUp
      <4>2. m' = [Older(m) EXCEPT !.state = "WAITING_FOR_ACTUATOR_READY",
                                  !.zeroPending = FALSE]
        BY <2>1, <3>2 DEF TickActuatorDown, Period
      <4>3. m'.state = "WAITING_FOR_ACTUATOR_READY"
        BY <1>1, <4>2 DEF Motion
      <4> QED BY <2>1, <3>2, <4>1, <4>3 DEF TickActuatorDown
    <3> QED BY <3>1, <3>2
  <2>2. CASE TickErrorLatched
    <3>1. m' = Older(m) /\ zero' = zero /\ fb' = fb /\ fb.state = "READY"
      BY <2>2 DEF TickErrorLatched, Period, DriverUp
    <3>2. m'.state = "ERROR" /\ m'.clearing = m.clearing
      BY <1>2, <2>2, <3>1 DEF TickErrorLatched
    <3> QED BY <3>1, <3>2 DEF zero
  <2>3. CASE TickStopped
    <3>1. m' = Now /\ zero' = zero /\ fb' = fb /\ fb.state = "READY"
      BY <2>3 DEF TickStopped, Period, DriverUp
    <3>2. /\ Now.clearing = m.clearing /\ Now.zeroPending = m.zeroPending
          /\ m.state # "WAITING_FOR_ACTUATOR_READY" => Now.state = m.state
          /\ m.state = "WAITING_FOR_ACTUATOR_READY"
               => Now.state \in {"READY", "WAITING_FOR_HOMING"}
      BY <1>1, <1>2 DEF Now, Connected, Motion
    <3> QED BY <2>3, <3>1, <3>2 DEF zero, TickStopped
  <2>4. CASE TickZeroFailed
    <3>1. zeroReply = "failed" /\ ~m.clearing
      BY <2>4 DEF TickZeroFailed
    <3>2. /\ m' = ErrorWithPositionHold(Resumed(Now)) /\ fb' = fb
          /\ fb.state = "READY" /\ zeroReply' = None
      BY <2>4 DEF TickZeroFailed, Period, DriverUp
    <3>3. Now.clearing = m.clearing /\ Now \in Motion
      BY <1>1, <1>2, PlannedSound DEF Now, Connected, Sound, Motion
    <3>4. m'.state = "ERROR" /\ ~m'.clearing
      BY <3>1, <3>2, <3>3, PlannedSound
      DEF ErrorWithPositionHold, Resumed, Sound, Motion
    <3> QED BY <3>2, <3>4
  <2>5. CASE TickRun
    BY <2>5, ZeroRun
  <2> QED BY <1>3, <2>1, <2>2, <2>3, <2>4, <2>5 DEF Tick
<1>4. CASE Inputs
  <2>1. CASE ActuatorState
    <3>1. PICK s \in FeedbackStates, r \in ReferenceReports, p \in Positions,
               v \in BOOLEAN : fb' = [state |-> s, ref |-> r, pos |-> p, stopped |-> v]
      BY <2>1 DEF ActuatorState
    <3>2. fb'.state \in {"READY", "ERROR"} /\ m' = m /\ zero' = zero
      BY <2>1, <3>1 DEF ActuatorState
    <3> QED BY <3>2 DEF zero
  <2>2. CASE EmergencyStopOn
    <3>1. m' = [m EXCEPT !.stable = 0] /\ zero' = zero /\ fb' = fb
      BY <2>2 DEF EmergencyStopOn, inputs
    <3>2. /\ m'.state = m.state /\ m'.clearing = m.clearing
          /\ m'.zeroPending = m.zeroPending
      BY <1>1, <3>1 DEF Motion
    <3> QED BY <3>1, <3>2 DEF zero
  <2>3. CASE ZeroResponse
    <3>1. /\ zeroRequests > 0 /\ zeroRequests' = zeroRequests - 1
          /\ m' = [m EXCEPT !.zeroPending = FALSE] /\ fb' = fb
      BY <2>3 DEF ZeroResponse, inputs
    <3>2. m'.state = m.state /\ m'.clearing = m.clearing
      BY <1>1, <3>1 DEF Motion
    <3>3. /\ m.state \in {"WAITING_FOR_STOP", "ERROR"} /\ ~m.clearing
          /\ m.state = "WAITING_FOR_STOP" => zeroRequests' = 0
      BY <1>1, <3>1
    <3> QED BY <3>1, <3>2, <3>3
  <2>4. CASE SetStandbyOffset
    <3>1. \A value : /\ Shifted(value).state = "MOVING_TO_STANDBY"
                     /\ Shifted(value).clearing = m.clearing
      BY <1>1 DEF Shifted, Motion
    <3> QED BY <2>4, <3>1 DEF SetStandbyOffset, zero
  <2>5. CASE FireRequest \/ SlowFireRequest \/ BeltClearanceRequest
             \/ LimitSwitch \/ EmergencyStopOff
    BY <2>5 DEF FireRequest, SlowFireRequest, BeltClearanceRequest,
                LimitSwitch, EmergencyStopOff, inputs, zero
  <2> QED BY <1>4, <2>1, <2>2, <2>3, <2>4, <2>5 DEF Inputs
<1>5. CASE UNCHANGED vars
  BY <1>5 DEF vars, inputs, zero
<1> QED BY <1>3, <1>4, <1>5 DEF Next

\* With a driver that, once it is up, is READY or in ERROR, every announcement
\* of every behaviour is true.
THEOREM AnnouncementHolds ==
  ASSUME RequiredStable > 0, FeedbackStates \subseteq {"READY", "ERROR"}
  PROVE  Spec => AnnouncesOnlyRetracted
<1>1. Init => ZeroInv
  BY DEF Init, ZeroInv, ZeroIdle
<1>2. IInv /\ LoanInv /\ ZeroInv /\ [Next]_vars => LoanInv' /\ ZeroInv'
  BY LoanStep, ZeroStep, ZeroUndisturbs
<1>3. LoanInv /\ ZeroInv => LoanUndisturbed
  BY ZeroUndisturbs
<1>4. Spec /\ []LoanUndisturbed => AnnouncesOnlyRetracted
  BY AnnouncementIsRetracted
<1> QED BY <1>1, <1>2, <1>3, <1>4, InitLoan, Invariance, PTL DEF Spec
=============================================================================
