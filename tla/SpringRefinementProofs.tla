----------------------- MODULE SpringRefinementProofs -----------------------
(***************************************************************************)
(* The spring controller implements SpringClearance, for every value of    *)
(* its constants: every callback and every control period is a step of     *)
(* the abstract specification or leaves what it describes unchanged.       *)
(***************************************************************************)
EXTENDS SpringRefinement, SpringControllerProofs

USE DEF States, HomingStates, SlowFireStates, Operations, None

\* What a control period may do to the loan, as a relation between the motion
\* it starts from and a motion one of its stages computes.
FollowsRequest(mo) ==
  /\ Sound(mo)
  /\ mo.clearing \in {m.clearing, clearanceRequest}
  /\ mo.state \in FiringStates => m.state \in FiringStates \/ ~clearanceRequest

\* The stages before the request is considered neither touch the loan nor
\* start a shot.
LEMMA BeforeRequest ==
  ASSUME IInv
  PROVE  \A mo \in {Older(m), Now, Resumed(Now), Zeroed(Resumed(Now)),
                    HomingStarted(Zeroed(Resumed(Now)))} :
           /\ Sound(mo) /\ mo.clearing = m.clearing
           /\ mo.state \in FiringStates => m.state \in FiringStates
<1>0. TypeOK /\ m \in Motion
  BY DEF IInv, TypeOK
<1> DEFINE Kept(mo) == /\ mo.clearing = m.clearing
                       /\ mo.state \in FiringStates => m.state \in FiringStates
           R == Resumed(Now)
           Z == Zeroed(R)
           H == HomingStarted(Z)
<1>1. Sound(Older(m)) /\ Kept(Older(m))
  BY <1>0, PlannedSound DEF Older, Motion
<1>2. Sound(Now) /\ Kept(Now)
  BY <1>1, PlannedSound DEF Now, Connected, Sound, Motion, FiringStates
<1>3. Sound(R) /\ Kept(R)
  BY <1>2, PlannedSound DEF Resumed, Sound, Motion
<1> HIDE DEF R
<1>4. Sound(Z) /\ Kept(Z)
  BY <1>0, <1>3, ZeroedSound DEF Zeroed, Enter, Sound, Motion, FiringStates
<1> HIDE DEF Z
<1>5. Sound(H) /\ Kept(H)
  BY <1>0, <1>4, HomingStartedSound
  DEF HomingStarted, Enter, Sound, Motion, FiringStates
<1> QED BY <1>1, <1>2, <1>3, <1>4, <1>5 DEF H, Z, R

\* The request is followed, or the state does not allow it; then a shot may
\* start, but only if no clearance is asked for.
LEMMA RequestFollowed ==
  ASSUME IInv
  PROVE  FollowsRequest(Planned) /\ FollowsRequest(FireStarted(Planned))
<1> DEFINE mo == HomingStarted(Zeroed(Resumed(Now)))
<1>1. /\ Sound(mo) /\ mo.clearing = m.clearing
      /\ mo.state \in FiringStates => m.state \in FiringStates
  BY BeforeRequest
<1>2. Planned = ClearanceFollowed(mo)
  BY DEF Planned
<1>3. mo \in Motion /\ clearanceRequest \in BOOLEAN
  BY <1>1 DEF Sound, IInv, TypeOK
<1> HIDE DEF mo
<1>4. /\ StartBeltClearance(mo).clearing = TRUE
      /\ StartBeltClearance(mo).state = "MOVING_TO_STANDBY"
      /\ FinishBeltClearance(mo).clearing = FALSE
      /\ FinishBeltClearance(mo).state = "MOVING_TO_STANDBY"
  BY <1>3 DEF StartBeltClearance, FinishBeltClearance, Enter, Motion
<1>5. /\ Planned.clearing \in {m.clearing, clearanceRequest}
      /\ Planned.state \in FiringStates => m.state \in FiringStates
      /\ Planned.state = "READY" /\ ~Planned.clearing => ~clearanceRequest
  BY <1>1, <1>2, <1>3, <1>4 DEF ClearanceFollowed, FiringStates, IInv, TypeOK, Motion
<1>6. FireStarted(Planned).clearing = Planned.clearing
  BY PlannedSound DEF FireStarted, Enter, Sound, Motion
<1>7. FireStarted(Planned).state \in FiringStates
        => m.state \in FiringStates \/ ~clearanceRequest
  BY <1>5 DEF FireStarted, Fires, SlowFires, MayFire
<1> QED BY <1>5, <1>6, <1>7, PlannedSound DEF FollowsRequest

\* The switch keeps the loan and continues shots without starting any.
LEMMA MovedKeeps ==
  ASSUME IInv, NEW mo, FollowsRequest(mo), NEW serviceReady \in BOOLEAN,
         NEW move \in BOOLEAN, NEW step \in Int
  PROVE  FollowsRequest(Moved(mo, serviceReady, move, step))
<1>1. Sound(mo) /\ Sound(Moved(mo, serviceReady, move, step))
  BY MovedSound DEF IInv, FollowsRequest
<1>2. /\ Moved(mo, serviceReady, move, step).clearing = mo.clearing
      /\ Moved(mo, serviceReady, move, step).state \in FiringStates
           => mo.state \in FiringStates
  <2> USE <1>1 DEF Sound, Motion
  <2>1. CASE mo.state \in HomingStates
    BY <2>1 DEF Moved, Homing, ErrorWithPositionHold, Settling, FiringStates
  <2>2. CASE mo.state \in {"MOVING_TO_STANDBY", "FIRING"}
    BY <2>2 DEF Moved, Travelling, ErrorWithPositionHold, Settling, FiringStates
  <2>3. CASE mo.state \in SlowFireStates
    BY <2>3 DEF Moved, SlowWaiting, SlowRetracting, SlowArmOnly, SlowExtending,
                SlowReturning, Enter, ErrorWithPositionHold, Settling, FiringStates
  <2>4. CASE mo.state \notin HomingStates \cup SlowFireStates
                           \cup {"MOVING_TO_STANDBY", "FIRING"}
    BY <2>4 DEF Moved
  <2> QED BY <2>1, <2>2, <2>3, <2>4
<1> QED BY <1>1, <1>2 DEF FollowsRequest

\* A period that ends in a motion of this kind is a period of the loan.
LEMMA PeriodRefines ==
  ASSUME NEW mo, FollowsRequest(mo), Period(mo)
  PROVE  Clearance!Period
<1>1. m' = mo /\ operation' = OperationOf(mo) /\ clearanceRequest' = clearanceRequest
  BY DEF Period
<1>2. mo \in Motion /\ (mo.state \in FiringStates => ~mo.clearing)
  BY DEF FollowsRequest, Sound, Exclusive
<1>3. operation' \in Clearance!Announcements(MotionOf', m'.clearing)
  <2>1. CASE mo.state \in FiringStates
    <3>1. MotionOf' = "shooting"
      BY <1>1, <2>1 DEF MotionOf, FiringStates
    <3>2. OperationOf(mo) \in {"NORMAL_FIRE", "SLOW_FIRE"}
      BY <2>1 DEF OperationOf, FiringStates
    <3> QED BY <1>1, <3>1, <3>2 DEF Clearance!Announcements
  <2>2. CASE mo.state = "READY"
    <3>1. MotionOf' = "ready"
      BY <1>1, <2>2 DEF MotionOf, FiringStates
    <3>2. OperationOf(mo) = IF mo.clearing THEN "BELT_CLEARANCE" ELSE "IDLE"
      BY <2>2 DEF OperationOf
    <3> QED BY <1>1, <3>1, <3>2 DEF Clearance!Announcements
  <2>3. CASE mo.state \notin FiringStates /\ mo.state # "READY"
    <3>1. MotionOf' = "moving"
      BY <1>1, <2>3 DEF MotionOf
    <3>2. OperationOf(mo) \in {"HOMING", "ERROR", "IDLE"}
      BY <2>3 DEF OperationOf, FiringStates
    <3> QED BY <1>1, <3>1, <3>2 DEF Clearance!Announcements
  <2> QED BY <2>1, <2>2, <2>3
<1>4. /\ MotionOf' \in {"moving", "ready", "shooting"}
      /\ MotionOf' = "shooting" => mo.state \in FiringStates
      /\ m.state \in FiringStates => MotionOf = "shooting"
  BY <1>1 DEF MotionOf, FiringStates
<1> QED BY <1>1, <1>2, <1>3, <1>4 DEF Clearance!Period, FollowsRequest

LEMMA TickRefines ==
  ASSUME IInv, Tick
  PROVE  Clearance!Period
<1>0. /\ FollowsRequest(Older(m)) /\ FollowsRequest(Now)
      /\ FollowsRequest(Resumed(Now))
  BY BeforeRequest DEF FollowsRequest
<1>1. CASE TickActuatorDown
  <2>1. \A s \in {"ERROR", "WAITING_FOR_ACTUATOR_READY"} :
          /\ FollowsRequest([Older(m) EXCEPT !.state = s])
          /\ FollowsRequest([Older(m) EXCEPT !.state = s, !.zeroPending = FALSE])
    BY <1>0 DEF FollowsRequest, Sound, Exclusive, Motion, FiringStates
  <2> QED BY <1>1, <2>1, PeriodRefines DEF TickActuatorDown
<1>2. CASE TickErrorLatched
  BY <1>0, <1>2, PeriodRefines DEF TickErrorLatched
<1>3. CASE TickStopped
  BY <1>0, <1>3, PeriodRefines DEF TickStopped
<1>4. CASE TickZeroFailed
  <2>1. TypeOK /\ Resumed(Now) \in Motion
    BY <1>0 DEF IInv, FollowsRequest, Sound
  <2>2. FollowsRequest(ErrorWithPositionHold(Resumed(Now)))
    BY <1>0, <2>1, ErrorSound
    DEF FollowsRequest, ErrorWithPositionHold, Motion, FiringStates
  <2> QED BY <1>4, <2>2, PeriodRefines DEF TickZeroFailed
<1>5. CASE TickRun
  <2>1. PICK serviceReady \in BOOLEAN, move \in MoveSpring,
             step \in ExtensionSteps : Run(serviceReady, move, step)
    BY <1>5 DEF TickRun
  <2>2. move \in BOOLEAN /\ step \in Int
    BY InputAssumption, PositionAssumption
  <2>3. FollowsRequest(Moved(FireStarted(Planned), serviceReady, move, step))
    BY <2>2, RequestFollowed, MovedKeeps
  <2> QED BY <2>1, <2>3, PeriodRefines DEF Run
<1> QED BY <1>1, <1>2, <1>3, <1>4, <1>5 DEF Tick

\* Of the callbacks, the request is Ask, a displaced standing spring is
\* Displaced, and the others are invisible.
LEMMA InputsRefine ==
  ASSUME IInv, Inputs
  PROVE  [Clearance!Next]_Clearance!vars
<1>0. m \in Motion
  BY DEF IInv, TypeOK
<1>1. CASE BeltClearanceRequest
  <2>1. Clearance!Ask
    BY <1>1 DEF BeltClearanceRequest, Clearance!Ask, MotionOf, outputs
  <2> QED BY <2>1 DEF Clearance!Next
<1>2. CASE SetStandbyOffset
  <2>1. PICK value \in StandbyOffsets \ {standby} :
          IF m.state \in {"READY", "MOVING_TO_STANDBY"}
          THEN m' = Shifted(value) ELSE m' = m
    BY <1>2 DEF SetStandbyOffset
  <2>2. UNCHANGED <<clearanceRequest, operation>>
    BY <1>2 DEF SetStandbyOffset, requests
  <2>3. CASE m.state \in {"READY", "MOVING_TO_STANDBY"}
    <3>1. m' = Shifted(value)
      BY <2>1, <2>3
    <3>2. m'.state = "MOVING_TO_STANDBY" /\ m'.clearing = m.clearing
      BY <1>0, <3>1 DEF Shifted, Motion
    <3>3. Clearance!Displaced
      BY <2>2, <2>3, <3>2 DEF Clearance!Displaced, MotionOf, FiringStates
    <3> QED BY <3>3 DEF Clearance!Next
  <2>4. CASE m.state \notin {"READY", "MOVING_TO_STANDBY"}
    BY <2>1, <2>2, <2>4 DEF Clearance!vars, MotionOf
  <2> QED BY <2>3, <2>4
<1>3. CASE EmergencyStopOn \/ ZeroResponse
  <2>1. m'.state = m.state /\ m'.clearing = m.clearing
    BY <1>0, <1>3 DEF EmergencyStopOn, ZeroResponse, Motion
  <2>2. UNCHANGED <<clearanceRequest, operation>>
    BY <1>3 DEF EmergencyStopOn, ZeroResponse, requests, outputs
  <2> QED BY <2>1, <2>2 DEF Clearance!vars, MotionOf
<1>4. CASE FireRequest \/ SlowFireRequest \/ LimitSwitch \/ ActuatorState
             \/ EmergencyStopOff
  BY <1>4 DEF FireRequest, SlowFireRequest, LimitSwitch, ActuatorState,
              EmergencyStopOff, requests, outputs, Clearance!vars, MotionOf
<1> QED BY <1>1, <1>2, <1>3, <1>4 DEF Inputs

\* The controller implements its promise: it lends the space only on request,
\* shoots only when it is neither lent nor asked for, and announces
\* BELT_CLEARANCE exactly in the periods that end ready and lent.
THEOREM SpringImplementsClearance == Spec => ImplementsClearance
<1>1. Init => Clearance!Init
  BY DEF Init, Clearance!Init, MotionOf, FiringStates
<1>2. IInv /\ [Next]_vars => [Clearance!Next]_Clearance!vars
  <2> SUFFICES ASSUME IInv, [Next]_vars
               PROVE  [Clearance!Next]_Clearance!vars
    OBVIOUS
  <2>1. CASE Tick
    BY <2>1, TickRefines DEF Clearance!Next
  <2>2. CASE Inputs
    BY <2>2, InputsRefine
  <2>3. CASE UNCHANGED vars
    BY <2>3 DEF vars, requests, outputs, Clearance!vars, MotionOf
  <2> QED BY <2>1, <2>2, <2>3 DEF Next
<1> QED BY <1>1, <1>2, Invariance, PTL DEF Spec, ImplementsClearance, Clearance!Spec
==========================================================================
