---------------------------- MODULE ShotInterlock ----------------------------
(***************************************************************************)
(* The dribble controller and the spring controller, each in its process,  *)
(* joined by two topics: /spring/belt_clearance_request and                *)
(* /spring/operation_state.  Both are QoS(1), reliable and transient       *)
(* local: a subscriber gets the latest value, possibly skipping earlier    *)
(* ones.  The spring is represented by what it promises (SpringClearance). *)
(***************************************************************************)
EXTENDS DribbleController

CONSTANTS
  RestAnnouncements, ShotAnnouncements,
  Prompt  \* a published value arrives before the receiver's next step

ASSUME InterlockAssumption ==
  /\ RestAnnouncements \subseteq {"IDLE", "HOMING", "ERROR"}
  /\ ShotAnnouncements \subseteq {"NORMAL_FIRE", "SLOW_FIRE"}
  /\ Prompt \in BOOLEAN

VARIABLES motion, lent, asked, announced

Spring == INSTANCE SpringClearance WITH Requests <- BOOLEAN

springVars == <<motion, lent, asked, announced>>
allVars == <<vars, springVars>>

InterlockInit == Init /\ Spring!Init

RequestDelivered == asked = clearance
OperationDelivered == announced \in {"none", input.op}

\* The spring receives the last published request.
DeliverRequest ==
  /\ ~RequestDelivered /\ asked' = clearance /\ Spring!Ask
  /\ UNCHANGED vars

\* The dribble controller receives the last published operation state.
DeliverOperation ==
  /\ ~OperationDelivered /\ SpringState(announced)
  /\ UNCHANGED springVars

SpringStep ==
  /\ Prompt => RequestDelivered
  /\ Spring!Period \/ Spring!Displaced
  /\ UNCHANGED vars

DribbleStep ==
  /\ Prompt => OperationDelivered
  /\ \/ Tick \/ PositionMode \/ DribbleEnabled \/ ShotCycleRequest
     \/ EmergencyStopOn \/ EmergencyStopOff \/ EduliteState \/ VescState
  /\ UNCHANGED springVars

InterlockNext ==
  DeliverRequest \/ DeliverOperation \/ SpringStep \/ DribbleStep
InterlockSpec == InterlockInit /\ [][InterlockNext]_allVars
-----------------------------------------------------------------------------
\* From the moment the arm starts to feed until it is back, the spring stays
\* lent and does not shoot.
FeedsPastLentSpring ==
  shot.active /\ shot.phase \in {"FEEDING", "RETURNING"}
    => lent /\ motion # "shooting"

\* The spring never shoots while the arm is commanded to, or away from, FEED.
NoShotIntoArm == motion = "shooting" => "FEED" \notin arm.cmd
==========================================================================
