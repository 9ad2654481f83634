-------------------------- MODULE SpringRefinement --------------------------
(***************************************************************************)
(* SpringController implements SpringClearance.                            *)
(***************************************************************************)
EXTENDS SpringController

MotionOf == CASE m.state \in FiringStates -> "shooting"
              [] m.state = "READY" -> "ready"
              [] OTHER -> "moving"

Clearance == INSTANCE SpringClearance WITH
  Requests <- ClearanceRequests,
  RestAnnouncements <- {"IDLE", "HOMING", "ERROR"},
  ShotAnnouncements <- {"NORMAL_FIRE", "SLOW_FIRE"},
  motion <- MotionOf, lent <- m.clearing, asked <- clearanceRequest,
  announced <- operation

\* What the controller does to its state, its loan and its announcements is
\* what SpringClearance allows, through homing, shots, errors, reconnections,
\* emergency stops and parameter changes.
ImplementsClearance == Clearance!Spec
==========================================================================
