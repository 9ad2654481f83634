--------------------------- MODULE SpringClearance ---------------------------
(***************************************************************************)
(* What the spring controller promises to a node that borrows the space in *)
(* front of the spring: it lends itself only when asked, shoots only when  *)
(* it is not lent and not asked for, and announces BELT_CLEARANCE exactly  *)
(* while it stands ready and lent.  SpringRefinement shows that            *)
(* SpringController implements this.                                       *)
(***************************************************************************)
CONSTANTS
  Requests,          \* values /spring/belt_clearance_request may carry
  RestAnnouncements, \* announcements of a spring that is neither lent nor
                     \* shooting
  ShotAnnouncements  \* announcements of a shooting spring

VARIABLES
  motion,     \* ready, shooting, or moving for every other state
  lent,       \* the clearance has been started and not finished
  asked,      \* the last request received
  announced   \* the last operation state published

vars == <<motion, lent, asked, announced>>

Init == /\ motion = "moving" /\ lent = FALSE /\ asked = FALSE
        /\ announced = "none"

Announcements(mo, l) ==
  CASE mo = "shooting" -> ShotAnnouncements
    [] mo = "ready" /\ l -> {"BELT_CLEARANCE"}
    [] OTHER -> RestAnnouncements

Ask == /\ asked' \in Requests
       /\ UNCHANGED <<motion, lent, announced>>

\* A control period follows the request or, when the actuator or the emergency
\* stop keeps it from doing so, leaves the loan as it is.
Period ==
  /\ motion' \in {"moving", "ready", "shooting"}
  /\ lent' \in {lent, asked}
  /\ motion' = "shooting" => ~lent' /\ (motion = "shooting" \/ ~asked)
  /\ announced' \in Announcements(motion', lent')
  /\ UNCHANGED asked

\* A changed parameter sends a standing spring back to its position; nothing is
\* announced before the next period.
Displaced ==
  /\ motion # "shooting" /\ motion' = "moving"
  /\ UNCHANGED <<lent, asked, announced>>

Next == Ask \/ Period \/ Displaced
Spec == Init /\ [][Next]_vars
-----------------------------------------------------------------------------
\* A lent spring does not shoot, and one announced as cleared is still lent.
LoanKept ==
  /\ motion = "shooting" => ~lent
  /\ announced = "BELT_CLEARANCE" => lent
=============================================================================
