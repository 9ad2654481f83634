-------------------------------- MODULE PkAim --------------------------------
(***************************************************************************)
(* The aiming node of the penalty game, pk_aim_node.cpp, with the target   *)
(* it selects and locks (pk_target_tracker.hpp).                           *)
(* How long ago a panel was seen is abstracted to the set of panels that   *)
(* count as seen when a handler asks; angles to whether the target is      *)
(* aligned and visible, off target, or lost.                               *)
(* The handlers of the emergency stop and of the shot cycle subscribe to   *)
(* /robot/emergency_stop and /shot_cycle/..., which no node publishes:     *)
(* they are never called, and have no action here.                         *)
(***************************************************************************)
EXTENDS JoyController

CONSTANTS
  PanelCount, \* panels are 0 .. PanelCount - 1
  LevelOf     \* belt_mode of each

Panels == 0 .. PanelCount - 1

ASSUME PkAssumption ==
  /\ PanelCount \in Nat \ {0}
  /\ LevelOf \in [Panels -> Nat]

VARIABLE pk \* the node's state and its tracker

Pks == [state : AimStates, confirmed : BOOLEAN, locked : BOOLEAN,
        selected : Panels, level : Nat]

\* The panel in the middle is selected.
PkInit ==
  pk = [state |-> "STANDBY", confirmed |-> FALSE, locked |-> FALSE,
        selected |-> PanelCount \div 2, level |-> 0]
-----------------------------------------------------------------------------
\* select_next and select_prev: the closest panel seen in that direction,
\* the selected one last; the selection stays if no panel is seen.
Neighbour(way, step) ==
  IF way = "NEXT" THEN (pk.selected + step) % PanelCount
  ELSE (pk.selected + (PanelCount - step)) % PanelCount

Selection(way, seen) ==
  IF seen = {} THEN {pk.selected}
  ELSE {p \in seen : \E step \in 1 .. PanelCount :
          /\ p = Neighbour(way, step)
          /\ \A nearer \in 1 .. step - 1 : Neighbour(way, nearer) \notin seen}

\* Mutant: a target that is already locked keeps its belt level.
LockOnce(k, seen) ==
  IF k.selected \in seen
  THEN [k EXCEPT !.locked = TRUE,
         !.level = IF k.locked THEN @ ELSE LevelOf[k.selected]]
  ELSE [k EXCEPT !.locked = FALSE]

\* lock_selected_target
Lock(k, seen) ==
  IF k.selected \in seen
  THEN [k EXCEPT !.locked = TRUE, !.level = LevelOf[k.selected]]
  ELSE [k EXCEPT !.locked = FALSE]

\* A lock that succeeds is followed by ALIGNING.
LockAndAlign(k, seen) ==
  LET locked == Lock(k, seen) IN
  IF locked.locked THEN [locked EXCEPT !.state = "ALIGNING"] ELSE locked

\* transition_to: the belts stop when PREPARING_SHOOT ends, and in STANDBY.
BeltsStopIn(new) ==
  /\ new # pk.state
  /\ pk.state = "PREPARING_SHOOT" \/ new = "STANDBY"

\* A handler leaves the node in state k; what it published comes last.
PkBecomes(k) ==
  pk' = k /\ belt' = IF BeltsStopIn(k.state) THEN 0 ELSE belt

Receive(topic) == sent' = [sent EXCEPT ![topic] = Tail(@)]
-----------------------------------------------------------------------------
\* pk_start_callback(true): begins in STANDBY, and at once aligns to the
\* selected panel if it is seen.
PkStart ==
  /\ launch = "pk" /\ sent.start # <<>> /\ Head(sent.start)
  /\ \E seen \in SUBSET Panels :
       pk' = IF pk.state # "STANDBY" THEN pk
             ELSE LockAndAlign(
               [pk EXCEPT !.confirmed = FALSE, !.state = "SEARCHING"], seen)
  /\ Receive("start")
  /\ UNCHANGED <<launch, pad, last, joy, drive, fire, slow, belt>>

\* pk_start_callback(false)
PkEnd ==
  /\ launch = "pk" /\ sent.start # <<>> /\ ~Head(sent.start)
  /\ PkBecomes(IF pk.state = "STANDBY" THEN pk
               ELSE [pk EXCEPT !.confirmed = FALSE, !.locked = FALSE,
                               !.state = "STANDBY"])
  /\ Receive("start")
  /\ UNCHANGED <<launch, pad, last, joy, drive, fire, slow>>

\* pk_confirm_callback: the confirmation counts in any state.
PkConfirm ==
  /\ sent.confirm > 0
  /\ LET k == [pk EXCEPT !.confirmed = TRUE] IN
       CASE pk.state = "SEARCHING" ->
              \E seen \in SUBSET Panels : pk' = LockAndAlign(k, seen)
         [] pk.state = "ALIGNING" ->
              pk' \in {k, [k EXCEPT !.state = "PREPARING_SHOOT"]}
         [] OTHER -> pk' = k
  /\ sent' = [sent EXCEPT !.confirm = @ - 1]
  /\ UNCHANGED <<launch, pad, last, joy, drive, fire, slow, belt>>

\* pk_next_callback and pk_prev_callback
PkChoose ==
  /\ sent.choose # <<>>
  /\ IF pk.state = "STANDBY" THEN UNCHANGED <<pk, belt>>
     ELSE \E seen \in SUBSET Panels :
            \E p \in Selection(Head(sent.choose), seen) :
              PkBecomes(LockAndAlign(
                [pk EXCEPT !.confirmed = FALSE, !.selected = p], seen))
  /\ Receive("choose")
  /\ UNCHANGED <<launch, pad, last, joy, drive, fire, slow>>
-----------------------------------------------------------------------------
\* control_loop and publish_all, state by state.  In STANDBY nothing is
\* published but the state.

\* SEARCHING: locks the selected panel as soon as it is seen.
PkSearch ==
  /\ pk.state = "SEARCHING"
  /\ \E seen \in SUBSET Panels : pk' = LockAndAlign(pk, seen)
  /\ drive' = IF pk'.state = "ALIGNING" THEN "ZERO" ELSE drive
  /\ belt' = 0

\* ALIGNING: turns until the target is aligned and visible, then waits for
\* the confirmation.
PkAlign ==
  /\ pk.state = "ALIGNING"
  /\ \/ /\ ~pk.locked
        /\ pk' = [pk EXCEPT !.state = "SEARCHING"]
        /\ belt' = 0 /\ UNCHANGED drive
     \/ /\ pk.locked /\ pk.confirmed \* aligned and visible
        /\ pk' = [pk EXCEPT !.state = "PREPARING_SHOOT"]
        /\ belt' = pk.level /\ UNCHANGED drive
     \/ /\ pk.locked /\ ~pk.confirmed \* aligned and visible
        /\ drive' = "ZERO" /\ belt' = 0 /\ UNCHANGED pk
     \/ /\ pk.locked
        /\ drive' = "AIM" /\ belt' = 0 /\ UNCHANGED pk

\* PREPARING_SHOOT: turns the belts until the target is lost or off target.
PkPrepare ==
  /\ pk.state = "PREPARING_SHOOT"
  /\ \/ belt' = pk.level /\ UNCHANGED <<pk, drive>>
     \/ /\ pk.locked
        /\ pk' = [pk EXCEPT !.confirmed = FALSE, !.state = "SEARCHING"]
        /\ belt' = 0 /\ UNCHANGED drive
     \/ /\ pk.locked
        /\ pk' = [pk EXCEPT !.confirmed = FALSE, !.state = "ALIGNING"]
        /\ drive' = "ZERO" /\ belt' = 0

PkControl ==
  /\ PkSearch \/ PkAlign \/ PkPrepare
  /\ UNCHANGED <<launch, pad, last, joy, fire, slow, sent>>

PkNext == PkStart \/ PkEnd \/ PkConfirm \/ PkChoose \/ PkControl
=============================================================================
