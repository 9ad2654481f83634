------------------------------ MODULE AutoMode ------------------------------
(***************************************************************************)
(* The joystick node with the aiming node of the launch file that was      *)
(* used, and the part of the dribble node that both compete with: the shot *)
(* cycle and the belts it turns.  (DribbleController has the cycle in      *)
(* full; here its phases follow one another in any time.)                  *)
(*                                                                         *)
(* The nodes are processes of their own: what one publishes reaches the    *)
(* others later, requests in order, states as the latest value.  The belts *)
(* and the drive take the last command of whichever node published it.     *)
(***************************************************************************)
EXTENDS PkAim, Game2Aim

CONSTANT SpinupLevel \* shot_cycle_belt_spinup_level

ASSUME AutoAssumption == SpinupLevel \in 1 .. MaxLevel

VARIABLE cycle \* the shot cycle of the dribble node

vars == <<launch, pad, last, joy, drive, fire, slow, belt, sent,
          pk, game2, cycle>>

\* auto is belt_auto_started_, told last_published_shot_cycle_state_ (for
\* game 2, who listens); news: game 2 has not received it yet.
Cycles == [phase : CycleStates, auto : BOOLEAN, stop : BOOLEAN,
           told : CycleStates, news : BOOLEAN]

Init ==
  /\ JoyInit /\ PkInit /\ Game2Init
  /\ cycle = [phase |-> "IDLE", auto |-> FALSE, stop |-> FALSE,
              told |-> "IDLE", news |-> FALSE]
-----------------------------------------------------------------------------
AimState ==
  CASE launch = "game2" -> game2.state
    [] launch = "pk" -> pk.state
    [] OTHER -> "STANDBY"

\* The joystick node hears of /game2/state or /pk/state.  It only tells
\* PREPARING_SHOOT, and SEARCHING in the penalty game, from the other states.
AimShown ==
  IF AimState = "PREPARING_SHOOT" \/ pk.state = "SEARCHING" THEN AimState
  ELSE "STANDBY"

JoyHearsAim ==
  /\ joy.aimState # AimShown
  /\ joy' = [joy EXCEPT !.aimState = AimShown]
  /\ UNCHANGED <<launch, pad, last, drive, fire, slow, belt, sent,
                 pk, game2, cycle>>

\* shot_cycle_callback and start_shot_cycle: whether the belts turn already
\* is the measurement of another node.
CycleStart ==
  /\ "dribble" \in sent.shot
  /\ IF cycle.stop \/ cycle.phase # "IDLE" THEN UNCHANGED <<cycle, belt>>
     ELSE \E auto \in BOOLEAN :
            /\ cycle' = [cycle EXCEPT !.phase = "BELT_SPINUP", !.auto = auto]
            /\ belt' = IF auto THEN SpinupLevel ELSE belt
  /\ sent' = [sent EXCEPT !.shot = @ \ {"dribble"}]
  /\ UNCHANGED <<launch, pad, last, joy, drive, fire, slow, pk, game2>>

\* position_mode_callback: a position of the arm ends a cycle in any phase.
\* The belts are not told, and belt_auto_started_ stays as it is.  Without a
\* cycle, the position may cancel a shot that waits for the arm.
CyclePosition ==
  /\ sent.arm > 0
  /\ cycle' = IF cycle.stop THEN cycle ELSE [cycle EXCEPT !.phase = "IDLE"]
  /\ \E cancelled \in SUBSET {"dribble"} :
       /\ cycle.stop \/ cycle.phase # "IDLE" => cancelled = {}
       /\ sent' = [sent EXCEPT !.arm = @ - 1, !.shot = @ \ cancelled]
  /\ UNCHANGED <<launch, pad, last, joy, drive, fire, slow, belt, pk, game2>>

\* control_timer_callback begins by publishing the phase, if it is another
\* than the last time.
Told ==
  IF launch # "game2" THEN cycle
  ELSE [cycle EXCEPT !.told = cycle.phase,
                     !.news = @ \/ cycle.phase # cycle.told]

\* A cycle gives up in BELT_SPINUP, when the spring is not out of the way in
\* time, and is complete after RETURNING.
PhasesAfter(phase) ==
  CASE phase = "BELT_SPINUP" -> {"BELT_SPINUP", "FEEDING", "IDLE"}
    [] phase = "FEEDING" -> {"FEEDING", "RETURNING"}
    [] phase = "RETURNING" -> {"RETURNING", "IDLE"}

\* Mutant: a cycle that gives up or is complete leaves its belts turning.
CycleTimerLeaves(stopped) ==
  \/ cycle' = [Told EXCEPT !.stop = stopped] /\ UNCHANGED belt
  \/ /\ ~stopped /\ cycle.phase # "IDLE"
     /\ \E new \in PhasesAfter(cycle.phase) :
          cycle' = [Told EXCEPT !.stop = stopped, !.phase = new,
                                !.auto = @ /\ new # "IDLE"]
     /\ belt' = IF cycle.auto THEN SpinupLevel ELSE belt

\* control_timer_callback; stopped is emergency_stop_active_.  There may be
\* nothing to do but to publish the phase: no cycle, a stop, or the arm is not
\* ready.  Belts the cycle has started turn, and stop when it is over.
CycleTimer(stopped) ==
  \/ cycle' = [Told EXCEPT !.stop = stopped] /\ UNCHANGED belt
  \/ /\ ~stopped /\ cycle.phase # "IDLE"
     /\ \E new \in PhasesAfter(cycle.phase) :
          /\ cycle' = [Told EXCEPT !.stop = stopped, !.phase = new,
                                   !.auto = @ /\ new # "IDLE"]
          /\ belt' = CASE ~cycle.auto -> belt
                       [] new = "IDLE" -> 0
                       [] OTHER -> SpinupLevel

CycleControl ==
  /\ CycleTimer(cycle.stop)
  /\ UNCHANGED <<launch, pad, last, joy, drive, fire, slow, sent, pk, game2>>

\* emergency_stop_callback of the dribble node, which calls the timer's.
CycleStop ==
  /\ cycle.stop # joy.stop
  /\ CycleTimer(joy.stop)
  /\ UNCHANGED <<launch, pad, last, joy, drive, fire, slow, sent, pk, game2>>

Game2HearsCycleState ==
  /\ cycle.news
  /\ Game2HearsCycle(cycle.told)
  /\ cycle' = [cycle EXCEPT !.news = FALSE]
  /\ UNCHANGED <<launch, pad, last, joy, drive, fire, slow, sent, pk>>

Next ==
  \/ JoyNext /\ UNCHANGED <<pk, game2, cycle>>
  \/ PkNext /\ UNCHANGED <<game2, cycle>>
  \/ Game2Next /\ UNCHANGED <<pk, cycle>>
  \/ JoyHearsAim \/ CycleStart \/ CycleStop \/ CycleControl
  \/ CyclePosition
  \/ Game2HearsCycleState

Spec == Init /\ [][Next]_vars
-----------------------------------------------------------------------------
\* The variables have their types.
TypeOK ==
  /\ launch \in Launches /\ pad \in SUBSET STRING
  /\ last \in SUBSET SUBSET STRING
  /\ joy \in Joys /\ joy.level <= MaxLevel
  /\ drive \in {"ZERO", "MANUAL", "AIM"}
  /\ fire \in BOOLEAN /\ slow \in BOOLEAN /\ belt \in Nat
  /\ sent \in Requests
  /\ pk \in Pks /\ game2 \in Game2s /\ cycle \in Cycles

\* During an emergency stop, and while the joystick is silent, whatever was
\* held, pressed or set before: the joystick node does not ask for a shot
\* of the spring, its velocity and belt level are zero, the dribbler is off
\* and so is the automatic mode of game 2.  (joy_callback, loop_callback,
\* publish_stop_commands, joy_timeout_timer_callback)
StoppedIsStill ==
  joy.stop \/ joy.timedOut =>
    /\ ~fire /\ joy.speed = 0 /\ joy.level = 0
    /\ ~joy.dribble /\ ~joy.game2

\* The aiming node of game 2 takes part only while the joystick node leaves
\* it the drive, or has told it to end and it has not heard.  Both would
\* publish /drive/cmd_vel otherwise.  (game2_active_, /game2/command_start)
OneDriver ==
  game2.state # "STANDBY" =>
    \/ joy.game2
    \/ sent.start # <<>> /\ ~sent.start[Len(sent.start)]

\* Belts that turn are turned by someone who will stop them: the level the
\* operator has set, the level of the target an aiming node is preparing to
\* shoot at, or a shot cycle that started them.  (/belt/command_mode)
BeltsHaveOwner ==
  belt # 0 =>
    \/ belt = joy.level
    \/ pk.state = "PREPARING_SHOOT" /\ belt = pk.level
    \/ game2.state = "PREPARING_SHOOT" /\ belt = game2.level
    \/ cycle.phase # "IDLE" /\ cycle.auto /\ belt = SpinupLevel

\* There is one way only for belts that turn to be left to nobody: a position
\* of the arm ends the cycle that started them.  No end of a cycle, of a mode
\* or of a shot, no stop, timeout or change of level does that, in whatever
\* order four nodes publish what.  (/belt/command_mode,
\* position_mode_callback)
BeltsKeepOwner ==
  [][BeltsHaveOwner /\ ~BeltsHaveOwner' =>
       /\ sent'.arm < sent.arm
       /\ cycle.auto /\ cycle.phase # "IDLE" /\ cycle'.phase = "IDLE"]_vars

\* Game 2 aims at a target that is locked, and a target that was shot at,
\* lost or given up stays locked in no other state.  (transition_to,
\* clear_target, mark_active_target_shot)
AimsAtTarget ==
  (game2.state \in {"ALIGNING", "PREPARING_SHOOT"}) = (game2.level # 0)

\* In the penalty game the belts are turned at the level of the panel that
\* is selected, also when the selection changes while they turn.
\* (select_next, select_prev, lock_selected_target)
LevelOfSelected ==
  pk.state = "PREPARING_SHOOT" => pk.level = LevelOf[pk.selected]

\* docs/controllers/game2-aim.md:76: with the emergency stop the aiming node
\* goes to STANDBY at once.  At the latest when it has received what it was
\* sent.
StopEndsAutomatic ==
  joy.stop /\ sent.start = <<>> => AimState = "STANDBY"
=============================================================================
