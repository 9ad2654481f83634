------------------------------ MODULE Game2Aim ------------------------------
(***************************************************************************)
(* The aiming node of game 2, game2_aim_node.cpp: it searches a target,    *)
(* aligns to it, turns the belts while it is aligned, and goes on to the   *)
(* next target when the shot that was requested has been fired.            *)
(* Which target the tracker prefers (target_tracker.hpp) and where it is   *)
(* are abstracted to whether one is locked, aligned, off target or lost.   *)
(* The simulated shots of test_alignment_only are left out.                *)
(***************************************************************************)
EXTENDS JoyController

CONSTANT RowLevels \* get_target_belt_mode: the belt levels of the rows

ASSUME Game2Assumption == RowLevels \subseteq 1 .. MaxLevel

VARIABLE game2 \* the node's state and its tracker

CycleStates == {"IDLE", "BELT_SPINUP", "FEEDING", "RETURNING"}

\* level is target_belt_mode_, 0 while no target is locked; feeding stands
\* for prev_shot_cycle_state_ = FEEDING.
Game2s == [state : AimStates, stop : BOOLEAN, shot : BOOLEAN,
           feeding : BOOLEAN, level : Nat]

Game2Init ==
  game2 = [state |-> "STANDBY", stop |-> FALSE, shot |-> FALSE,
           feeding |-> FALSE, level |-> 0]
-----------------------------------------------------------------------------
\* Mutant: the new state has its target, whatever it is.
TransitionKeepsTarget(g, new) ==
  IF new = g.state THEN g ELSE [g EXCEPT !.state = new, !.shot = FALSE]

\* transition_to: a transition to the state the node is in does nothing;
\* STANDBY and SEARCHING forget the target and the shot.
TransitionTo(g, new) ==
  IF new = g.state THEN g
  ELSE IF new \in {"STANDBY", "SEARCHING"}
       THEN [g EXCEPT !.state = new, !.level = 0, !.shot = FALSE]
       ELSE [g EXCEPT !.state = new]

\* The belts stop when PREPARING_SHOOT ends.
Game2Becomes(g) ==
  /\ game2' = g
  /\ belt' = IF game2.state = "PREPARING_SHOOT" /\ g.state # game2.state
             THEN 0 ELSE belt

\* start_callback
Game2Start ==
  /\ launch = "game2" /\ sent.start # <<>>
  /\ Game2Becomes(TransitionTo(game2,
       IF Head(sent.start) THEN "SEARCHING" ELSE "STANDBY"))
  /\ sent' = [sent EXCEPT !.start = Tail(@)]
  /\ UNCHANGED <<launch, pad, last, joy, drive, fire, slow>>

\* emergency_stop_callback; only the latest value is kept for the node.
Game2Stop ==
  /\ launch = "game2" /\ game2.stop # joy.stop
  /\ LET g == [game2 EXCEPT !.stop = joy.stop] IN
       Game2Becomes(IF joy.stop THEN TransitionTo(g, "STANDBY") ELSE g)
  /\ UNCHANGED <<launch, pad, last, joy, drive, fire, slow, sent>>

\* shot_cycle_req_callback
Game2ShotRequest ==
  /\ "game2" \in sent.shot
  /\ game2' = IF game2.state = "STANDBY" THEN game2
              ELSE [game2 EXCEPT !.shot = TRUE]
  /\ sent' = [sent EXCEPT !.shot = @ \ {"game2"}]
  /\ UNCHANGED <<launch, pad, last, joy, drive, fire, slow, belt>>

\* shot_cycle_state_callback: the shot is fired when the ball has left, or
\* when the cycle is over; mark_active_target_shot gives the target up.
ShotFired(c) ==
  /\ game2.state \in {"ALIGNING", "PREPARING_SHOOT"} /\ game2.shot
  /\ c = "IDLE" \/ (c = "RETURNING" /\ game2.feeding)

Game2HearsCycle(c) ==
  LET g == IF ShotFired(c) THEN TransitionTo(game2, "SEARCHING") ELSE game2
  IN Game2Becomes([g EXCEPT !.feeding = (c = "FEEDING")])
-----------------------------------------------------------------------------
\* control_loop and publish_all.  An emergency stop was acted on when it was
\* heard, and is again here; then the insurance timer of a shot may be over,
\* which in SEARCHING has no effect.
Game2Begins ==
  IF game2.stop THEN {TransitionTo(game2, "STANDBY")}
  ELSE {game2} \cup
         (IF game2.shot THEN {TransitionTo(game2, "SEARCHING")} ELSE {})

\* Where the state of a period leads.
Game2Successors(g) ==
  CASE g.state = "STANDBY" -> {g}
    [] g.state = "SEARCHING" ->
         {g} \cup {[g EXCEPT !.state = "ALIGNING", !.level = l] : l \in RowLevels}
    [] g.state = "ALIGNING" ->
         {g, TransitionTo(g, "PREPARING_SHOOT"), TransitionTo(g, "SEARCHING")}
    [] g.state = "PREPARING_SHOOT" ->
         {g, TransitionTo(g, "ALIGNING"), TransitionTo(g, "SEARCHING")}

\* /drive/cmd_vel: turning, unless the target was locked or left just now.
Game2Drives(g, new) ==
  CASE new.state # "ALIGNING" -> drive
    [] g.state = "ALIGNING" -> "AIM"
    [] OTHER -> "ZERO"

Game2Control ==
  /\ launch = "game2" /\ game2.state # "STANDBY"
  /\ \E g \in Game2Begins : \E new \in Game2Successors(g) :
       /\ game2' = new
       /\ drive' = Game2Drives(g, new)
       /\ belt' = CASE new.state = "PREPARING_SHOOT" -> new.level
                    [] game2.state = "PREPARING_SHOOT" -> 0
                    [] OTHER -> belt
  /\ UNCHANGED <<launch, pad, last, joy, fire, slow, sent>>

Game2Next ==
  Game2Start \/ Game2Stop \/ Game2ShotRequest \/ Game2Control
=============================================================================
