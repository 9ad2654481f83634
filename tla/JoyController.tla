---------------------------- MODULE JoyController ----------------------------
(***************************************************************************)
(* The joystick node, joy_controller_node.cpp: the latest /joy message, a  *)
(* loop timer that turns edges of it into requests, the timer that notices *)
(* its absence, and what the node tells the rest of the robot.             *)
(* A message is the set of controls it shows as held: buttons, triggers    *)
(* and D-pad directions beyond their threshold, and "STICK" for a stick    *)
(* outside its dead zone.  Topics on which the latest value counts are     *)
(* variables; requests to the aiming node and to the shot cycle are in     *)
(* flight in sent until AutoMode delivers them.                            *)
(***************************************************************************)
EXTENDS Naturals, Sequences

CONSTANTS
  Launches,     \* the ways the robot is started (robot_bringup/launch)
  Pads,         \* for each of them, the sets of controls that may be held
  MaxLevel,     \* BeltMode::LEVEL_4
  OpenDelay, RestoreDelay, \* spring_arm_..._delay_ms, in loop periods
  MaxInFlight   \* bound on the requests of a topic that are under way

AimStates == {"STANDBY", "SEARCHING", "ALIGNING", "PREPARING_SHOOT"}
ArmPositions == {"DRIBBLE", "OPEN", "HOME"}

ASSUME JoyAssumption ==
  /\ Launches \subseteq {"manual", "game3", "game2", "pk"}
  /\ \A l \in Launches : Pads[l] \subseteq SUBSET STRING
  /\ {MaxLevel, OpenDelay, RestoreDelay, MaxInFlight} \subseteq Nat
  /\ MaxLevel <= 4

VARIABLES
  launch, \* how the robot was started: which other nodes run
  pad,    \* joy_msg_
  last,   \* last_joy_msg_: {} or {the message the loop handled last}
  joy,    \* the node's state
  drive,  \* /drive/cmd_vel: who moves the robot, or "ZERO"
  fire,   \* /spring/fire_request
  slow,   \* /spring/slow_fire_request
  belt,   \* /belt/command_mode
  sent    \* requests not yet received

joyVars == <<launch, pad, last, joy, drive, fire, slow, belt, sent>>

Joys == [heard : BOOLEAN, timedOut : BOOLEAN, stop : BOOLEAN,
         game2 : BOOLEAN, pk : BOOLEAN, aimState : AimStates,
         level : Nat, dribble : BOOLEAN, reversed : BOOLEAN,
         heading : BOOLEAN, arm : ArmPositions, speed : {0, 1},
         springReady : BOOLEAN, started : BOOLEAN, open : BOOLEAN,
         restore : BOOLEAN, clock : Nat]

\* arm counts the positions on /dribble/command_position: to the shot cycle
\* they are all the same.
Requests == [start : Seq(BOOLEAN), choose : Seq({"NEXT", "PREV"}),
             confirm : Nat, shot : SUBSET {"dribble", "game2"}, arm : Nat]

NoRequests ==
  [start |-> <<>>, choose |-> <<>>, confirm |-> 0, shot |-> {}, arm |-> 0]

\* The constructor: an emergency stop, and publish_stop_commands.
JoyInit ==
  /\ launch \in Launches /\ pad = {} /\ last = {}
  /\ joy = [heard |-> FALSE, timedOut |-> FALSE, stop |-> TRUE,
            game2 |-> FALSE, pk |-> FALSE, aimState |-> "STANDBY",
            level |-> 0, dribble |-> FALSE, reversed |-> FALSE,
            heading |-> TRUE, arm |-> "DRIBBLE", speed |-> 0,
            springReady |-> FALSE, started |-> FALSE, open |-> FALSE,
            restore |-> FALSE, clock |-> 0]
  /\ drive = "ZERO" /\ fire = FALSE /\ slow = FALSE /\ belt = 0
  /\ sent = NoRequests
-----------------------------------------------------------------------------
Held(c) == c \in pad
Pressed(c) == c \in pad /\ \A p \in last : c \notin p

Active == joy.heard /\ ~joy.timedOut
Room == /\ Len(sent.start) <= MaxInFlight /\ Len(sent.choose) < MaxInFlight
        /\ sent.confirm < MaxInFlight

\* Time since the spring sequence began; it passes in every period.
Later ==
  [joy EXCEPT !.clock = IF (joy.open \/ joy.restore) /\ @ < RestoreDelay
                        THEN @ + 1 ELSE @]

\* Mutant: the stop leaves the automatic mode on.
QuietOfGame2(j) == [j EXCEPT !.speed = 0, !.level = 0, !.dribble = FALSE]

\* publish_stop_commands: what becomes of the node's state.
Quiet(j) ==
  [j EXCEPT !.speed = 0, !.level = 0, !.dribble = FALSE, !.game2 = FALSE]

\* Mutant: the aiming node is not told.
PublishStopButAim ==
  /\ drive' = "ZERO" /\ fire' = FALSE /\ belt' = 0 /\ UNCHANGED sent

\* publish_stop_commands: what is published.  /pk/start is not.
PublishStopCommands ==
  /\ drive' = "ZERO" /\ fire' = FALSE /\ belt' = 0
  /\ sent' = IF joy.game2 /\ launch = "game2"
             THEN [sent EXCEPT !.start = Append(@, FALSE)] ELSE sent
-----------------------------------------------------------------------------
NewArm ==
  LET Toggled(p) == IF joy.arm = p THEN "DRIBBLE" ELSE p IN
  IF ~Held("R2") THEN joy.arm
  ELSE IF Pressed("SQUARE") THEN Toggled("HOME")
  ELSE IF Pressed("LEFT") THEN Toggled("OPEN") ELSE joy.arm

\* Mutant: UP is not limited.
NewLevelUnlimited ==
  IF Held("R2") THEN joy.level
  ELSE IF Pressed("UP") THEN joy.level + 1
  ELSE IF Pressed("DOWN") /\ joy.level > 0 THEN joy.level - 1 ELSE joy.level

NewLevel ==
  IF Held("R2") THEN joy.level
  ELSE IF Pressed("UP")
       THEN IF joy.level < MaxLevel THEN joy.level + 1 ELSE MaxLevel
  ELSE IF Pressed("DOWN") /\ joy.level > 0 THEN joy.level - 1 ELSE joy.level

BeltPublished ==
  \/ ~Held("R2") /\ (Pressed("UP") \/ Pressed("DOWN"))
  \/ Pressed("TRIANGLE") \/ Pressed("CROSS")

\* D-pad left and right choose the PK target, unless up or down is pressed.
NewChoose ==
  IF launch # "pk" \/ Held("R2") \/ Pressed("UP") \/ Pressed("DOWN")
  THEN sent.choose
  ELSE IF Pressed("RIGHT") THEN Append(sent.choose, "NEXT")
  ELSE IF Pressed("LEFT") THEN Append(sent.choose, "PREV") ELSE sent.choose

\* L2 and the circle request a shot: in an automatic mode, only when aimed.
ShotAllowed ==
  (~joy.game2 /\ ~joy.pk) \/ joy.aimState = "PREPARING_SHOOT"

ChordPressed ==
  {"L2", "R2"} \subseteq pad /\ \A p \in last : ~({"L2", "R2"} \subseteq p)

ShotRequested ==
  \/ Pressed("CIRCLE") /\ Held("L2") /\ ShotAllowed
  \/ launch = "game3" /\ ChordPressed

Confirmed ==
  /\ Pressed("CIRCLE") /\ ~Held("L2")
  /\ joy.pk \/ (launch = "pk" /\ joy.aimState = "SEARCHING")

\* OPTIONS toggles both modes, each from its own value; then a stick that
\* is moved ends both.
Toggled(mode) == IF Pressed("OPTIONS") THEN ~mode ELSE mode
Overridden == Held("STICK") /\ (Toggled(joy.game2) \/ Toggled(joy.pk))
NewGame2 == Toggled(joy.game2) /\ ~Overridden
NewPk == Toggled(joy.pk) /\ ~Overridden

\* /game2/command_start or /pk/start: only the aiming node that was started
\* has a subscription.
NewStart ==
  LET asked == IF Pressed("OPTIONS") THEN Append(sent.start, ~joy.game2)
               ELSE sent.start
  IN IF launch \notin {"game2", "pk"} THEN sent.start
     ELSE IF Overridden THEN Append(asked, FALSE) ELSE asked

\* L2 and R2 fire the spring while they are held and the spring is ready;
\* the arm opens after one delay and goes back to DRIBBLE after another.
FireRequested ==
  {"L2", "R2"} \subseteq pad /\ launch # "game3" /\ joy.springReady
FireBegins == FireRequested /\ ~joy.started /\ ~joy.restore

SequenceTime(j) == IF FireBegins THEN 0 ELSE j.clock
Opening(j) == FireBegins \/ j.open
Restoring(j) == FireBegins \/ j.restore
Opens(j) == Opening(j) /\ SequenceTime(j) >= OpenDelay
Restores(j) ==
  /\ Restoring(j) /\ (Opens(j) \/ ~Opening(j))
  /\ SequenceTime(j) >= RestoreDelay

AfterFire(j) ==
  [j EXCEPT !.started = FireBegins \/ (FireRequested /\ joy.started),
            !.clock = SequenceTime(j),
            !.open = Opening(j) /\ ~Opens(j),
            !.restore = Restoring(j) /\ ~Restores(j),
            !.arm = IF Restores(j) THEN "DRIBBLE"
                    ELSE IF Opens(j) THEN "OPEN" ELSE j.arm]

\* How often the loop publishes a position of the arm: by hand, and twice in
\* the course of the spring sequence.
Moved == Held("R2") /\ (Pressed("SQUARE") \/ Pressed("LEFT"))
Once(condition) == IF condition THEN 1 ELSE 0
ArmCommands(j) == Once(Moved) + Once(Opens(j)) + Once(Restores(j))

\* The velocity after the rate limiter.  It is left as it is while the
\* automatic mode has the drive, and takes a while to come to rest.
Speeds ==
  IF NewGame2 THEN {joy.speed}
  ELSE IF Held("STICK") THEN {1} ELSE {0, joy.speed}
-----------------------------------------------------------------------------
\* joy_callback
JoyMessage ==
  /\ \E p \in Pads[launch] : pad' = p
  /\ joy' = [joy EXCEPT !.heard = TRUE, !.timedOut = FALSE]
  /\ UNCHANGED <<launch, last, drive, fire, slow, belt, sent>>

\* joy_timeout_timer_callback.  The timeout of a second leaves the loop time
\* to handle the last message.
JoyTimeout ==
  /\ Active /\ last = {pad} /\ Room
  /\ joy' = [Quiet(joy) EXCEPT !.timedOut = TRUE] /\ last' = {}
  /\ PublishStopCommands
  /\ UNCHANGED <<launch, pad, slow>>

\* loop_callback: no message, or none for too long.
LoopIdle ==
  /\ ~Active
  /\ joy' = Later
  /\ UNCHANGED <<launch, pad, last, drive, fire, slow, belt, sent>>

\* loop_callback: HOME begins an emergency stop.
LoopStop ==
  /\ Active /\ ~joy.stop /\ Pressed("HOME") /\ Room
  /\ joy' = [Quiet(Later) EXCEPT !.stop = TRUE] /\ last' = {pad}
  /\ PublishStopCommands
  /\ UNCHANGED <<launch, pad, slow>>

\* loop_callback: an emergency stop goes on.
LoopStopped ==
  /\ Active /\ joy.stop /\ ~Pressed("HOME")
  /\ joy' = Later /\ last' = {pad}
  /\ UNCHANGED <<launch, pad, drive, fire, slow, belt, sent>>

\* What the controls make of the node, the spring sequence aside.
Controlled(v) ==
  [Later EXCEPT
     !.stop = FALSE, !.arm = NewArm, !.level = NewLevel,
     !.dribble = (@ # Pressed("R1")), !.reversed = (@ # Pressed("PS")),
     !.heading = (@ # Pressed("SHARE")),
     !.game2 = NewGame2, !.pk = NewPk, !.speed = v]

\* loop_callback: the controls have their effects; HOME ends a stop first.
LoopRun ==
  /\ Active /\ joy.stop = Pressed("HOME") /\ Room
  /\ \E v \in Speeds :
       /\ ArmCommands(Controlled(v)) = 0 \/ sent.arm < MaxInFlight
       /\ joy' = AfterFire(Controlled(v))
       /\ sent' = [sent EXCEPT
            !.start = NewStart, !.choose = NewChoose,
            !.confirm = IF launch = "pk" /\ Confirmed THEN @ + 1 ELSE @,
            !.shot = IF ShotRequested
                     THEN @ \cup ({"dribble", "game2"} \cap {"dribble", launch})
                     ELSE @,
            !.arm = @ + ArmCommands(Controlled(v))]
       /\ drive' = IF NewGame2 THEN drive
                   ELSE IF v = 1 THEN "MANUAL" ELSE "ZERO"
  /\ fire' = FireRequested
  /\ slow' = (Held("L1") /\ launch # "game3")
  /\ belt' = IF BeltPublished THEN NewLevel ELSE belt
  /\ last' = {pad}
  /\ UNCHANGED <<launch, pad>>

\* parameter_callback: the message at hand counts as handled.
SetParameters ==
  /\ joy.heard /\ last' = {pad}
  /\ UNCHANGED <<launch, pad, joy, drive, fire, slow, belt, sent>>

\* spring_actuator_ready_callback; it counts only for the spring's triggers.
SpringReady ==
  /\ launch # "game3" /\ \E p \in Pads[launch] : {"L2", "R2"} \subseteq p
  /\ \E r \in BOOLEAN : joy' = [joy EXCEPT !.springReady = r]
  /\ UNCHANGED <<launch, pad, last, drive, fire, slow, belt, sent>>

JoyNext ==
  \/ JoyMessage \/ JoyTimeout \/ LoopIdle \/ LoopStop \/ LoopStopped
  \/ LoopRun \/ SetParameters \/ SpringReady
=============================================================================
